----------------------- MODULE ApprovalEngine_proofs -----------------------
(* Proofs about an approval: the row is a register that is written once,   *)
(* and what its token is worth, for any number of requests of any kind.    *)
EXTENDS ApprovalEngine, TLAPS

StageSets == Busy = {"checking", "loading", "saving", "rereading", "auditing", "recording",
    "inserting", "pausing", "issueRead", "issueRevoke", "issueWrite", "opening", "tokenRead",
    "consumeRead", "consumeWrite", "resuming", "revokeRead", "revokeWrite"}

(* The stages, one by one. *)
LEMMA BusyStages == StageSets
BY DEF StageSets, Busy, ResolveStages, PauseStages, ReplyStages, RevokeStages

(* The operations on tokens. *)
LEMMA TokenFacts ==
    /\ NoToken \in Tokens /\ NoToken.serial = 0
    /\ \A t \in Tokens : t.serial \in Nat
    /\ \A t \in Tokens : Consumed(t) \in Tokens /\ Consumed(t).consumed /\ Consumed(t).serial = t.serial
    /\ \A t \in Tokens : Revoked(t) \in Tokens /\ Revoked(t).revoked /\ Revoked(t).serial = t.serial
    /\ \A n \in Nat : Fresh(n) \in Tokens /\ Fresh(n).serial = n
    /\ \A n \in Nat : ~Fresh(n).consumed /\ ~Fresh(n).revoked
BY DEF NoToken, Tokens, Consumed, Revoked, Fresh

LEMMA PutType == ASSUME TypeOK, NEW t \in Tokens, Put(t)
                 PROVE  store' \in Tokens /\ killed' \subseteq Nat
<1>1. t.serial \in Nat
  BY TokenFacts
<1> QED
  BY <1>1 DEF Put, TypeOK

(* The types hold at the beginning ... *)
LEMMA TypeInit == Init => TypeOK
<1> SUFFICES ASSUME Init PROVE TypeOK
  OBVIOUS
<1>1. defied \in BOOLEAN /\ alone \in BOOLEAN
  BY DEF Init
<1>2. kind \in [Requests -> Kinds] /\ linked \in BOOLEAN
  BY RequestsAssumption DEF Init
<1>3. at \in [Requests -> Busy \cup {"idle", "closed"}]
  BY DEF Init
<1>4. store \in Tokens /\ held \in [Requests -> Tokens]
  BY TokenFacts DEF Init
<1> QED
  BY <1>1, <1>2, <1>3, <1>4, BoundsAssumption DEF Init, TypeOK

(* ... and after every step. *)
LEMMA TypeStep == TypeOK /\ [Next]_vars => TypeOK'
<1> SUFFICES ASSUME TypeOK, [Next]_vars PROVE TypeOK'
  OBVIOUS
<1> USE BusyStages, BoundsAssumption, TokenFacts, PutType
    DEF StageSets, TypeOK, row, tokens, local, job, hazards, Go, Close
<1>1. ASSUME NEW o \in Requests, Begin(o) PROVE TypeOK'
  <2>1. alone' \in BOOLEAN
    BY <1>1 DEF Begin
  <2>2. at' \in [Requests -> Busy \cup {"idle", "closed"}]
    BY <1>1 DEF Begin
  <2> QED
    BY <2>1, <2>2, <1>1 DEF Begin
<1>2. ASSUME NEW o \in Requests, CheckOperation(o) PROVE TypeOK'
  BY <1>2 DEF CheckOperation
<1>3. ASSUME NEW o \in Requests, Load(o) PROVE TypeOK'
  BY <1>3 DEF Load
<1>4. ASSUME NEW o \in Requests, Save(o) PROVE TypeOK'
  BY <1>4, SMTT(30) DEF Save, Written, Wish, Decisions
<1>5. ASSUME NEW o \in Requests, Reread(o) PROVE TypeOK'
  BY <1>5 DEF Reread
<1>6. ASSUME NEW o \in Requests, Audit(o) PROVE TypeOK'
  BY <1>6 DEF Audit, Entry, Wish, Decisions
<1>7. ASSUME NEW o \in Requests, RecordOperation(o) PROVE TypeOK'
  BY <1>7 DEF RecordOperation
<1>8. ASSUME NEW o \in Requests, RevokeRead(o) PROVE TypeOK'
  BY <1>8, SMTT(30) DEF RevokeRead, AfterRevoke
<1>9. ASSUME NEW o \in Requests, RevokeWrite(o) PROVE TypeOK'
  BY <1>9 DEF RevokeWrite, AfterRevoke
<1>10. ASSUME NEW o \in Requests, Insert(o) PROVE TypeOK'
  BY <1>10 DEF Insert
<1>11. ASSUME NEW o \in Requests, PersistWaiting(o) PROVE TypeOK'
  BY <1>11 DEF PersistWaiting
<1>12. ASSUME NEW o \in Requests, IssueRead(o) PROVE TypeOK'
  BY <1>12 DEF IssueRead
<1>13. ASSUME NEW o \in Requests, IssueRevoke(o) PROVE TypeOK'
  BY <1>13 DEF IssueRevoke
<1>14. ASSUME NEW o \in Requests, IssueWrite(o) PROVE TypeOK'
  BY <1>14 DEF IssueWrite
<1>15. ASSUME NEW o \in Requests, OpenState(o) PROVE TypeOK'
  BY <1>15 DEF OpenState
<1>16. ASSUME NEW o \in Requests, ReadToken(o) PROVE TypeOK'
  BY <1>16 DEF ReadToken, AfterToken
<1>17. ASSUME NEW o \in Requests, ConsumeRead(o) PROVE TypeOK'
  BY <1>17 DEF ConsumeRead
<1>18. ASSUME NEW o \in Requests, ConsumeWrite(o) PROVE TypeOK'
  BY <1>18 DEF ConsumeWrite, AfterToken
<1>19. ASSUME NEW o \in Requests, PersistResumed(o) PROVE TypeOK'
  BY <1>19 DEF PersistResumed
<1>20. ASSUME NEW o \in Requests, Raise(o) PROVE TypeOK'
  BY <1>20 DEF Raise
<1>21. ASSUME NEW o \in Requests, SaveUnheard(o) PROVE TypeOK'
  BY <1>21 DEF SaveUnheard, Written, Wish, Decisions
<1>22. ASSUME NEW o \in Requests, Swallow(o) PROVE TypeOK'
  BY <1>22 DEF Swallow, AfterRevoke, AfterToken
<1>23. CASE Crash
  BY <1>23 DEF Crash, Open
<1>24. CASE Midnight
  BY <1>24 DEF Midnight
<1>25. CASE UNCHANGED vars
  BY <1>25 DEF vars
<1> QED
  BY <1>1, <1>2, <1>3, <1>4, <1>5, <1>6, <1>7, <1>8, <1>9, <1>10, <1>11, <1>12, <1>13, <1>14, <1>15, <1>16, <1>17, <1>18, <1>19, <1>20, <1>21, <1>22, <1>23, <1>24, <1>25 DEF Next, Step, Resolve, Pause, Resume, Fail

(* Every counter, token and stage has its type in every run. *)
THEOREM ApprovalTypes == Spec => []TypeOK
BY TypeInit, TypeStep, PTL DEF Spec

-----------------------------------------------------------------------------
(* What the stage of a request says about it: whose stage it is, that a    *)
(* decision has a row, that only the first pause inserts it, and that      *)
(* nobody has been told anything before the end.                           *)
StageInv ==
    /\ \A o \in Requests :
        /\ at[o] \in ResolveStages => kind[o] \in Decisive /\ linked /\ status # "none"
        /\ at[o] \in PauseStages => kind[o] = "pause"
        /\ at[o] \in ReplyStages => kind[o] \in Replies
        /\ at[o] \in RevokeStages => kind[o] \in {"reject", "refusal"}
        /\ at[o] \in RevokeStages /\ kind[o] = "reject" => linked /\ status # "none"
        /\ at[o] = "inserting" => status = "none"
        /\ at[o] # "closed" => answer[o] = "none"
    /\ \A o, p \in Requests : {at[o], at[p]} \subseteq PauseStages => o = p

LEMMA StageInit == Init => StageInv
BY DEF Init, StageInv, ResolveStages, PauseStages, ReplyStages, RevokeStages

LEMMA StageStep == TypeOK /\ StageInv /\ [Next]_vars => StageInv'
<1> SUFFICES ASSUME TypeOK, StageInv, [Next]_vars PROVE StageInv'
  OBVIOUS
<1> USE BusyStages
    DEF StageSets, Put, TypeOK, StageInv, ResolveStages, PauseStages, ReplyStages, RevokeStages, Decisive, Replies,
        row, tokens, local, job, hazards, Go, Close
<1>1. ASSUME NEW o \in Requests, Begin(o) PROVE StageInv'
  BY <1>1 DEF Begin, Kinds, Open
<1>2. ASSUME NEW o \in Requests, CheckOperation(o) PROVE StageInv'
  BY <1>2 DEF CheckOperation
<1>3. ASSUME NEW o \in Requests, Load(o) PROVE StageInv'
  BY <1>3 DEF Load
<1>4. ASSUME NEW o \in Requests, Save(o) PROVE StageInv'
  BY <1>4 DEF Save, Written, Wish, Decisions
<1>5. ASSUME NEW o \in Requests, Reread(o) PROVE StageInv'
  BY <1>5 DEF Reread
<1>6. ASSUME NEW o \in Requests, Audit(o) PROVE StageInv'
  BY <1>6 DEF Audit, Entry, Wish, Decisions
<1>7. ASSUME NEW o \in Requests, RecordOperation(o) PROVE StageInv'
  BY <1>7 DEF RecordOperation
<1>8. ASSUME NEW o \in Requests, RevokeRead(o) PROVE StageInv'
  BY <1>8 DEF RevokeRead, AfterRevoke
<1>9. ASSUME NEW o \in Requests, RevokeWrite(o) PROVE StageInv'
  BY <1>9 DEF RevokeWrite, AfterRevoke
<1>10. ASSUME NEW o \in Requests, Insert(o) PROVE StageInv'
  BY <1>10 DEF Insert
<1>11. ASSUME NEW o \in Requests, PersistWaiting(o) PROVE StageInv'
  BY <1>11 DEF PersistWaiting
<1>12. ASSUME NEW o \in Requests, IssueRead(o) PROVE StageInv'
  BY <1>12 DEF IssueRead
<1>13. ASSUME NEW o \in Requests, IssueRevoke(o) PROVE StageInv'
  BY <1>13 DEF IssueRevoke
<1>14. ASSUME NEW o \in Requests, IssueWrite(o) PROVE StageInv'
  BY <1>14 DEF IssueWrite
<1>15. ASSUME NEW o \in Requests, OpenState(o) PROVE StageInv'
  BY <1>15 DEF OpenState
<1>16. ASSUME NEW o \in Requests, ReadToken(o) PROVE StageInv'
  BY <1>16 DEF ReadToken, AfterToken
<1>17. ASSUME NEW o \in Requests, ConsumeRead(o) PROVE StageInv'
  BY <1>17 DEF ConsumeRead
<1>18. ASSUME NEW o \in Requests, ConsumeWrite(o) PROVE StageInv'
  BY <1>18 DEF ConsumeWrite, AfterToken
<1>19. ASSUME NEW o \in Requests, PersistResumed(o) PROVE StageInv'
  BY <1>19 DEF PersistResumed
<1>20. ASSUME NEW o \in Requests, Raise(o) PROVE StageInv'
  BY <1>20 DEF Raise, Raising
<1>21. ASSUME NEW o \in Requests, SaveUnheard(o) PROVE StageInv'
  BY <1>21 DEF SaveUnheard, Written, Wish, Decisions
<1>22. ASSUME NEW o \in Requests, Swallow(o) PROVE StageInv'
  BY <1>22 DEF Swallow, AfterRevoke, AfterToken
<1>23. CASE Crash
  BY <1>23 DEF Crash, Open
<1>24. CASE Midnight
  BY <1>24 DEF Midnight
<1>25. CASE UNCHANGED vars
  BY <1>25 DEF vars
<1> QED
  BY <1>1, <1>2, <1>3, <1>4, <1>5, <1>6, <1>7, <1>8, <1>9, <1>10, <1>11, <1>12, <1>13, <1>14, <1>15, <1>16, <1>17, <1>18, <1>19, <1>20, <1>21, <1>22, <1>23, <1>24, <1>25 DEF Next, Step, Resolve, Pause, Resume, Fail

-----------------------------------------------------------------------------
(* The version counts the writes of the row; a decision has one author,    *)
(* and where a request stands tells whether it is the one.                 *)
Later == {"auditing", "recording"} \cup RevokeStages

RowInv ==
    /\ \/ status = "none" /\ version = 0
       \/ status = "pending" /\ version = 1
       \/ status \in Decisions /\ version = 2
    /\ author = Nobody <=> status \notin Decisions
    /\ author # Nobody =>
        /\ kind[author] \in Decisive /\ status = Wish(kind[author])
        /\ at[author] \in Later \cup {"closed"}
    /\ \A o \in Requests :
        /\ at[o] = "saving" => seen[o] = 1
        /\ at[o] \in Later /\ kind[o] # "refusal" => author = o
        /\ at[o] = "rereading" => author \notin {Nobody, o}

LEMMA RowInit == Init => RowInv
BY DEF Init, RowInv, Decisions, Later, RevokeStages

LEMMA RowStep == TypeOK /\ StageInv /\ RowInv /\ [Next]_vars => RowInv'
<1> SUFFICES ASSUME TypeOK, StageInv, RowInv, [Next]_vars PROVE RowInv'
  OBVIOUS
<1> USE BusyStages, RequestsAssumption
    DEF StageSets, Put, TypeOK, StageInv, RowInv, Decisions, Later, Wish, ResolveStages, PauseStages, ReplyStages,
        RevokeStages, Decisive, Replies, row, tokens, local, job, hazards, Go, Close
<1>1. ASSUME NEW o \in Requests, Begin(o) PROVE RowInv'
  BY <1>1 DEF Begin, Kinds, Open
<1>2. ASSUME NEW o \in Requests, CheckOperation(o) PROVE RowInv'
  BY <1>2 DEF CheckOperation
<1>3. ASSUME NEW o \in Requests, Load(o) PROVE RowInv'
  BY <1>3 DEF Load
<1>4. ASSUME NEW o \in Requests, Save(o) PROVE RowInv'
  BY <1>4 DEF Save, Written
<1>5. ASSUME NEW o \in Requests, Reread(o) PROVE RowInv'
  BY <1>5 DEF Reread
<1>6. ASSUME NEW o \in Requests, Audit(o) PROVE RowInv'
  BY <1>6 DEF Audit
<1>7. ASSUME NEW o \in Requests, RecordOperation(o) PROVE RowInv'
  BY <1>7 DEF RecordOperation
<1>8. ASSUME NEW o \in Requests, RevokeRead(o) PROVE RowInv'
  BY <1>8 DEF RevokeRead, AfterRevoke
<1>9. ASSUME NEW o \in Requests, RevokeWrite(o) PROVE RowInv'
  BY <1>9 DEF RevokeWrite, AfterRevoke
<1>10. ASSUME NEW o \in Requests, Insert(o) PROVE RowInv'
  BY <1>10 DEF Insert
<1>11. ASSUME NEW o \in Requests, PersistWaiting(o) PROVE RowInv'
  BY <1>11 DEF PersistWaiting
<1>12. ASSUME NEW o \in Requests, IssueRead(o) PROVE RowInv'
  BY <1>12 DEF IssueRead
<1>13. ASSUME NEW o \in Requests, IssueRevoke(o) PROVE RowInv'
  BY <1>13 DEF IssueRevoke
<1>14. ASSUME NEW o \in Requests, IssueWrite(o) PROVE RowInv'
  BY <1>14 DEF IssueWrite
<1>15. ASSUME NEW o \in Requests, OpenState(o) PROVE RowInv'
  BY <1>15 DEF OpenState
<1>16. ASSUME NEW o \in Requests, ReadToken(o) PROVE RowInv'
  BY <1>16 DEF ReadToken, AfterToken
<1>17. ASSUME NEW o \in Requests, ConsumeRead(o) PROVE RowInv'
  BY <1>17 DEF ConsumeRead
<1>18. ASSUME NEW o \in Requests, ConsumeWrite(o) PROVE RowInv'
  BY <1>18 DEF ConsumeWrite, AfterToken
<1>19. ASSUME NEW o \in Requests, PersistResumed(o) PROVE RowInv'
  BY <1>19 DEF PersistResumed
<1>20. ASSUME NEW o \in Requests, Raise(o) PROVE RowInv'
  BY <1>20 DEF Raise, Raising
<1>21. ASSUME NEW o \in Requests, SaveUnheard(o) PROVE RowInv'
  BY <1>21 DEF SaveUnheard, Written
<1>22. ASSUME NEW o \in Requests, Swallow(o) PROVE RowInv'
  BY <1>22 DEF Swallow, AfterRevoke, AfterToken
<1>23. CASE Crash
  BY <1>23 DEF Crash, Open
<1>24. CASE Midnight
  BY <1>24 DEF Midnight
<1>25. CASE UNCHANGED vars
  BY <1>25 DEF vars
<1> QED
  BY <1>1, <1>2, <1>3, <1>4, <1>5, <1>6, <1>7, <1>8, <1>9, <1>10, <1>11, <1>12, <1>13, <1>14, <1>15, <1>16, <1>17, <1>18, <1>19, <1>20, <1>21, <1>22, <1>23, <1>24, <1>25 DEF Next, Step, Resolve, Pause, Resume, Fail
-----------------------------------------------------------------------------
(* The refinement: what is neither a decision nor an answer to one leaves  *)
(* the register alone.                                                     *)
LEMMA Silent ==
    ASSUME TypeOK, UNCHANGED <<kind, author, Taken>>,
           \A o \in Requests : kind[o] \in Decisive => answer'[o] = answer[o]
    PROVE  UNCHANGED Register!vars
BY DEF Register!vars, Wishes, Told, TypeOK

(* The answer of a decision is told to the register. *)
LEMMA Telling ==
    ASSUME TypeOK, StageInv, NEW o \in Requests, NEW text, at[o] # "closed", kind[o] \in Decisive,
           Close(o, text), UNCHANGED <<kind, author, Taken>>
    PROVE  Register!Tell(o, text)
BY DEF Register!Tell, Wishes, Told, TypeOK, StageInv, Close

LEMMA RegisterStep == TypeOK /\ StageInv /\ RowInv /\ [Next]_vars => [Register!Next]_Register!vars
<1> SUFFICES ASSUME TypeOK, StageInv, RowInv, [Next]_vars PROVE [Register!Next]_Register!vars
  OBVIOUS
<1> DEFINE Quiet == UNCHANGED <<kind, author, Taken>>
           Mute == \A o \in Requests : kind[o] \in Decisive => answer'[o] = answer[o]
<1>1. ASSUME NEW o \in Requests, Begin(o) PROVE [Register!Next]_Register!vars
  <2>1. Quiet /\ Mute
    BY <1>1 DEF Begin, Kinds, TypeOK, StageInv, ResolveStages, PauseStages, ReplyStages, Decisive, Replies, Taken, row, tokens, local, job, hazards, Go, Close
  <2> QED
    BY <2>1, Silent
<1>2. ASSUME NEW o \in Requests, CheckOperation(o) PROVE [Register!Next]_Register!vars
  <2>1. Quiet /\ Mute
    BY <1>2 DEF CheckOperation, TypeOK, StageInv, ResolveStages, PauseStages, ReplyStages, Decisive, Replies, Taken, row, tokens, local, job, hazards, Go, Close
  <2> QED
    BY <2>1, Silent
<1>3. ASSUME NEW o \in Requests, Audit(o) PROVE [Register!Next]_Register!vars
  <2>1. Quiet /\ Mute
    BY <1>3 DEF Audit, TypeOK, StageInv, ResolveStages, PauseStages, ReplyStages, Decisive, Replies, Taken, row, tokens, local, job, hazards, Go, Close
  <2> QED
    BY <2>1, Silent
<1>4. ASSUME NEW o \in Requests, Insert(o) PROVE [Register!Next]_Register!vars
  <2>1. Quiet /\ Mute
    BY <1>4 DEF Insert, TypeOK, StageInv, ResolveStages, PauseStages, ReplyStages, Decisive, Replies, Taken, row, tokens, local, job, hazards, Go, Close
  <2> QED
    BY <2>1, Silent
<1>5. ASSUME NEW o \in Requests, PersistWaiting(o) PROVE [Register!Next]_Register!vars
  <2>1. Quiet /\ Mute
    BY <1>5 DEF PersistWaiting, TypeOK, StageInv, ResolveStages, PauseStages, ReplyStages, Decisive, Replies, Taken, row, tokens, local, job, hazards, Go, Close
  <2> QED
    BY <2>1, Silent
<1>6. ASSUME NEW o \in Requests, IssueRead(o) PROVE [Register!Next]_Register!vars
  <2>1. Quiet /\ Mute
    BY <1>6 DEF IssueRead, TypeOK, StageInv, ResolveStages, PauseStages, ReplyStages, Decisive, Replies, Taken, row, tokens, local, job, hazards, Go, Close
  <2> QED
    BY <2>1, Silent
<1>7. ASSUME NEW o \in Requests, IssueRevoke(o) PROVE [Register!Next]_Register!vars
  <2>1. Quiet /\ Mute
    BY <1>7 DEF IssueRevoke, TypeOK, StageInv, ResolveStages, PauseStages, ReplyStages, Decisive, Replies, Taken, row, tokens, local, job, hazards, Go, Close
  <2> QED
    BY <2>1, Silent
<1>8. ASSUME NEW o \in Requests, IssueWrite(o) PROVE [Register!Next]_Register!vars
  <2>1. Quiet /\ Mute
    BY <1>8 DEF IssueWrite, TypeOK, StageInv, ResolveStages, PauseStages, ReplyStages, Decisive, Replies, Taken, row, tokens, local, job, hazards, Go, Close
  <2> QED
    BY <2>1, Silent
<1>9. ASSUME NEW o \in Requests, OpenState(o) PROVE [Register!Next]_Register!vars
  <2>1. Quiet /\ Mute
    BY <1>9 DEF OpenState, TypeOK, StageInv, ResolveStages, PauseStages, ReplyStages, Decisive, Replies, Taken, row, tokens, local, job, hazards, Go, Close
  <2> QED
    BY <2>1, Silent
<1>10. ASSUME NEW o \in Requests, ReadToken(o) PROVE [Register!Next]_Register!vars
  <2>1. Quiet /\ Mute
    BY <1>10 DEF ReadToken, AfterToken, TypeOK, StageInv, ResolveStages, PauseStages, ReplyStages, Decisive, Replies, Taken, row, tokens, local, job, hazards, Go, Close
  <2> QED
    BY <2>1, Silent
<1>11. ASSUME NEW o \in Requests, ConsumeRead(o) PROVE [Register!Next]_Register!vars
  <2>1. Quiet /\ Mute
    BY <1>11 DEF ConsumeRead, TypeOK, StageInv, ResolveStages, PauseStages, ReplyStages, Decisive, Replies, Taken, row, tokens, local, job, hazards, Go, Close
  <2> QED
    BY <2>1, Silent
<1>12. ASSUME NEW o \in Requests, ConsumeWrite(o) PROVE [Register!Next]_Register!vars
  <2>1. Quiet /\ Mute
    BY <1>12 DEF ConsumeWrite, AfterToken, TypeOK, StageInv, ResolveStages, PauseStages, ReplyStages, Decisive, Replies, Taken, row, tokens, local, job, hazards, Go, Close
  <2> QED
    BY <2>1, Silent
<1>13. ASSUME NEW o \in Requests, PersistResumed(o) PROVE [Register!Next]_Register!vars
  <2>1. Quiet /\ Mute
    BY <1>13 DEF PersistResumed, TypeOK, StageInv, ResolveStages, PauseStages, ReplyStages, Decisive, Replies, Taken, row, tokens, local, job, hazards, Go, Close
  <2> QED
    BY <2>1, Silent
<1>14. ASSUME NEW o \in Requests, Load(o) PROVE [Register!Next]_Register!vars
  <2>1. CASE status = "pending"
    <3>1. Quiet /\ Mute
      BY <1>14, <2>1 DEF Load, TypeOK, StageInv, ResolveStages, PauseStages, ReplyStages, Decisive, Replies, Taken, row, tokens, local, job, hazards, Go, Close
    <3> QED
      BY <3>1, Silent
  <2>2. CASE status # "pending"
    <3>1. Quiet /\ Close(o, "refused") /\ at[o] # "closed" /\ kind[o] \in Decisive
      BY <1>14, <2>2 DEF Load, TypeOK, StageInv, ResolveStages, Taken, row
    <3>2. Taken # Nobody /\ author # o
      BY <1>14, <2>2, RequestsAssumption DEF Load, Taken, TypeOK, StageInv, RowInv, ResolveStages, Decisions, Later, RevokeStages
    <3> QED
      BY <3>1, <3>2, Telling DEF Register!Next, Register!Refuse
  <2> QED
    BY <2>1, <2>2
<1>15. ASSUME NEW o \in Requests, Save(o) PROVE [Register!Next]_Register!vars
  <2>1. CASE version = seen[o]
    <3>1. status = "pending" /\ answer[o] = "none" /\ kind[o] \in Decisive
      BY <1>15, <2>1 DEF Save, TypeOK, StageInv, RowInv, ResolveStages
    <3>2. Taken = Nobody /\ Taken' = Wishes[o] /\ Wishes' = Wishes /\ Told' = Told /\ author' = o /\ Told[o] = "none"
      BY <1>15, <2>1, <3>1 DEF Save, Written, Go, Taken, Wishes, Told, Wish
    <3> QED
      BY <3>2 DEF Register!Next, Register!Decide
  <2>2. CASE version # seen[o]
    <3>1. Quiet /\ Mute
      BY <1>15, <2>2 DEF Save, TypeOK, StageInv, ResolveStages, PauseStages, ReplyStages, Decisive, Replies, Taken, row, tokens, local, job, hazards, Go, Close
    <3> QED
      BY <3>1, Silent
  <2> QED
    BY <2>1, <2>2
<1>16. ASSUME NEW o \in Requests, Reread(o) PROVE [Register!Next]_Register!vars
  <2>1. Quiet /\ Close(o, "refused") /\ at[o] # "closed" /\ kind[o] \in Decisive
    BY <1>16 DEF Reread, TypeOK, StageInv, ResolveStages, Taken, row
  <2>2. Taken # Nobody /\ author # o
    BY <1>16, RequestsAssumption DEF Reread, Taken, TypeOK, RowInv, Decisions
  <2> QED
    BY <2>1, <2>2, Telling DEF Register!Next, Register!Refuse
<1>17. ASSUME NEW o \in Requests, RecordOperation(o) PROVE [Register!Next]_Register!vars
  <2>1. CASE at'[o] = "closed"
    <3>1. Quiet /\ Close(o, "accepted") /\ at[o] # "closed" /\ kind[o] \in Decisive /\ author = o
      BY <1>17, <2>1 DEF RecordOperation, Go, Close, TypeOK, StageInv, RowInv, ResolveStages, RevokeStages, Later, Decisive, Taken, row
    <3> QED
      BY <3>1, Telling DEF Register!Next, Register!Accept
  <2>2. CASE at'[o] # "closed"
    <3>1. Quiet /\ Mute
      BY <1>17, <2>2 DEF RecordOperation, TypeOK, StageInv, ResolveStages, PauseStages, ReplyStages, Decisive, Replies, Taken, row, tokens, local, job, hazards, Go, Close
    <3> QED
      BY <3>1, Silent
  <2> QED
    BY <2>1, <2>2
<1>18. ASSUME NEW o \in Requests, RevokeRead(o) PROVE [Register!Next]_Register!vars
  <2>1. CASE at'[o] = "closed"
    <3>1. Quiet /\ Close(o, "accepted") /\ at[o] # "closed" /\ kind[o] \in Decisive /\ author = o
      BY <1>18, <2>1 DEF RevokeRead, AfterRevoke, Go, Close, TypeOK, StageInv, RowInv, ResolveStages, RevokeStages, Later, Decisive, Taken, row
    <3> QED
      BY <3>1, Telling DEF Register!Next, Register!Accept
  <2>2. CASE at'[o] # "closed"
    <3>1. Quiet /\ Mute
      BY <1>18, <2>2 DEF RevokeRead, AfterRevoke, TypeOK, StageInv, ResolveStages, PauseStages, ReplyStages, Decisive, Replies, Taken, row, tokens, local, job, hazards, Go, Close
    <3> QED
      BY <3>1, Silent
  <2> QED
    BY <2>1, <2>2
<1>19. ASSUME NEW o \in Requests, RevokeWrite(o) PROVE [Register!Next]_Register!vars
  <2>1. CASE at'[o] = "closed"
    <3>1. Quiet /\ Close(o, "accepted") /\ at[o] # "closed" /\ kind[o] \in Decisive /\ author = o
      BY <1>19, <2>1 DEF RevokeWrite, AfterRevoke, Go, Close, TypeOK, StageInv, RowInv, ResolveStages, RevokeStages, Later, Decisive, Taken, row
    <3> QED
      BY <3>1, Telling DEF Register!Next, Register!Accept
  <2>2. CASE at'[o] # "closed"
    <3>1. Quiet /\ Mute
      BY <1>19, <2>2 DEF RevokeWrite, AfterRevoke, TypeOK, StageInv, ResolveStages, PauseStages, ReplyStages, Decisive, Replies, Taken, row, tokens, local, job, hazards, Go, Close
    <3> QED
      BY <3>1, Silent
  <2> QED
    BY <2>1, <2>2
<1>20. ASSUME NEW o \in Requests, Raise(o) PROVE [Register!Next]_Register!vars
  <2>1. Quiet /\ Close(o, "unknown") /\ at[o] # "closed"
    BY <1>20, BusyStages DEF Raise, Raising, Taken, row, ResolveStages, PauseStages
  <2>2. CASE kind[o] \in Decisive
    BY <2>1, <2>2, Telling DEF Register!Next, Register!GiveUp
  <2>3. CASE kind[o] \notin Decisive
    BY <2>1, <2>3, Silent DEF Close, TypeOK
  <2> QED
    BY <2>2, <2>3
<1>21. ASSUME NEW o \in Requests, SaveUnheard(o) PROVE [Register!Next]_Register!vars
  <2>1. status = "pending" /\ answer[o] = "none" /\ kind[o] \in Decisive
    BY <1>21 DEF SaveUnheard, TypeOK, StageInv, RowInv, ResolveStages
  <2>2. Taken = Nobody /\ Taken' = Wishes[o] /\ Wishes' = Wishes /\ author' = o /\ Told[o] = "none"
    BY <1>21, <2>1 DEF SaveUnheard, Written, Taken, Wishes, Told, Wish
  <2>3. Told' = [Told EXCEPT ![o] = "unknown"]
    BY <1>21, <2>1 DEF SaveUnheard, Close, Told, TypeOK
  <2> QED
    BY <2>2, <2>3 DEF Register!Next, Register!DecideUntold
<1>22. ASSUME NEW o \in Requests, Swallow(o) PROVE [Register!Next]_Register!vars
  <2>1. CASE at[o] \in RevokeStages /\ kind[o] = "reject"
    <3>1. Quiet /\ Close(o, "accepted") /\ at[o] # "closed" /\ kind[o] \in Decisive /\ author = o
      BY <1>22, <2>1 DEF Swallow, AfterRevoke, RowInv, RevokeStages, Later, Decisive, Taken, row
    <3> QED
      BY <3>1, Telling DEF Register!Next, Register!Accept
  <2>2. CASE ~(at[o] \in RevokeStages /\ kind[o] = "reject")
    <3>1. Quiet /\ Mute
      BY <1>22, <2>2 DEF Swallow, AfterRevoke, AfterToken, RevokeStages, TypeOK, StageInv, ResolveStages, PauseStages, ReplyStages, Decisive, Replies, Taken, row, tokens, local, job, hazards, Go, Close
    <3> QED
      BY <3>1, Silent
  <2> QED
    BY <2>1, <2>2
<1>23. CASE Crash
  <2>1. Quiet /\ Wishes' = Wishes
    BY <1>23 DEF Crash, Taken, Wishes, row
  <2>2. \A o \in Requests : answer'[o] # answer[o] => answer[o] = "none" /\ answer'[o] = "unknown"
    BY <1>23, BusyStages DEF Crash, StageInv, Open, StageSets
  <2>3. Told' \in [Requests -> {"none", "accepted", "refused", "unknown"}]
    BY <1>23 DEF Crash, Told, TypeOK
  <2>4. \A o \in Requests : Told'[o] # Told[o] => Told[o] = "none" /\ Told'[o] = "unknown"
    BY <2>1, <2>2 DEF Told
  <2> QED
    BY <2>1, <2>3, <2>4 DEF Register!Next, Register!Forget
<1>24. CASE Midnight
  BY <1>24, Silent DEF Midnight, Taken, row, local
<1>25. CASE UNCHANGED vars
  BY <1>25, Silent DEF vars, Taken, row, local
<1> QED
  BY <1>1, <1>2, <1>3, <1>4, <1>5, <1>6, <1>7, <1>8, <1>9, <1>10, <1>11, <1>12, <1>13, <1>14, <1>15, <1>16, <1>17, <1>18, <1>19, <1>20, <1>21, <1>22, <1>23, <1>24, <1>25 DEF Next, Step, Resolve, Pause, Resume, Fail

(* However many requests decide, reply and pause at once, and whatever     *)
(* fails: the row takes one decision, the one whose request is told that   *)
(* it is accepted.                                                         *)
THEOREM OneDecisionIsTaken == Spec => RegisterSpec
<1>1. Init => Register!Init
  BY RequestsAssumption DEF Init, Register!Init, Taken, Told
<1> QED
  BY <1>1, TypeInit, TypeStep, StageInit, StageStep, RowInit, RowStep, RegisterStep, PTL
  DEF Spec, RegisterSpec, Register!Spec

-----------------------------------------------------------------------------
LEMMA AuditInit == Init => AuditFollowsRow
BY DEF Init, AuditFollowsRow

LEMMA AuditStep == TypeOK /\ StageInv /\ RowInv /\ AuditFollowsRow /\ [Next]_vars => AuditFollowsRow'
<1> SUFFICES ASSUME TypeOK, StageInv, RowInv, AuditFollowsRow, [Next]_vars PROVE AuditFollowsRow'
  OBVIOUS
<1> USE BusyStages, RequestsAssumption
    DEF TypeOK, RowInv, AuditFollowsRow, Decisions, Later, row, tokens, local, job, hazards, Go, Close
<1>1. ASSUME NEW o \in Requests, Begin(o) PROVE AuditFollowsRow'
  BY <1>1 DEF Begin
<1>2. ASSUME NEW o \in Requests, CheckOperation(o) PROVE AuditFollowsRow'
  BY <1>2 DEF CheckOperation
<1>3. ASSUME NEW o \in Requests, Load(o) PROVE AuditFollowsRow'
  BY <1>3 DEF Load
<1>4. ASSUME NEW o \in Requests, Save(o) PROVE AuditFollowsRow'
  BY <1>4 DEF Save, Written
<1>5. ASSUME NEW o \in Requests, Reread(o) PROVE AuditFollowsRow'
  BY <1>5 DEF Reread
<1>6. ASSUME NEW o \in Requests, Audit(o) PROVE AuditFollowsRow'
  <2>1. audit' = audit \cup {Entry(kind[o])} /\ status' = status
    BY <1>6 DEF Audit
  <2>2. kind[o] \in Decisive /\ author = o
    BY <1>6 DEF Audit, StageInv, ResolveStages, Decisive
  <2>3. status = Wish(kind[o])
    BY <2>2
  <2>4. Entry(kind[o]).decision = status
    BY <2>3 DEF Entry
  <2>5. Entry(kind[o]).event = IF status = "skipped" THEN "rejected" ELSE status
    BY <2>2, <2>3 DEF Entry, Wish, Decisive
  <2> QED
    BY <2>1, <2>4, <2>5
<1>7. ASSUME NEW o \in Requests, RecordOperation(o) PROVE AuditFollowsRow'
  BY <1>7 DEF RecordOperation
<1>8. ASSUME NEW o \in Requests, RevokeRead(o) PROVE AuditFollowsRow'
  BY <1>8 DEF RevokeRead, AfterRevoke
<1>9. ASSUME NEW o \in Requests, RevokeWrite(o) PROVE AuditFollowsRow'
  BY <1>9 DEF RevokeWrite, AfterRevoke
<1>10. ASSUME NEW o \in Requests, Insert(o) PROVE AuditFollowsRow'
  BY <1>10 DEF Insert, StageInv
<1>11. ASSUME NEW o \in Requests, PersistWaiting(o) PROVE AuditFollowsRow'
  BY <1>11 DEF PersistWaiting
<1>12. ASSUME NEW o \in Requests, IssueRead(o) PROVE AuditFollowsRow'
  BY <1>12 DEF IssueRead
<1>13. ASSUME NEW o \in Requests, IssueRevoke(o) PROVE AuditFollowsRow'
  BY <1>13 DEF IssueRevoke
<1>14. ASSUME NEW o \in Requests, IssueWrite(o) PROVE AuditFollowsRow'
  BY <1>14 DEF IssueWrite
<1>15. ASSUME NEW o \in Requests, OpenState(o) PROVE AuditFollowsRow'
  BY <1>15 DEF OpenState
<1>16. ASSUME NEW o \in Requests, ReadToken(o) PROVE AuditFollowsRow'
  BY <1>16 DEF ReadToken, AfterToken
<1>17. ASSUME NEW o \in Requests, ConsumeRead(o) PROVE AuditFollowsRow'
  BY <1>17 DEF ConsumeRead
<1>18. ASSUME NEW o \in Requests, ConsumeWrite(o) PROVE AuditFollowsRow'
  BY <1>18 DEF ConsumeWrite, AfterToken
<1>19. ASSUME NEW o \in Requests, PersistResumed(o) PROVE AuditFollowsRow'
  BY <1>19 DEF PersistResumed
<1>20. ASSUME NEW o \in Requests, Raise(o) PROVE AuditFollowsRow'
  BY <1>20 DEF Raise
<1>21. ASSUME NEW o \in Requests, SaveUnheard(o) PROVE AuditFollowsRow'
  BY <1>21 DEF SaveUnheard, Written
<1>22. ASSUME NEW o \in Requests, Swallow(o) PROVE AuditFollowsRow'
  BY <1>22 DEF Swallow, AfterRevoke, AfterToken
<1>23. CASE Crash
  BY <1>23 DEF Crash
<1>24. CASE Midnight
  BY <1>24 DEF Midnight
<1>25. CASE UNCHANGED vars
  BY <1>25 DEF vars
<1> QED
  BY <1>1, <1>2, <1>3, <1>4, <1>5, <1>6, <1>7, <1>8, <1>9, <1>10, <1>11, <1>12, <1>13, <1>14, <1>15, <1>16, <1>17, <1>18, <1>19, <1>20, <1>21, <1>22, <1>23, <1>24, <1>25 DEF Next, Step, Resolve, Pause, Resume, Fail

(* approval_audit holds no decision but the row's, and its event is the    *)
(* row's too unless the approval was skipped, which it calls "rejected".   *)
THEOREM AuditTellsOfTheRow == Spec => []AuditFollowsRow
BY TypeInit, TypeStep, StageInit, StageStep, RowInit, RowStep, AuditInit, AuditStep, PTL DEF Spec

-----------------------------------------------------------------------------
(* Serial numbers grow: what is stored, held, killed, expired or barred    *)
(* was made before.                                                        *)
TokenInv ==
    /\ KilledStaysKilled
    /\ killed \subseteq 0..issued
    /\ Unspent(store) => store.serial \in 1..issued
    /\ store.serial <= issued /\ barred <= issued /\ expired <= issued
    /\ \A o \in Requests : held[o].serial <= issued

LEMMA TokenInit == Init => TokenInv
BY TokenFacts DEF Init, TokenInv, KilledStaysKilled, Unspent

(* A write of a token that is consumed or revoked, or of a fresh one. *)
LEMMA PutDead == ASSUME TypeOK, TokenInv, NEW t \in Tokens, Put(t), t.consumed \/ t.revoked,
                        t.serial <= issued, issued' = issued
                 PROVE  /\ KilledStaysKilled' /\ (killed \subseteq 0..issued)' /\ (store.serial <= issued)'
                        /\ (Unspent(store) => store.serial \in 1..issued)'
<1>1. t.serial \in 0..issued
  BY TokenFacts DEF TypeOK
<1> QED
  BY <1>1 DEF Put, TokenInv, KilledStaysKilled, Unspent, TypeOK

LEMMA PutFresh == ASSUME TypeOK, TokenInv, Put(Fresh(issued + 1)), issued' = issued + 1
                  PROVE  /\ KilledStaysKilled' /\ (killed \subseteq 0..issued)' /\ (store.serial <= issued)'
                         /\ (Unspent(store) => store.serial \in 1..issued)'
<1> DEFINE t == Fresh(issued + 1)
<1>1. t.serial = issued + 1 /\ ~t.consumed /\ ~t.revoked
  BY TokenFacts DEF TypeOK
<1>2. killed' = killed /\ store' \in {t, store}
  BY <1>1 DEF Put
<1>3. killed \subseteq 0..issued /\ store.serial \in Nat /\ issued \in Nat
  BY TokenFacts DEF TokenInv, TypeOK
<1>4. CASE store' = t
  BY <1>1, <1>2, <1>3, <1>4 DEF KilledStaysKilled, Unspent
<1>5. CASE store' = store
  BY <1>2, <1>3, <1>5 DEF TokenInv, KilledStaysKilled, Unspent
<1> QED
  BY <1>2, <1>4, <1>5

LEMMA TokenStep == TypeOK /\ TokenInv /\ [Next]_vars => TokenInv'
<1> SUFFICES ASSUME TypeOK, TokenInv, [Next]_vars PROVE TokenInv'
  OBVIOUS
<1>1. ASSUME NEW o \in Requests, Begin(o) PROVE TokenInv'
  BY <1>1 DEF Begin, TypeOK, TokenInv, KilledStaysKilled, row, tokens, local, hazards
<1>2. ASSUME NEW o \in Requests, CheckOperation(o) PROVE TokenInv'
  BY <1>2 DEF CheckOperation, TypeOK, TokenInv, KilledStaysKilled, row, tokens, local, hazards
<1>3. ASSUME NEW o \in Requests, Load(o) PROVE TokenInv'
  BY <1>3 DEF Load, TypeOK, TokenInv, KilledStaysKilled, row, tokens, local, hazards
<1>4. ASSUME NEW o \in Requests, Save(o) PROVE TokenInv'
  BY <1>4 DEF Save, Written, TypeOK, TokenInv, KilledStaysKilled, row, tokens
<1>5. ASSUME NEW o \in Requests, Reread(o) PROVE TokenInv'
  BY <1>5 DEF Reread, TypeOK, TokenInv, KilledStaysKilled, row, tokens, local, hazards
<1>6. ASSUME NEW o \in Requests, Audit(o) PROVE TokenInv'
  BY <1>6 DEF Audit, TypeOK, TokenInv, KilledStaysKilled, row, tokens, local, hazards
<1>7. ASSUME NEW o \in Requests, RecordOperation(o) PROVE TokenInv'
  BY <1>7 DEF RecordOperation, TypeOK, TokenInv, KilledStaysKilled, row, tokens, local, hazards
<1>8. ASSUME NEW o \in Requests, RevokeRead(o) PROVE TokenInv'
  BY <1>8 DEF RevokeRead, AfterRevoke, TypeOK, TokenInv, KilledStaysKilled, row, tokens, local, hazards
<1>9. ASSUME NEW o \in Requests, RevokeWrite(o) PROVE TokenInv'
  <2>1. Revoked(held[o]) \in Tokens /\ Revoked(held[o]).serial <= issued /\ (Revoked(held[o]).consumed \/ Revoked(held[o]).revoked)
    BY TokenFacts DEF TypeOK, TokenInv
  <2> QED
    BY <1>9, <2>1, PutDead DEF RevokeWrite, TokenInv, TypeOK, row, local
<1>10. ASSUME NEW o \in Requests, Insert(o) PROVE TokenInv'
  BY <1>10 DEF Insert, TypeOK, TokenInv, KilledStaysKilled, row, tokens, local, hazards
<1>11. ASSUME NEW o \in Requests, PersistWaiting(o) PROVE TokenInv'
  BY <1>11 DEF PersistWaiting, TypeOK, TokenInv, KilledStaysKilled, row, tokens, local, hazards
<1>12. ASSUME NEW o \in Requests, IssueRead(o) PROVE TokenInv'
  BY <1>12 DEF IssueRead, TypeOK, TokenInv, KilledStaysKilled, row, tokens, local, hazards
<1>13. ASSUME NEW o \in Requests, IssueRevoke(o) PROVE TokenInv'
  <2>1. Revoked(held[o]) \in Tokens /\ Revoked(held[o]).serial <= issued /\ (Revoked(held[o]).consumed \/ Revoked(held[o]).revoked)
    BY TokenFacts DEF TypeOK, TokenInv
  <2> QED
    BY <1>13, <2>1, PutDead DEF IssueRevoke, TokenInv, TypeOK, row, local
<1>14. ASSUME NEW o \in Requests, IssueWrite(o) PROVE TokenInv'
  <2>1. \A o_1 \in Requests : held[o_1].serial \in Nat
    BY TokenFacts DEF TypeOK
  <2> QED
    BY <1>14, <2>1, PutFresh DEF IssueWrite, TokenInv, TypeOK, row
<1>15. ASSUME NEW o \in Requests, OpenState(o) PROVE TokenInv'
  BY <1>15 DEF OpenState, TypeOK, TokenInv, KilledStaysKilled, row, tokens, local, hazards
<1>16. ASSUME NEW o \in Requests, ReadToken(o) PROVE TokenInv'
  BY <1>16 DEF ReadToken, AfterToken, TypeOK, TokenInv, KilledStaysKilled, row, tokens, local, hazards
<1>17. ASSUME NEW o \in Requests, ConsumeRead(o) PROVE TokenInv'
  BY <1>17 DEF ConsumeRead, TypeOK, TokenInv, KilledStaysKilled, row, tokens, local, hazards
<1>18. ASSUME NEW o \in Requests, ConsumeWrite(o) PROVE TokenInv'
  <2>1. Consumed(held[o]) \in Tokens /\ Consumed(held[o]).serial <= issued /\ (Consumed(held[o]).consumed \/ Consumed(held[o]).revoked)
    BY TokenFacts DEF TypeOK, TokenInv
  <2> QED
    BY <1>18, <2>1, PutDead DEF ConsumeWrite, TokenInv, TypeOK, row, local
<1>19. ASSUME NEW o \in Requests, PersistResumed(o) PROVE TokenInv'
  BY <1>19 DEF PersistResumed, TypeOK, TokenInv, KilledStaysKilled, row, tokens, local, hazards
<1>20. ASSUME NEW o \in Requests, Raise(o) PROVE TokenInv'
  BY <1>20 DEF Raise, TypeOK, TokenInv, KilledStaysKilled, row, tokens, local, hazards
<1>21. ASSUME NEW o \in Requests, SaveUnheard(o) PROVE TokenInv'
  BY <1>21 DEF SaveUnheard, Written, TypeOK, TokenInv, KilledStaysKilled, tokens
<1>22. ASSUME NEW o \in Requests, Swallow(o) PROVE TokenInv'
  BY <1>22 DEF Swallow, AfterRevoke, AfterToken, TypeOK, TokenInv, KilledStaysKilled, row, tokens, local, hazards
<1>23. CASE Crash
  BY <1>23 DEF Crash, TokenInv, KilledStaysKilled, row, tokens
<1>24. CASE Midnight
  BY <1>24 DEF Midnight, TokenInv, KilledStaysKilled, TypeOK, row, tokens, local
<1>25. CASE UNCHANGED vars
  BY <1>25 DEF vars, TokenInv, KilledStaysKilled, row, tokens, local
<1> QED
  BY <1>1, <1>2, <1>3, <1>4, <1>5, <1>6, <1>7, <1>8, <1>9, <1>10, <1>11, <1>12, <1>13, <1>14, <1>15, <1>16, <1>17, <1>18, <1>19, <1>20, <1>21, <1>22, <1>23, <1>24, <1>25 DEF Next, Step, Resolve, Pause, Resume, Fail

(* Once a token has been stored as consumed or revoked, no write of a      *)
(* request that read the column before makes it good again.                *)
THEOREM TokensDieOnce == Spec => []KilledStaysKilled
<1>1. TokenInv => KilledStaysKilled
  BY DEF TokenInv
<1> QED
  BY <1>1, TypeInit, TypeStep, TokenInit, TokenStep, PTL DEF Spec

-----------------------------------------------------------------------------
(* As long as requests do not overlap there is one open request at most,   *)
(* a reply that has passed the first check finds the job still waiting,    *)
(* and a job that waits has a pause nobody has answered.                   *)
Passed(o) ==
    \/ at[o] \in {"tokenRead", "consumeRead", "consumeWrite", "resuming"}
    \/ at[o] \in RevokeStages /\ kind[o] = "refusal"

AloneInv ==
    alone =>
        /\ \A o, p \in Requests : {at[o], at[p]} \subseteq Busy => o = p
        /\ resumes <= pauses
        /\ waiting = "waiting" => resumes < pauses
        /\ \A o \in Requests : Passed(o) => waiting = "waiting"

LEMMA AloneInit == Init => AloneInv
BY BusyStages DEF Init, AloneInv, Passed, RevokeStages, StageSets

LEMMA AloneStep == TypeOK /\ StageInv /\ AloneInv /\ [Next]_vars => AloneInv'
<1> SUFFICES ASSUME TypeOK, StageInv, AloneInv, [Next]_vars PROVE AloneInv'
  OBVIOUS
<1> USE BusyStages
    DEF StageSets, TypeOK, StageInv, AloneInv, Passed, ResolveStages, PauseStages, ReplyStages, RevokeStages,
        Decisive, Replies, row, tokens, local, job, hazards, Go, Close
<1>1. ASSUME NEW o \in Requests, Begin(o) PROVE AloneInv'
  <2> SUFFICES ASSUME alone' PROVE AloneInv'
    BY DEF AloneInv
  <2>1. alone /\ \A p \in Requests : at[p] \notin Busy
    BY <1>1 DEF Begin, Open
  <2>2. /\ \A p \in Requests : p # o => at'[p] = at[p]
        /\ at'[o] \in {"inserting", "pausing", "checking", "opening"}
    BY <1>1 DEF Begin
  <2>3. \A p, q \in Requests : {at'[p], at'[q]} \subseteq Busy => p = q
    BY <2>1, <2>2
  <2>4. \A p \in Requests : ~Passed(p)'
    BY <1>1, <2>1, <2>2 DEF Passed
  <2> QED
    BY <1>1, <2>1, <2>3, <2>4 DEF Begin, AloneInv
<1>2. ASSUME NEW o \in Requests, CheckOperation(o) PROVE AloneInv'
  BY <1>2 DEF CheckOperation
<1>3. ASSUME NEW o \in Requests, Load(o) PROVE AloneInv'
  BY <1>3 DEF Load
<1>4. ASSUME NEW o \in Requests, Save(o) PROVE AloneInv'
  BY <1>4 DEF Save, Written
<1>5. ASSUME NEW o \in Requests, Reread(o) PROVE AloneInv'
  BY <1>5 DEF Reread
<1>6. ASSUME NEW o \in Requests, Audit(o) PROVE AloneInv'
  BY <1>6 DEF Audit
<1>7. ASSUME NEW o \in Requests, RecordOperation(o) PROVE AloneInv'
  BY <1>7 DEF RecordOperation
<1>8. ASSUME NEW o \in Requests, RevokeRead(o) PROVE AloneInv'
  BY <1>8 DEF RevokeRead, AfterRevoke
<1>9. ASSUME NEW o \in Requests, RevokeWrite(o) PROVE AloneInv'
  BY <1>9 DEF RevokeWrite, AfterRevoke
<1>10. ASSUME NEW o \in Requests, Insert(o) PROVE AloneInv'
  BY <1>10 DEF Insert
<1>11. ASSUME NEW o \in Requests, PersistWaiting(o) PROVE AloneInv'
  BY <1>11 DEF PersistWaiting
<1>12. ASSUME NEW o \in Requests, IssueRead(o) PROVE AloneInv'
  BY <1>12 DEF IssueRead
<1>13. ASSUME NEW o \in Requests, IssueRevoke(o) PROVE AloneInv'
  BY <1>13 DEF IssueRevoke
<1>14. ASSUME NEW o \in Requests, IssueWrite(o) PROVE AloneInv'
  BY <1>14 DEF IssueWrite
<1>15. ASSUME NEW o \in Requests, OpenState(o) PROVE AloneInv'
  BY <1>15 DEF OpenState
<1>16. ASSUME NEW o \in Requests, ReadToken(o) PROVE AloneInv'
  BY <1>16 DEF ReadToken, AfterToken
<1>17. ASSUME NEW o \in Requests, ConsumeRead(o) PROVE AloneInv'
  BY <1>17 DEF ConsumeRead
<1>18. ASSUME NEW o \in Requests, ConsumeWrite(o) PROVE AloneInv'
  BY <1>18 DEF ConsumeWrite, AfterToken
<1>19. ASSUME NEW o \in Requests, PersistResumed(o) PROVE AloneInv'
  BY <1>19 DEF PersistResumed
<1>20. ASSUME NEW o \in Requests, Raise(o) PROVE AloneInv'
  BY <1>20 DEF Raise, Raising
<1>21. ASSUME NEW o \in Requests, SaveUnheard(o) PROVE AloneInv'
  BY <1>21 DEF SaveUnheard, Written
<1>22. ASSUME NEW o \in Requests, Swallow(o) PROVE AloneInv'
  BY <1>22 DEF Swallow, AfterRevoke, AfterToken
<1>23. CASE Crash
  BY <1>23 DEF Crash, Open
<1>24. CASE Midnight
  BY <1>24 DEF Midnight
<1>25. CASE UNCHANGED vars
  BY <1>25 DEF vars
<1> QED
  BY <1>1, <1>2, <1>3, <1>4, <1>5, <1>6, <1>7, <1>8, <1>9, <1>10, <1>11, <1>12, <1>13, <1>14, <1>15, <1>16, <1>17, <1>18, <1>19, <1>20, <1>21, <1>22, <1>23, <1>24, <1>25 DEF Next, Step, Resolve, Pause, Resume, Fail

(* InteractiveWaitEngine.resume lets a job go once for every pause, with   *)
(* or without a token, as long as its requests do not overlap.             *)
THEOREM LetGoOnce == Spec => []OnceWhenAlone
<1>1. AloneInv => OnceWhenAlone
  BY DEF AloneInv, OnceWhenAlone
<1> QED
  BY <1>1, TypeInit, TypeStep, StageInit, StageStep, AloneInit, AloneStep, PTL DEF Spec

-----------------------------------------------------------------------------
(* A good token from before the rejection is there only while the          *)
(* rejection is still at work, and nobody else is then.                    *)
Rejecting(o) == kind[o] = "reject" /\ at[o] \in Later

BarInv ==
    alone /\ faults = 0 /\ crashes = 0 =>
        /\ ~defied
        /\ Unspent(store) /\ store.serial <= barred => \E o \in Requests : Rejecting(o)
        /\ \A o \in Requests : at[o] = "revokeWrite" => held[o] = store

LEMMA BarInit == Init => BarInv
BY DEF Init, BarInv, Unspent

(* What a write leaves in the column. *)
LEMMA PutSpent == ASSUME NEW t \in Tokens, Put(t), t.consumed \/ t.revoked
                  PROVE  store' = store \/ ~Unspent(store')
BY DEF Put, Unspent

LEMMA BarStep == TypeOK /\ StageInv /\ RowInv /\ TokenInv /\ AloneInv /\ BarInv /\ [Next]_vars => BarInv'
<1> SUFFICES ASSUME TypeOK, StageInv, RowInv, TokenInv, AloneInv, BarInv, [Next]_vars PROVE BarInv'
  OBVIOUS
<1> USE BusyStages
    DEF StageSets, TypeOK, StageInv, TokenInv, AloneInv, BarInv, Rejecting, Later, ResolveStages, PauseStages, ReplyStages,
        RevokeStages, Decisive, Replies, row, tokens, local, job, hazards, Go, Close
<1>1. ASSUME NEW o \in Requests, Begin(o) PROVE BarInv'
  BY <1>1 DEF Begin, Open, Kinds
<1>2. ASSUME NEW o \in Requests, CheckOperation(o) PROVE BarInv'
  BY <1>2 DEF CheckOperation
<1>3. ASSUME NEW o \in Requests, Load(o) PROVE BarInv'
  BY <1>3 DEF Load
<1>4. ASSUME NEW o \in Requests, Save(o) PROVE BarInv'
  BY <1>4 DEF Save, Written
<1>5. ASSUME NEW o \in Requests, Reread(o) PROVE BarInv'
  BY <1>5 DEF Reread
<1>6. ASSUME NEW o \in Requests, Audit(o) PROVE BarInv'
  BY <1>6 DEF Audit
<1>7. ASSUME NEW o \in Requests, RecordOperation(o) PROVE BarInv'
  BY <1>7 DEF RecordOperation
<1>8. ASSUME NEW o \in Requests, RevokeRead(o) PROVE BarInv'
  <2> SUFFICES ASSUME alone', faults' = 0, crashes' = 0 PROVE BarInv'
    BY DEF BarInv
  <2>1. alone /\ faults = 0 /\ crashes = 0 /\ at[o] \in Busy /\ \A p \in Requests : at[p] \in Busy => p = o
    BY <1>8 DEF RevokeRead, AloneInv, hazards
  <2>2. \A p \in Requests : p # o => ~Rejecting(p) /\ at[p] # "revokeWrite" /\ at'[p] = at[p]
    BY <1>8, <2>1 DEF RevokeRead, Rejecting, Later, RevokeStages, AfterRevoke, AfterToken
  <2>3. ~defied' /\ store' = store /\ barred' = barred /\ kind' = kind /\ held'[o] = store
    BY <1>8, <2>1 DEF RevokeRead, BarInv, row, tokens, TypeOK
  <2>4. \A p \in Requests : at'[p] = "revokeWrite" => held'[p] = store'
    BY <2>2, <2>3
  <2>5. Unspent(store) /\ store.serial <= barred => Rejecting(o)' 
    BY <1>8, <2>1, <2>2 DEF RevokeRead, BarInv, Rejecting, Later, RevokeStages, Unspent, AfterRevoke
  <2> QED
    BY <2>3, <2>4, <2>5 DEF BarInv, Unspent
<1>9. ASSUME NEW o \in Requests, RevokeWrite(o) PROVE BarInv'
  <2> SUFFICES ASSUME alone', faults' = 0, crashes' = 0 PROVE BarInv'
    BY DEF BarInv
  <2>1. alone /\ faults = 0 /\ crashes = 0 /\ at[o] \in Busy /\ \A p \in Requests : at[p] \in Busy => p = o
    BY <1>9 DEF RevokeWrite, AloneInv, hazards
  <2>2. \A p \in Requests : p # o => ~Rejecting(p) /\ at[p] # "revokeWrite" /\ at'[p] = at[p]
    BY <1>9, <2>1 DEF RevokeWrite, Rejecting, Later, RevokeStages, AfterRevoke, AfterToken
  <2>3. Revoked(held[o]) \in Tokens /\ (Revoked(held[o]).consumed \/ Revoked(held[o]).revoked)
    BY TokenFacts DEF TypeOK
  <2>4. store' = store \/ ~Unspent(store')
    BY <1>9, <2>3, PutSpent DEF RevokeWrite
  <2>5. ~defied' /\ barred' = barred /\ held' = held /\ kind' = kind
    BY <1>9, <2>1 DEF RevokeWrite, BarInv, row
  <2>6. \A p \in Requests : at'[p] # "revokeWrite"
    BY <1>9, <2>2 DEF RevokeWrite, AfterRevoke, AfterToken
  <2>7. Unspent(store)' => ~(store.serial <= barred)
    <3>1. CASE kind[o] = "reject"
      <4>1. linked /\ status # "none" /\ Put(Revoked(held[o]))
        BY <1>9, <3>1 DEF RevokeWrite, StageInv, RevokeStages
      <4> QED
        BY <2>3, <4>1 DEF Put, Unspent, Revoked
    <3>2. CASE kind[o] # "reject"
      <4>1. ASSUME Unspent(store) PROVE ~(store.serial <= barred)
        BY <2>1, <2>2, <3>2, <4>1 DEF BarInv, Rejecting
      <4> QED
        BY <2>4, <4>1 DEF Unspent
    <3> QED
      BY <3>1, <3>2
  <2> QED
    BY <2>4, <2>5, <2>6, <2>7 DEF BarInv, Unspent
<1>10. ASSUME NEW o \in Requests, Insert(o) PROVE BarInv'
  BY <1>10 DEF Insert
<1>11. ASSUME NEW o \in Requests, PersistWaiting(o) PROVE BarInv'
  BY <1>11 DEF PersistWaiting
<1>12. ASSUME NEW o \in Requests, IssueRead(o) PROVE BarInv'
  BY <1>12 DEF IssueRead
<1>13. ASSUME NEW o \in Requests, IssueRevoke(o) PROVE BarInv'
  <2> SUFFICES ASSUME alone', faults' = 0, crashes' = 0 PROVE BarInv'
    BY DEF BarInv
  <2>1. alone /\ faults = 0 /\ crashes = 0 /\ at[o] \in Busy /\ \A p \in Requests : at[p] \in Busy => p = o
    BY <1>13 DEF IssueRevoke, AloneInv, hazards
  <2>2. \A p \in Requests : p # o => ~Rejecting(p) /\ at[p] # "revokeWrite" /\ at'[p] = at[p]
    BY <1>13, <2>1 DEF IssueRevoke, Rejecting, Later, RevokeStages, AfterRevoke, AfterToken
  <2>3. Revoked(held[o]) \in Tokens /\ (Revoked(held[o]).consumed \/ Revoked(held[o]).revoked)
    BY TokenFacts DEF TypeOK
  <2>4. store' = store \/ ~Unspent(store')
    BY <1>13, <2>3, PutSpent DEF IssueRevoke
  <2>5. ~defied' /\ barred' = barred /\ held' = held /\ kind' = kind
    BY <1>13, <2>1 DEF IssueRevoke, BarInv, row
  <2>6. \A p \in Requests : at'[p] # "revokeWrite"
    BY <1>13, <2>2 DEF IssueRevoke, AfterRevoke, AfterToken
  <2>7. Unspent(store)' => ~(store.serial <= barred)
    <3>1. ASSUME Unspent(store) PROVE ~(store.serial <= barred)
      BY <1>13, <2>1, <2>2, <3>1 DEF IssueRevoke, BarInv, Rejecting, Later, RevokeStages
    <3> QED
      BY <2>4, <3>1 DEF Unspent
  <2> QED
    BY <2>4, <2>5, <2>6, <2>7 DEF BarInv, Unspent
<1>14. ASSUME NEW o \in Requests, IssueWrite(o) PROVE BarInv'
  <2> SUFFICES ASSUME alone', faults' = 0, crashes' = 0 PROVE BarInv'
    BY DEF BarInv
  <2>1. alone /\ faults = 0 /\ crashes = 0 /\ at[o] \in Busy /\ \A p \in Requests : at[p] \in Busy => p = o
    BY <1>14 DEF IssueWrite, AloneInv, hazards
  <2>2. \A p \in Requests : p # o => ~Rejecting(p) /\ at[p] # "revokeWrite" /\ at'[p] = at[p]
    BY <1>14, <2>1 DEF IssueWrite, Rejecting, Later, RevokeStages, AfterRevoke, AfterToken
  <2>3. Fresh(issued + 1).serial = issued + 1
    BY TokenFacts DEF TypeOK
  <2>4. store' = store \/ ~(store'.serial <= barred)
    BY <1>14, <2>3 DEF IssueWrite, Put, TokenInv, TypeOK
  <2>5. ~defied' /\ barred' = barred /\ held' = held /\ kind' = kind
    BY <1>14, <2>1 DEF IssueWrite, BarInv, row
  <2>6. \A p \in Requests : at'[p] # "revokeWrite"
    BY <1>14, <2>2 DEF IssueWrite
  <2>7. Unspent(store) => ~(store.serial <= barred)
    BY <1>14, <2>1, <2>2 DEF IssueWrite, BarInv, Rejecting, Later, RevokeStages
  <2> QED
    BY <2>4, <2>5, <2>6, <2>7 DEF BarInv, Unspent
<1>15. ASSUME NEW o \in Requests, OpenState(o) PROVE BarInv'
  BY <1>15 DEF OpenState
<1>16. ASSUME NEW o \in Requests, ReadToken(o) PROVE BarInv'
  <2> SUFFICES ASSUME alone', faults' = 0, crashes' = 0 PROVE BarInv'
    BY DEF BarInv
  <2>1. alone /\ faults = 0 /\ crashes = 0 /\ at[o] \in Busy /\ \A p \in Requests : at[p] \in Busy => p = o
    BY <1>16 DEF ReadToken, AloneInv, hazards
  <2>2. \A p \in Requests : p # o => ~Rejecting(p) /\ at[p] # "revokeWrite" /\ at'[p] = at[p]
    BY <1>16, <2>1 DEF ReadToken, Rejecting, Later, RevokeStages, AfterRevoke, AfterToken
  <2>3. Unspent(store) => ~(store.serial <= barred)
    BY <1>16, <2>1, <2>2 DEF ReadToken, BarInv, Rejecting, Later, RevokeStages
  <2>4. ~defied'
    BY <1>16, <2>1, <2>3 DEF ReadToken, BarInv, Unspent, Verifies
  <2>5. \A p \in Requests : at'[p] # "revokeWrite"
    BY <1>16, <2>2 DEF ReadToken, AfterToken
  <2>6. store' = store /\ barred' = barred
    BY <1>16 DEF ReadToken, row, tokens
  <2> QED
    BY <2>3, <2>4, <2>5, <2>6 DEF BarInv, Unspent
<1>17. ASSUME NEW o \in Requests, ConsumeRead(o) PROVE BarInv'
  BY <1>17 DEF ConsumeRead
<1>18. ASSUME NEW o \in Requests, ConsumeWrite(o) PROVE BarInv'
  <2> SUFFICES ASSUME alone', faults' = 0, crashes' = 0 PROVE BarInv'
    BY DEF BarInv
  <2>1. alone /\ faults = 0 /\ crashes = 0 /\ at[o] \in Busy /\ \A p \in Requests : at[p] \in Busy => p = o
    BY <1>18 DEF ConsumeWrite, AloneInv, hazards
  <2>2. \A p \in Requests : p # o => ~Rejecting(p) /\ at[p] # "revokeWrite" /\ at'[p] = at[p]
    BY <1>18, <2>1 DEF ConsumeWrite, Rejecting, Later, RevokeStages, AfterRevoke, AfterToken
  <2>3. Consumed(held[o]) \in Tokens /\ (Consumed(held[o]).consumed \/ Consumed(held[o]).revoked)
    BY TokenFacts DEF TypeOK
  <2>4. store' = store \/ ~Unspent(store')
    BY <1>18, <2>3, PutSpent DEF ConsumeWrite
  <2>5. ~defied' /\ barred' = barred /\ held' = held /\ kind' = kind
    BY <1>18, <2>1 DEF ConsumeWrite, BarInv, row
  <2>6. \A p \in Requests : at'[p] # "revokeWrite"
    BY <1>18, <2>2 DEF ConsumeWrite, AfterRevoke, AfterToken
  <2>7. Unspent(store)' => ~(store.serial <= barred)
    <3>1. ASSUME Unspent(store) PROVE ~(store.serial <= barred)
      BY <1>18, <2>1, <2>2, <3>1 DEF ConsumeWrite, BarInv, Rejecting, Later, RevokeStages
    <3> QED
      BY <2>4, <3>1 DEF Unspent
  <2> QED
    BY <2>4, <2>5, <2>6, <2>7 DEF BarInv, Unspent
<1>19. ASSUME NEW o \in Requests, PersistResumed(o) PROVE BarInv'
  BY <1>19 DEF PersistResumed
<1>20. ASSUME NEW o \in Requests, Raise(o) PROVE BarInv'
  BY <1>20 DEF Raise, Raising
<1>21. ASSUME NEW o \in Requests, SaveUnheard(o) PROVE BarInv'
  BY <1>21 DEF SaveUnheard, Written
<1>22. ASSUME NEW o \in Requests, Swallow(o) PROVE BarInv'
  BY <1>22 DEF Swallow, AfterRevoke, AfterToken
<1>23. CASE Crash
  BY <1>23 DEF Crash, Open
<1>24. CASE Midnight
  BY <1>24 DEF Midnight
<1>25. CASE UNCHANGED vars
  BY <1>25 DEF vars
<1> QED
  BY <1>1, <1>2, <1>3, <1>4, <1>5, <1>6, <1>7, <1>8, <1>9, <1>10, <1>11, <1>12, <1>13, <1>14, <1>15, <1>16, <1>17, <1>18, <1>19, <1>20, <1>21, <1>22, <1>23, <1>24, <1>25 DEF Next, Step, Resolve, Pause, Resume, Fail

(* A rejection is final: without overlaps and failures no token from       *)
(* before it lets the job go on.                                           *)
THEOREM RejectionIsFinal == Spec => []RejectionHolds
<1>1. BarInv => RejectionHolds
  BY DEF BarInv, RejectionHolds
<1> QED
  BY <1>1, TypeInit, TypeStep, StageInit, StageStep, RowInit, RowStep, TokenInit, TokenStep,
     AloneInit, AloneStep, BarInit, BarStep, PTL DEF Spec
=============================================================================
