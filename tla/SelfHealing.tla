---------------------------- MODULE SelfHealing ----------------------------
(***************************************************************************)
(* execute_with_self_healing: run a program in a workspace, recognise the  *)
(* error in its output, apply the fix known for it and run it again, at    *)
(* most MAX_RETRIES times and no fix twice.  A program that timed out is   *)
(* started in the background and reported as a success unseen.             *)
(***************************************************************************)
EXTENDS Naturals, FiniteSets

CONSTANTS
    Modules,        \* names of Python modules that may be missing
    MaxRetries      \* MAX_RETRIES (2 in the code)

ASSUME RetriesAssumption == MaxRetries \in Nat
ASSUME ModulesAssumption == IsFiniteSet(Modules)

VARIABLES
    healing,        \* "off", "running", "failed" (an output to look at), "over"
    runs, retries,  \* attempts, retries
    used,           \* used_fix_keys
    background,     \* next_mode = "BACKGROUND"
    error,          \* what parse_error found in the last output
    exits,          \* history: did each run in the foreground succeed
    healed          \* result["success"]

healVars == <<healing, runs, retries, used, background, error, exits, healed>>

-----------------------------------------------------------------------------
(* parse_error names the missing module, if the output does.  "other" is   *)
(* an error nobody knows a fix for.                                        *)
Errors == {<<"module", m>> : m \in Modules}
          \cup {<<kind>> : kind \in {"import", "syntax", "timeout", "other"}}

(* The fixes tried for an error.  Those that rewrite the program apply     *)
(* only if the text changes.                                               *)
Fixes(e) ==
    CASE e[1] = "module" -> {<<"pip_install", e[2]>>}
      [] e[1] = "import" -> {<<"telegram_filters_v20">>}
      [] e[1] = "syntax" -> {<<"cleaned_markdown_fences">>, <<"minimal_syntax_cleanup">>}
      [] e[1] = "timeout" -> {<<"timeout_to_background">>}
      [] e[1] = "other" -> {}

(* Fixes that are applied whenever they have not been. *)
Unconditional == {"module", "timeout"}

FixKeys == UNION {Fixes(e) : e \in Errors}

NoError == <<"other">>

HealTypeOK ==
    /\ healing \in {"off", "running", "failed", "over"}
    /\ runs \in 0..(MaxRetries + 1)
    /\ retries \in 0..MaxRetries
    /\ used \in SUBSET FixKeys
    /\ background \in BOOLEAN
    /\ error \in Errors
    /\ exits \in BOOLEAN
    /\ healed \in BOOLEAN

HealInit ==
    /\ healing = "off"
    /\ runs = 0
    /\ retries = 0
    /\ used = {}
    /\ background = FALSE
    /\ error = NoError
    /\ exits = FALSE
    /\ healed = FALSE

-----------------------------------------------------------------------------
StartHealing ==
    /\ healing = "off"
    /\ healing' = "running"
    /\ UNCHANGED <<runs, retries, used, background, error, exits, healed>>

(* universal_execute_python. *)
RunSucceeds ==
    /\ healing = "running"
    /\ ~background
    /\ healing' = "over"
    /\ runs' = runs + 1
    /\ exits' = TRUE
    /\ healed' = TRUE
    /\ UNCHANGED <<retries, used, background, error>>

(* _run_background: nothing it does can fail in the eyes of the loop. *)
RunInBackground ==
    /\ healing = "running"
    /\ background
    /\ healing' = "over"
    /\ runs' = runs + 1
    /\ healed' = TRUE
    /\ UNCHANGED <<retries, used, background, error, exits>>

RunFails(e) ==
    /\ healing = "running"
    /\ ~background
    /\ runs' = runs + 1
    /\ error' = e
    /\ healing' = IF retries >= MaxRetries THEN "over" ELSE "failed"
    /\ UNCHANGED <<retries, used, background, exits, healed>>

ApplyFix(k) ==
    /\ healing = "failed"
    /\ k \in Fixes(error) \ used
    /\ used' = used \cup {k}
    /\ retries' = retries + 1
    /\ background' = (error[1] = "timeout")
    /\ healing' = "running"
    /\ UNCHANGED <<runs, error, exits, healed>>

(* No fix is known, the one that is has been used, or it changes nothing.  *)
GiveUp ==
    /\ healing = "failed"
    /\ Fixes(error) \subseteq used \/ error[1] \notin Unconditional
    /\ healing' = "over"
    /\ UNCHANGED <<runs, retries, used, background, error, exits, healed>>

HealStep ==
    \/ RunSucceeds
    \/ RunInBackground
    \/ \E e \in Errors : RunFails(e)
    \/ \E k \in FixKeys : ApplyFix(k)
    \/ GiveUp

-----------------------------------------------------------------------------
(* The program is run once more than it is fixed, each time after a fix    *)
(* that had not been tried, and at most MAX_RETRIES + 1 times; a success   *)
(* that no run in the foreground earned is a program that timed out and    *)
(* was left in the background.                                             *)
HealingIsBounded ==
    /\ Cardinality(used) = retries
    /\ runs <= MaxRetries + 1
    /\ healing \in {"failed", "over"} => runs = retries + 1
    /\ healing = "running" => runs = retries
    /\ healed /\ ~exits => <<"timeout_to_background">> \in used
=============================================================================
