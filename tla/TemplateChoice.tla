--------------------------- MODULE TemplateChoice ---------------------------
(***************************************************************************)
(* Which template a code job is made from, the new way (scores and a       *)
(* reviewer) and the old one (the first that matches).  The catalogue is   *)
(* static.  Scores are compared as fractions: their rounding to four       *)
(* digits is left out.                                                     *)
(***************************************************************************)
EXTENDS Naturals, FiniteSets

(* TEMPLATES, in the order of the dictionary. *)
Order == [telegram_bot |-> 1, fastapi_app |-> 2, flask_app |-> 3, python_script |-> 4]

Templates == DOMAIN Order

Keywords(t) ==
    CASE t = "telegram_bot" -> {"telegram", "bot"}
      [] t = "fastapi_app" -> {"api", "fastapi", "backend"}
      [] t = "flask_app" -> {"flask", "web"}
      [] t = "python_script" -> {"python script", "script", "run python"}

KeywordWords(t) ==
    IF t = "python_script" THEN {"python", "script", "run"} ELSE Keywords(t)

Dependencies(t) ==
    CASE t = "fastapi_app" -> 2
      [] t = "python_script" -> 0
      [] OTHER -> 1

FilesOf(t) ==
    IF t = "python_script" THEN {"main.py"} ELSE {"main.py", "requirements.txt"}

AllKeywords == UNION {Keywords(t) : t \in Templates}
AllWords == UNION {KeywordWords(t) : t \in Templates}

(* An objective: the keywords found anywhere in its text, its words that   *)
(* are words of keywords, and how many others it has.  A word is found as  *)
(* a keyword, also inside of another one ("robot").                        *)
IsObjective(o) ==
    /\ o.found \subseteq AllKeywords
    /\ o.words \subseteq AllWords
    /\ o.others \in Nat
    /\ o.words \cap AllKeywords \subseteq o.found
    /\ "python script" \in o.found => "script" \in o.found
    /\ "fastapi" \in o.found => "api" \in o.found
    /\ o.found # {} => o.words # {} \/ o.others > 0

CONSTANT Objectives

ASSUME ObjectivesAssumption == \A o \in Objectives : IsObjective(o)

Hits(o, t) == Keywords(t) \cap o.found

Matching(o) == {t \in Templates : Hits(o, t) # {}}

(* Mutant: the dictionary is walked from its end. *)
LastOf(matching) ==
    CHOOSE t \in matching : \A u \in matching : Order[t] >= Order[u]

(* match_template *)
FirstOf(matching) ==
    CHOOSE t \in matching : \A u \in matching : Order[t] <= Order[u]

-----------------------------------------------------------------------------
(* Scores, out of 90 times the length of the objective.  Libraries that    *)
(* are there would count, but no capability reports any: a template with   *)
(* dependencies misses them all, and is punished once more for each.       *)
Score(hits, dependencies, length, overlap) ==
    10 * ((length * hits) + (IF dependencies = 0 THEN 3 * length ELSE 0) + (3 * overlap))

Reaches(tenths, hits, dependencies, length, overlap) ==
    Score(hits, dependencies, length, overlap) >= 9 * length * (tenths + dependencies)

Length(o) == Cardinality(o.words) + o.others

Overlap(o, t) == Cardinality(o.words \cap KeywordWords(t))

Points(o, t) == Score(Cardinality(Hits(o, t)), Dependencies(t), Length(o), Overlap(o, t))

Compatible(o, t, tenths) ==
    Reaches(tenths, Cardinality(Hits(o, t)), Dependencies(t), Length(o), Overlap(o, t))

(* The best score; of equal ones the first by name. *)
ByName == [fastapi_app |-> 1, flask_app |-> 2, python_script |-> 3, telegram_bot |-> 4]

BestOf(o) ==
    CHOOSE t \in Matching(o) : \A u \in Matching(o) :
        \/ Points(o, t) > Points(o, u)
        \/ Points(o, t) = Points(o, u) /\ ByName[t] <= ByName[u]

-----------------------------------------------------------------------------
(* What the reviewer says of the best template; nothing if it was not      *)
(* asked, failed, or said something else.                                  *)
Hints == {"none", "USE_TEMPLATE", "PATCH_TEMPLATE", "NEW_IMPLEMENTATION"}

(* ImplementationStrategyResolver.resolve: the reviewer may send a good    *)
(* template away and have a poor one filled up, but never used as it is.   *)
Strategy(hint, exact, compatible) ==
    IF hint = "NEW_IMPLEMENTATION" THEN "pure"
    ELSE IF exact THEN "exact"
    ELSE IF hint = "USE_TEMPLATE" \/ compatible THEN "hybrid" ELSE "pure"

StrategyFor(o, hint) ==
    IF Matching(o) = {} THEN "pure"
    ELSE Strategy(hint, Compatible(o, BestOf(o), 8), Compatible(o, BestOf(o), 5))

(* What the model writes: it is asked by a function that does not exist,   *)
(* which is an answer without files.                                       *)
ModelFiles == {}

(* No job has a specification that could name other files. *)
Missing(t) == {}

(* A template is filled up, never written over. *)
HybridFiles(t) ==
    FilesOf(t) \cup (IF Missing(t) = {} THEN {} ELSE ModelFiles \ FilesOf(t))

Generated(o, strategy) ==
    CASE strategy = "exact" -> FilesOf(BestOf(o))
      [] strategy = "hybrid" -> HybridFiles(BestOf(o))
      [] strategy = "pure" -> ModelFiles

(* ImplementationValidator: only a file that does not parse is an error;   *)
(* an implementation without files has none.                               *)
Passes(files, parses) == files = {} \/ parses

(* The repair has no other author than the model, and without an answer    *)
(* the files stay as they are.                                             *)
Repaired(files) == IF ModelFiles = {} THEN files ELSE ModelFiles

ReportFiles(o, strategy, parses) ==
    IF Passes(Generated(o, strategy), parses) \/ strategy = "exact"
    THEN Generated(o, strategy) ELSE Repaired(Generated(o, strategy))

(* decide_strategy: the template whose files are in the report. *)
ReportOf(o, hint, parses) ==
    IF Matching(o) # {} /\ ReportFiles(o, StrategyFor(o, hint), parses) # {}
    THEN BestOf(o) ELSE "none"

(* The template of the report, and the one of the old way. *)
Choices ==
    {[report |-> ReportOf(o, hint, parses),
      first |-> IF Matching(o) = {} THEN "none" ELSE FirstOf(Matching(o))]
        : o \in Objectives, hint \in Hints, parses \in BOOLEAN}
=============================================================================
