---------------------------- MODULE TextPatches ----------------------------
(***************************************************************************)
(* What a list of patches makes of a set of files: apply_text_patches and  *)
(* validate_patched_files of guardrails.py.  A file is a sequence of       *)
(* blocks of text, a target is one block, white space around it is         *)
(* ignored, and a set of files is a function from paths.                   *)
(***************************************************************************)
EXTENDS Naturals, Sequences, FiniteSets

Count(content, block) == Cardinality({i \in DOMAIN content : content[i] = block})
Has(content, text) == \E i \in 0..(Len(content) - Len(text)) :
                        SubSeq(content, i + 1, i + Len(text)) = text

(* The content after a patch whose target is there once. *)
Patched(content, patch) ==
    LET at == CHOOSE i \in DOMAIN content : content[i] = patch.target
        before == SubSeq(content, 1, at - 1)
        after == SubSeq(content, at + 1, Len(content))
    IN CASE patch.operation = "replace" -> before \o patch.replacement \o after
         [] patch.operation = "delete" -> before \o after
         [] patch.operation = "insert" -> before \o <<patch.target>> \o patch.replacement \o after

(* Why a patch is refused, or "ok". *)
Verdict(files, patch) ==
    IF patch.file \notin DOMAIN files THEN "file_not_found"
    ELSE LET content == files[patch.file]
             n == Count(content, patch.target)
         IN IF n # 1 THEN "target_mismatch"
            ELSE IF Patched(content, patch) = content THEN "no_change"
            ELSE IF /\ patch.operation # "insert"
                    /\ Count(Patched(content, patch), patch.target) >= n
                 THEN "change_verification_failed"
            ELSE "ok"

(* One turn of the loop: a patch that is refused is passed over. *)
ApplyOne(result, patch) ==
    LET verdict == Verdict(result.files, patch)
    IN IF verdict = "ok"
         THEN [files |-> [result.files EXCEPT ![patch.file] = Patched(@, patch)],
               changed |-> result.changed \cup {patch.file},
               errors |-> result.errors]
         ELSE [result EXCEPT !.errors = @ \cup {verdict}]

ApplyPatches(files, patches) ==
    LET outcome[n \in 0..Len(patches)] ==
            IF n = 0 THEN [files |-> files, changed |-> {}, errors |-> {}]
                     ELSE ApplyOne(outcome[n - 1], patches[n])
    IN outcome[Len(patches)]

(* The part of validate_patched_files that looks for what was asked for;   *)
(* whether the result parses is left to its caller.                        *)
FeaturePresent(files, patches) ==
    \A i \in DOMAIN patches :
        LET patch == patches[i]
        IN /\ patch.file \in DOMAIN files
           /\ patch.operation # "delete" => Has(files[patch.file], patch.replacement)
           /\ patch.operation = "delete" => Count(files[patch.file], patch.target) = 0

(* _patch_signature, as check_patch_drift compares it. *)
Targets(patches) == {<<patches[i].file, patches[i].target>> : i \in DOMAIN patches}
=============================================================================
