---------------------------- MODULE MCBundleGate ----------------------------
(***************************************************************************)
(* Three headers, and the ways in which they may fail to compile together. *)
(***************************************************************************)
EXTENDS BundleGate

MCGfm == {1, 2, 3}

Clean == [fatal |-> {}, broken |-> {}, clash |-> {}, driver |-> FALSE]

MCTexts ==
  [fatal: SUBSET MCGfm, broken: {{}, {2}}, clash: {{}, {{2, 3}}}, driver: BOOLEAN]

SameOnAnySystem == [t \in MCTexts |-> [s \in {"intact"} |-> t]]

\* One text misses an include only where the sysroot was extracted in part, the
\* other misses one after the other wherever it is compiled.
Fragile ==
  [t \in {"clean", "fatal"} |->
     [s \in {"intact", "partial"} |->
        IF t = "fatal" THEN [Clean EXCEPT !.fatal = {1, 2}]
        ELSE IF s = "intact" THEN Clean ELSE [Clean EXCEPT !.fatal = {2}]]]
=============================================================================
