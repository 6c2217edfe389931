----------------------------- MODULE BundleGate -----------------------------
(***************************************************************************)
(* _parse_bundle of scripts/gen_exports.py for one library: the clang++    *)
(* gate that prunes the include list until the bundle compiles, the cache  *)
(* of its verdict, and main(), which takes the result apart.               *)
(*                                                                         *)
(* The gate cache outlives the runs.  Between runs the vendored headers    *)
(* and the system headers may change.  Headers are numbered in the order   *)
(* of the bundle.                                                          *)
(***************************************************************************)
EXTENDS Naturals, FiniteSets

CONSTANTS
  Gfm,          \* the initial include list, a finite set of naturals
  Texts,        \* the revisions of the vendored headers
  Systems,      \* the states of the system headers (sysroot, libstdc++)
  Profile,      \* Profile[t][s]: what clang++ finds wrong, see Faults
  MaxRounds,    \* how often the loop runs clang++
  None          \* an absent cache file, no verdict yet

(***************************************************************************)
(* What clang++ finds wrong with a bundle.  A missing include is fatal and *)
(* hides what comes after it; any other error of a header is reported with *)
(* the rest; a clash of two headers names both (the error and its note);   *)
(* a failure of the driver itself names no header at all.                  *)
(***************************************************************************)
Faults ==
  [fatal: SUBSET Gfm, broken: SUBSET Gfm, clash: SUBSET (SUBSET Gfm),
   driver: BOOLEAN]

ASSUME GateAssumption ==
  /\ Gfm \subseteq Nat /\ IsFiniteSet(Gfm)
  /\ \A t \in Texts, s \in Systems : Profile[t][s] \in Faults
  /\ MaxRounds \in Nat \ {0}

VARIABLES
  text,         \* the vendored headers on disk
  system,       \* the system headers
  cache,        \* <lib>.gate.json, or None
  gfm,          \* the include list as pruned so far
  round,        \* how often clang++ ran in this call
  phase,        \* "idle", "gate", "returned" or "crashed"
  verdict,      \* the value returned: None for a failure, else the include list
  use_cache     \* the argument of the call

vars == <<text, system, cache, gfm, round, phase, verdict, use_cache>>

-----------------------------------------------------------------------------
Seen(f, S) == {h \in S : \A x \in S \cap f.fatal : h <= x}

\* The headers of S the error messages name.
Offenders(f, S) ==
  IF f.driver THEN {}
  ELSE (Seen(f, S) \cap (f.fatal \cup f.broken))
       \cup UNION {c \in f.clash : c \subseteq Seen(f, S)}

Compiles(f, S) == Offenders(f, S) = {} /\ ~f.driver

Present == Profile[text][system]

\* What the key covers: include list, closure of vendored texts, flags, version.
Key == text

Hit == use_cache /\ cache # None /\ cache.key = Key

Store(entry) == cache' = IF use_cache THEN entry ELSE cache

-----------------------------------------------------------------------------
Init ==
  /\ text \in Texts
  /\ system \in Systems
  /\ cache = None
  /\ gfm = {}
  /\ round = 0
  /\ phase = "idle"
  /\ verdict = None
  /\ use_cache = FALSE

\* Outside a call: nobody called yet, or the last caller is gone.
Between == phase \in {"idle", "crashed"}

EditHeaders(t) ==
  /\ Between
  /\ text' = t
  /\ UNCHANGED <<system, cache, gfm, round, phase, verdict, use_cache>>

EditSystem(s) ==
  /\ Between
  /\ system' = s
  /\ UNCHANGED <<text, cache, gfm, round, phase, verdict, use_cache>>

Call(uc) ==
  /\ Between
  /\ phase' = "gate"
  /\ use_cache' = uc
  /\ gfm' = Gfm
  /\ round' = 0
  /\ verdict' = None
  /\ UNCHANGED <<text, system, cache>>

\* A cached verdict replaces the loop.
ReplayVerdict ==
  /\ phase = "gate" /\ round = 0 /\ Hit
  /\ verdict' = IF cache.ok THEN cache.gfm ELSE None
  /\ phase' = "returned"
  /\ UNCHANGED <<text, system, cache, gfm, round, use_cache>>

Gating == phase = "gate" /\ ~(round = 0 /\ Hit)

\* Deviation: the verdict is stored with the include list of the beginning.
GatePasses_StoresInitial ==
  /\ Gating /\ round < MaxRounds
  /\ Compiles(Present, gfm)
  /\ verdict' = gfm
  /\ phase' = "returned"
  /\ Store([key |-> Key, ok |-> TRUE, gfm |-> Gfm])
  /\ UNCHANGED <<text, system, gfm, round, use_cache>>

GatePasses ==
  /\ Gating /\ round < MaxRounds
  /\ Compiles(Present, gfm)
  /\ verdict' = gfm
  /\ phase' = "returned"
  /\ Store([key |-> Key, ok |-> TRUE, gfm |-> gfm])
  /\ UNCHANGED <<text, system, gfm, round, use_cache>>

\* The headers the errors name leave the include list, and the gate runs again.
GatePrunes ==
  /\ Gating /\ round < MaxRounds
  /\ Offenders(Present, gfm) # {}
  /\ gfm' = gfm \ Offenders(Present, gfm)
  /\ round' = round + 1
  /\ UNCHANGED <<text, system, cache, phase, verdict, use_cache>>

\* Errors that name no included header, or no round left.
GateGivesUp ==
  /\ Gating
  /\ \/ round = MaxRounds
     \/ Offenders(Present, gfm) = {} /\ ~Compiles(Present, gfm)
  /\ verdict' = None
  /\ phase' = "returned"
  /\ Store([key |-> Key, ok |-> FALSE])
  /\ UNCHANGED <<text, system, gfm, round, use_cache>>

\* main() takes a pair apart; None is no pair.
TakeApart ==
  /\ phase = "returned"
  /\ phase' = IF verdict = None THEN "crashed" ELSE "idle"
  /\ UNCHANGED <<text, system, cache, gfm, round, verdict, use_cache>>

Generator ==
  ReplayVerdict \/ GatePasses \/ GatePrunes \/ GateGivesUp \/ TakeApart

Next ==
  \/ Generator
  \/ \E t \in Texts : EditHeaders(t)
  \/ \E s \in Systems : EditSystem(s)
  \/ \E uc \in BOOLEAN : Call(uc)

Spec == Init /\ [][Next]_vars
-----------------------------------------------------------------------------
(***************************************************************************)
(* The verdict of a call that has no cache, in one expression: what comes  *)
(* of the include list S when n rounds are left.                           *)
(***************************************************************************)
Remaining(f) ==
  LET loop[n \in 0..MaxRounds] ==
        [S \in SUBSET Gfm |->
           IF n = 0 THEN None
           ELSE IF Compiles(f, S) THEN S
           ELSE IF Offenders(f, S) = {} THEN None
           ELSE loop[n - 1][S \ Offenders(f, S)]]
  IN  loop

Verdict(f) == Remaining(f)[MaxRounds][Gfm]

-----------------------------------------------------------------------------
\* Every variable holds a value of its kind.
TypeOK ==
  /\ text \in Texts /\ system \in Systems
  /\ cache # None => /\ cache.key \in Texts /\ cache.ok \in BOOLEAN
                     /\ cache.ok => cache.gfm \subseteq Gfm
  /\ gfm \subseteq Gfm
  /\ round \in 0..MaxRounds
  /\ phase \in {"idle", "gate", "returned", "crashed"}
  /\ verdict = None \/ verdict \subseteq Gfm

\* Whether it comes from the cache or from the loop, the list returned is the
\* one the loop finds on the headers of this moment, and it compiles.
VerdictIsFresh ==
  phase = "returned" =>
    /\ verdict = Verdict(Present)
    /\ verdict # None => Compiles(Present, verdict)

\* Whatever happens to the system headers, the list returned is the one the loop
\* finds on the present vendored headers and on system headers there once were.
VerdictOfText ==
  phase = "returned" =>
    \E s \in Systems :
      /\ verdict = Verdict(Profile[text][s])
      /\ verdict # None => Compiles(Profile[text][s], verdict)

\* A failure means that the include set cannot be made to compile: pruning what
\* the errors name leads nowhere.
FailureIsFinal ==
  phase = "returned" /\ verdict = None => ~Compiles(Present, gfm)

\* A bundle that does not parse is reported by main().
FailureIsReported == phase # "crashed"
=============================================================================
