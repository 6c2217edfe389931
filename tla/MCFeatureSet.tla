---------------------------- MODULE MCFeatureSet ----------------------------
(***************************************************************************)
(* Four libraries: any implies core, which at the second revision implies  *)
(* mp11; log is module-less, its dump files are owned by two profiles of   *)
(* one axis, which the second revision adds together with sort.            *)
(***************************************************************************)
EXTENDS FeatureSet

MCLibs == {"any", "core", "mp11", "log", "sort"}

MCTUs ==
  [l \in MCLibs |->
     IF l = "log" THEN {"log.cpp", "dump_ssse3.cpp", "dump_avx2.cpp"} ELSE {l}]

Profile(name, sources) ==
  [feature |-> name, axis |-> "log-dump", arch |-> "x86_64", sources |-> sources,
   implies |-> {"log"}]

MCTable ==
  << [libs |-> MCLibs \ {"sort"},
      edges |-> [any |-> {"core"}, core |-> {}, mp11 |-> {}, log |-> {"core"}],
      owned |-> [l \in MCLibs |-> {}],
      profiles |-> {}],
     [libs |-> MCLibs,
      edges |-> [any |-> {"core"}, core |-> {"mp11"}, mp11 |-> {}, log |-> {"core"},
                 sort |-> {"core"}],
      owned |-> [l \in MCLibs |->
                   IF l = "log" THEN {"dump_ssse3.cpp", "dump_avx2.cpp"} ELSE {}],
      profiles |-> {Profile("backend-log-ssse3", {"dump_ssse3.cpp"}),
                    Profile("backend-log-avx2", {"dump_ssse3.cpp", "dump_avx2.cpp"})}] >>

Ask(default, features) == [default |-> default, features |-> features]

MCRequests ==
  {Ask(TRUE, {}), Ask(FALSE, {"sort"}), Ask(TRUE, {"log", "sort"}),
   Ask(FALSE, {"backend-log-ssse3"}), Ask(TRUE, {"backend-log-avx2"}),
   Ask(FALSE, {"backend-log-ssse3", "backend-log-avx2"})}
=============================================================================
