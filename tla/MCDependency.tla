---------------------------- MODULE MCDependency ---------------------------
(***************************************************************************)
(* VersionGate over every combination of small sets of version texts       *)
(* around the floors, of ClusterServiceVersion lists, and of ClusterPolicy *)
(* states.                                                                 *)
(***************************************************************************)
EXTENDS VersionGate

Text(v, core, suffix) == [v |-> v, core |-> core, suffix |-> suffix]

MCToolkits ==
  {Missing, Garbled, Text(TRUE, <<1, 20, 1>>, "malformed"), Text(TRUE, <<1, 20, 0>>, "none"),
   Text(FALSE, <<1, 21>>, "prerelease"), Text(TRUE, <<0, 99, 99>>, "build"), Text(TRUE, <<2>>, "none"),
   Text(TRUE, <<1, 19, 9999>>, "none"), Text(TRUE, <<1, 2, 3, 4>>, "none")}

MCDevicePlugins == {Missing, Text(TRUE, <<0, 20, 0>>, "prerelease"), Text(TRUE, <<0, 20, 1>>, "none")}

MCLabels ==
  {Missing, Garbled, Text(TRUE, <<26, 7, 1>>, "prerelease"), Text(FALSE, <<26, 8>>, "build"),
   Text(TRUE, <<26, 7, 0>>, "prerelease"), Text(TRUE, <<25, 10>>, "none"),
   Text(TRUE, <<27, 1, 0>>, "malformed")}

CSV(prefixed, provider, version) ==
  [prefixed |-> prefixed, provider |-> provider, version |-> version]

MCCSVLists ==
  {<<>>,
   <<CSV(FALSE, "NVIDIA", Text(TRUE, <<26, 7, 1>>, "none"))>>,
   <<CSV(TRUE, "other", Text(TRUE, <<1, 0, 0>>, "none")), CSV(TRUE, "NVIDIA", Text(TRUE, <<26, 7, 1>>, "none"))>>,
   <<CSV(TRUE, "absent", Text(TRUE, <<26, 7, 0>>, "none")), CSV(TRUE, "NVIDIA", Text(TRUE, <<26, 7, 1>>, "none"))>>,
   <<CSV(TRUE, "NVIDIA", Missing)>>}

MCStatuses ==
  {[error |-> "absent", ready |-> "true", state |-> "ready"],
   [error |-> "true", ready |-> "true", state |-> "ready"],
   [error |-> "absent", ready |-> "absent", state |-> "absent"]}
=============================================================================
