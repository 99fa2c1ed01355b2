-------------------------------- MODULE MCUnits --------------------------------
(***************************************************************************)
(* The parts of the repository that run on their own, side by side: each   *)
(* behaviour exercises one of them while the others stand still.           *)
(***************************************************************************)
EXTENDS Discovery, Tiers, Pex, Throttle, ItemStore, TorrentData, Merkle, Progress

CONSTANTS
  a1, a2, a3, t1, t2, t3, t4

VARIABLE unit

Lists == {<<a1, a2>>, <<a2, a1, a2>>, <<a3>>}
AnnounceList == << <<t1, t2, t3>>, <<>>, <<t4>> >>
Directories ==
  {<< <<>> >>, << <<0, 0, 1>> >>, << <<0>>, <<0, 0>> >>, << <<0, 1>>, <<>>, <<1, 0, 1>> >>,
   << <<1>>, <<0>>, <<0, 1>> >>, << <<0, 0>>, <<0>>, <<0, 0, 1>> >>}

vars == <<discoveryVars, tierVars, pexVars, throttleVars, storeVars, dataVars,
          merkleVars, progressVars, unit>>

Init ==
  /\ unit \in {"discovery", "tiers", "pex", "throttle", "store", "data", "merkle", "progress"}
  /\ DiscoveryInit /\ TierInit /\ PexInit /\ ThrottleInit /\ StoreInit /\ DataInit
  /\ MerkleInit /\ ProgressInit

RunDiscovery ==
  /\ unit = "discovery" /\ DiscoveryNext
  /\ UNCHANGED <<tierVars, pexVars, throttleVars, storeVars, dataVars, merkleVars,
                 progressVars, unit>>
RunTiers ==
  /\ unit = "tiers" /\ TierNext
  /\ UNCHANGED <<discoveryVars, pexVars, throttleVars, storeVars, dataVars, merkleVars,
                 progressVars, unit>>
RunPex ==
  /\ unit = "pex" /\ PexNext
  /\ UNCHANGED <<discoveryVars, tierVars, throttleVars, storeVars, dataVars, merkleVars,
                 progressVars, unit>>
RunThrottle ==
  /\ unit = "throttle" /\ ThrottleNext
  /\ UNCHANGED <<discoveryVars, tierVars, pexVars, storeVars, dataVars, merkleVars,
                 progressVars, unit>>
RunStore ==
  /\ unit = "store" /\ StoreNext
  /\ UNCHANGED <<discoveryVars, tierVars, pexVars, throttleVars, dataVars, merkleVars,
                 progressVars, unit>>
RunData ==
  /\ unit = "data" /\ DataNext
  /\ UNCHANGED <<discoveryVars, tierVars, pexVars, throttleVars, storeVars, merkleVars,
                 progressVars, unit>>
RunMerkle ==
  /\ unit = "merkle" /\ MerkleNext
  /\ UNCHANGED <<discoveryVars, tierVars, pexVars, throttleVars, storeVars, dataVars,
                 progressVars, unit>>
RunProgress ==
  /\ unit = "progress" /\ ProgressNext
  /\ UNCHANGED <<discoveryVars, tierVars, pexVars, throttleVars, storeVars, dataVars,
                 merkleVars, unit>>

Next ==
  \/ RunDiscovery \/ RunTiers \/ RunPex \/ RunThrottle \/ RunStore \/ RunData
  \/ RunMerkle \/ RunProgress

\* Time passes and runnable goroutines run (Throttle).
Spec == Init /\ [][Next]_vars /\ (unit = "throttle" => ThrottleFairness)
=============================================================================
