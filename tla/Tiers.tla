--------------------------------- MODULE Tiers ---------------------------------
(***************************************************************************)
(* tracker/tiered.go: TieredAnnouncer.  An announce walks a copy of the    *)
(* tiers without the lock and, when a tracker answers, promotes it by its  *)
(* position in the copy; announces may overlap.                            *)
(***************************************************************************)
EXTENDS Naturals, Sequences, SequencesExt

CONSTANTS
  Callers,   \* callers of Announce
  TierList   \* the announce-list: a sequence of sequences of trackers

Trackers == UNION {Range(TierList[i]) : i \in DOMAIN TierList}
NonEmpty == SelectSeq(TierList, LAMBDA t : t # <<>>)

\* No tracker is listed twice in a tier.  Stated of the tiers that the filter
\* keeps: what SelectSeq returns is an induction.
ASSUME TierAssumption ==
  /\ NonEmpty \in Seq(Seq(Trackers) \ {<<>>})
  /\ \A i \in DOMAIN NonEmpty : IsInjective(NonEmpty[i])

VARIABLES
  tiers,   \* the shared tiers; <<>> before NewTieredAnnouncer
  copied,  \* copied[a]: the copy a's announce walks
  at,      \* at[a]: the tier and the tracker a asks, <<0, 0>> when not announcing
  moved,   \* history: tiers reordered since a took its copy
  winner   \* winner[i]: tracker of the last success in tier i, <<>> if the tier
           \* had been reordered since that announce took its copy

tierVars == <<tiers, copied, at, moved, winner>>

TierInit ==
  /\ tiers = <<>> /\ winner = <<>>
  /\ copied = [a \in Callers |-> <<>>] /\ at = [a \in Callers |-> <<0, 0>>]
  /\ moved = [a \in Callers |-> {}]

Shuffles(t) == {[i \in DOMAIN t |-> t[p[i]]] : p \in Bijection(DOMAIN t, DOMAIN t)}

NewTieredAnnouncer ==
  /\ tiers = <<>>
  /\ \E ts \in [DOMAIN NonEmpty -> UNION {Shuffles(t) : t \in Range(NonEmpty)}] :
       /\ \A i \in DOMAIN ts : ts[i] \in Shuffles(NonEmpty[i])
       /\ tiers' = ts
       /\ winner' = [i \in DOMAIN ts |-> <<>>]
  /\ UNCHANGED <<copied, at, moved>>

StartAnnounce(a) ==
  /\ tiers # <<>> /\ at[a] = <<0, 0>>
  /\ at' = [at EXCEPT ![a] = <<1, 1>>]
  /\ copied' = [copied EXCEPT ![a] = tiers]
  /\ moved' = [moved EXCEPT ![a] = {}]
  /\ UNCHANGED <<tiers, winner>>

ReturnAnnounce(a) ==
  at' = [at EXCEPT ![a] = <<0, 0>>] /\ copied' = [copied EXCEPT ![a] = <<>>]

\* The next tracker of the tier, the next tier, or an error.
TrackerFails(a) ==
  /\ at[a] # <<0, 0>>
  /\ LET i == at[a][1]
         j == at[a][2]
     IN  IF i = Len(copied[a]) /\ j = Len(copied[a][i])
           THEN ReturnAnnounce(a)
           ELSE /\ at' = [at EXCEPT ![a] = IF j < Len(copied[a][i])
                                             THEN <<i, j + 1>> ELSE <<i + 1, 1>>]
                /\ UNCHANGED copied
  /\ UNCHANGED <<tiers, moved, winner>>

\* Mutant: one entry too few is moved down, which loses a tracker.
promoteShort(t, j) ==
  IF j > 1 /\ j <= Len(t) THEN [[t EXCEPT ![2] = t[1]] EXCEPT ![1] = t[j]] ELSE t

\* The tracker at position j moves to the front, those before it move down.
promote(t, j) ==
  IF j > 1 /\ j <= Len(t) THEN <<t[j]>> \o RemoveAt(t, j) ELSE t

TrackerSucceeds(a) ==
  /\ at[a] # <<0, 0>>
  /\ LET i == at[a][1]
         j == at[a][2]
     IN  /\ tiers' = [tiers EXCEPT ![i] = promote(@, j)]
         /\ moved' = [b \in Callers |->
                        IF tiers'[i] # tiers[i] THEN moved[b] \cup {i} ELSE moved[b]]
         /\ winner' = [winner EXCEPT ![i] =
                         IF i \in moved[a] THEN <<>> ELSE <<copied[a][i][j]>>]
  /\ ReturnAnnounce(a)

TierNext ==
  \/ NewTieredAnnouncer
  \/ \E a \in Callers : StartAnnounce(a) \/ TrackerFails(a) \/ TrackerSucceeds(a)

TierSpec == TierInit /\ [][TierNext]_tierVars

-----------------------------------------------------------------------------
\* However announces overlap, no tracker is lost from a tier or repeated in it;
\* and the tracker that answered last leads its tier, provided no other announce
\* reordered the tier between the copy and the promotion, which goes by index.
TiersKept ==
  \A i \in DOMAIN tiers :
    /\ IsInjective(tiers[i]) /\ Range(tiers[i]) = Range(NonEmpty[i])
    /\ winner[i] # <<>> => Head(tiers[i]) = winner[i][1]
=============================================================================
