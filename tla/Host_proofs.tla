------------------------------ MODULE Host_proofs ------------------------------
(***************************************************************************)
(* Proofs about what runs on the host beside the services: the release     *)
(* that moves it from one configuration of keys to the next, and the       *)
(* hourly purge of the tenants whose retention has ended.  They share no   *)
(* state.                                                                  *)
(***************************************************************************)
EXTENDS KeyTransition, RetentionPurge, FiniteSetTheorems, TLAPS

-------------------------------------------------------------------------------
(* The release and its keys.                                                 *)

Host == [active: Revisions \cup {0}, source: Revisions \cup {0}, rotation: Side]
Configuration == [Families -> Family]
Box == [revision: Revisions \cup {0}, config: Configuration, up: BOOLEAN]

Announced == {"prepared", "created", "serving", "named", "linked", "rotated", "marked"}
Created == {"created", "serving", "named", "linked", "rotated", "marked", "committed"}
Named == {"named", "linked", "rotated", "marked"}
ReleaseSteps == {"none", "committed"} \cup Announced
Release == [step: ReleaseSteps, revision: Revisions \cup {0}, config: Configuration, undo: Host]

KeyTypes ==
    /\ host \in Host /\ box \in Box /\ rel \in Release
    /\ journal \in [from: Side, to: Side]
    /\ stored \in [Families -> SUBSET Sealed]

(* Whatever was sealed after the first commit is sealed with one of these    *)
(* keys.                                                                     *)
Kept(st, keys) == \A f \in Families : \A s \in st[f] : s.first = TRUE \/ keys[f][s.key.version] = s.key.key
OnlyFirst(st) == \A f \in Families : \A s \in st[f] : s.first = TRUE

BoxSide == SideOf(box.revision, box.config)

(* What holds of a transition whatever the markers are.                      *)
Proper(from, to) ==
    /\ Admissible(from, to) /\ to.revision \in Revisions /\ to.recorded = TRUE
    /\ \A f \in Families : to.states[f] # "retired"
    /\ from.recorded = TRUE => \A f \in Families : from.states[f] \in RotationState
    /\ from.revision # 0 /\ from.recorded = FALSE => \A f \in Families : from.states[f] = "legacy"

(* The markers that a host may have while a transition is announced.         *)
Between(h, from, to) ==
    /\ h.active \in {from.revision, to.revision}
    /\ h.rotation \in {to, IF from.recorded THEN from ELSE FreshSide}

JournalSound ==
    Journaled =>
        /\ Proper(journal.from, journal.to) /\ Between(host, journal.from, journal.to)
        /\ journal.from.revision = 0 => OnlyFirst(stored)
        /\ Kept(stored, journal.from.keys) /\ Kept(stored, journal.to.keys)
        /\ box.up = TRUE => BoxSide = journal.to

QuietSound ==
    ~Journaled =>
        /\ host.active = 0 => OnlyFirst(stored)
        /\ box.up = TRUE => /\ host.active = box.revision
                            /\ host.rotation.recorded = TRUE => host.rotation = BoxSide

RecordSound ==
    /\ host.rotation.recorded = FALSE => host.rotation = FreshSide
    /\ host.rotation.recorded = TRUE => /\ Kept(stored, host.rotation.keys)
                                        /\ \A f \in Families : host.rotation.states[f] \in RotationState

BoxSound ==
    /\ box.revision # 0 => Kept(stored, KeysOf(box.config))
    /\ box.up = TRUE => box.revision # 0 /\ assertReleaseConfigSeparation(box.config)
    /\ host.active # 0 => box.revision # 0

ReleaseSound ==
    /\ rel.step = "none" => Idle
    /\ rel.step \in Announced =>
         /\ Journaled /\ journal.to = Target /\ rel.revision \in Revisions
         /\ assertReleaseConfigSeparation(rel.config)
         /\ Between(rel.undo, journal.from, journal.to)
    /\ rel.step \in Created => box.revision = rel.revision /\ box.config = rel.config
    /\ rel.step \in {"prepared", "created"} => box.up = FALSE
    /\ rel.step \in Named => host.active = rel.revision
    /\ rel.step \in {"rotated", "marked"} => host.rotation = Target
    /\ rel.step = "committed" => ~Journaled

KeyInv == KeyTypes /\ JournalSound /\ QuietSound /\ RecordSound /\ BoxSound /\ ReleaseSound

-------------------------------------------------------------------------------
(* The constants.                                                            *)

LEMMA KeyConstants ==
  /\ Families \subseteq {"field", "proof", "approvalAttestation"} /\ NoKey \notin Materials
  /\ Targets \subseteq Configuration /\ MaxRevision \in Nat \ {0}
  /\ LegacyRevision \in Revisions /\ 0 \notin Revisions
  BY KeyAssumption DEF Configuration, LegacyRevision, Revisions

LEMMA KeysOfType ==
  ASSUME NEW c \in Configuration
  PROVE  /\ KeysOf(c) \in [Families -> [v1: Materials \cup {NoKey}, v2: Materials \cup {NoKey}]]
         /\ StatesOf(c) \in [Families -> RotationState]
         /\ \A f \in Families : /\ KeysOf(c)[f].v1 = c[f].v1 /\ KeysOf(c)[f].v2 = c[f].v2
                                /\ StatesOf(c)[f] = c[f].state
  BY DEF KeysOf, StatesOf, Configuration, Family

LEMMA SideOfType ==
  ASSUME NEW r \in Revisions \cup {0}, NEW c \in Configuration
  PROVE  /\ SideOf(r, c) \in Side /\ SideOf(r, c).recorded = TRUE /\ SideOf(r, c).revision = r
         /\ SideOf(r, c).keys = KeysOf(c) /\ SideOf(r, c).states = StatesOf(c)
  BY KeysOfType DEF SideOf, Side

LEMMA FreshSideType == FreshSide \in Side /\ FreshSide.recorded = FALSE /\ FreshSide.revision = 0
  BY DEF FreshSide, Side, NoKeys

LEMMA NoTransitionType == NoTransition \in [from: Side, to: Side] /\ NoTransition.to = FreshSide
  BY FreshSideType DEF NoTransition

LEMMA NoHostType == NoHost \in Host /\ NoHost.active = 0 /\ NoHost.rotation = FreshSide
  BY FreshSideType DEF NoHost, Host

LEMMA NoBoxType == NoBox \in Box /\ NoBox.revision = 0 /\ NoBox.up = FALSE
  <1>1. NoConfiguration \in Configuration
    BY DEF NoConfiguration, Configuration, Family, RotationState
  <1> QED BY <1>1 DEF NoBox, Box

LEMMA NoReleaseType == NoRelease \in Release /\ NoRelease.step = "none"
  <1>1. NoConfiguration \in Configuration
    BY DEF NoConfiguration, Configuration, Family, RotationState
  <1> QED BY <1>1, NoHostType DEF NoRelease, Release, ReleaseSteps

(* An announced transition goes to a recorded side, so that it is not none.  *)
LEMMA AnnouncedIs ==
  ASSUME NEW from, NEW r \in Revisions \cup {0}, NEW c \in Configuration
  PROVE  [from |-> from, to |-> SideOf(r, c)] # NoTransition
  <1>1. SideOf(r, c) # FreshSide
    BY SideOfType, FreshSideType
  <1>2. [from |-> from, to |-> SideOf(r, c)].to = SideOf(r, c)
    OBVIOUS
  <1> QED BY <1>1, <1>2, NoTransitionType

-------------------------------------------------------------------------------
(* What the checks before a release are worth.                               *)

(* A target that passes assert_union keeps what was kept.                    *)
LEMMA UnionKeeps ==
  ASSUME NEW st \in [Families -> SUBSET Sealed], NEW from \in Side, NEW to \in Side,
         assert_union(from.keys, to.keys), Kept(st, from.keys)
  PROVE  Kept(st, to.keys)
  <1> SUFFICES ASSUME NEW f \in Families, NEW s \in st[f], s.first # TRUE
               PROVE  to.keys[f][s.key.version] = s.key.key
    BY DEF Kept
  <1>1. s.key.version \in {"v1", "v2"} /\ s.key.key \in Materials
    BY DEF Sealed
  <1>2. from.keys[f][s.key.version] = s.key.key
    BY DEF Kept
  <1> QED BY <1>1, <1>2, KeyConstants DEF assert_union

LEMMA OnlyFirstKept ==
  ASSUME NEW st, NEW keys, OnlyFirst(st)
  PROVE  Kept(st, keys)
  BY DEF OnlyFirst, Kept

(* The key that a target seals with is one that the side before it accepts,  *)
(* unless there is no side before it: the states that a rotation may come    *)
(* from have it.                                                             *)
LEMMA SealedBefore ==
  ASSUME NEW from \in Side, NEW r \in Revisions, NEW c \in Configuration, Proper(from, SideOf(r, c)),
         assertReleaseConfigSeparation(c), from.revision # 0, NEW f \in Families
  PROVE  /\ from.keys[f][c[f].active] = KeysOf(c)[f][c[f].active]
         /\ KeysOf(c)[f][c[f].active] \in Materials
  <1> DEFINE to == SideOf(r, c)
  <1>1. /\ to.keys = KeysOf(c) /\ to.states = StatesOf(c)
        /\ KeysOf(c)[f].v1 = c[f].v1 /\ KeysOf(c)[f].v2 = c[f].v2 /\ StatesOf(c)[f] = c[f].state
    BY SideOfType, KeysOfType
  <1>2. /\ c[f].state \in RotationState /\ c[f].active \in {"v1", "v2"}
        /\ c[f].v1 \in Materials \cup {NoKey} /\ c[f].v2 \in Materials \cup {NoKey}
    BY DEF Configuration, Family
  <1>3. /\ c[f].active = (IF c[f].state \in {"active", "retired"} THEN "v2" ELSE "v1")
        /\ (c[f].v1 = NoKey) <=> (c[f].state = "retired")
        /\ (c[f].v2 = NoKey) <=> (c[f].state = "legacy")
    BY DEF assertReleaseConfigSeparation, applicationKeyMaterialStateIsValid
  <1>4. c[f].state # "retired"
    BY <1>1 DEF Proper
  <1>5. KeysOf(c)[f][c[f].active] \in Materials
    BY <1>1, <1>2, <1>3, <1>4
  <1>6. /\ (from.keys[f].v1 = NoKey) <=> (from.states[f] = "retired")
        /\ (from.keys[f].v2 = NoKey) <=> (from.states[f] = "legacy")
    BY DEF Proper, Admissible, validate_side
  <1>7. from.keys[f][c[f].active] # NoKey
    <2>1. CASE from.recorded = TRUE
      <3>1. from.states[f] \in RotationState /\ c[f].state \in ALLOWED_TRANSITIONS[from.states[f]]
        BY <1>1, <2>1 DEF Proper, Admissible, checkApplicationKeyRotationReleaseTransition,
                          assertApplicationKeyRotationTransition
      <3>2. /\ from.states[f] # "retired"
            /\ c[f].active = "v2" => from.states[f] # "legacy"
        BY <1>2, <1>3, <1>4, <3>1 DEF ALLOWED_TRANSITIONS, RotationState
      <3> QED BY <1>2, <1>6, <3>2
    <2>2. CASE from.recorded = FALSE
      <3>1. from.states[f] = "legacy" /\ c[f].state \in {"legacy", "staged"}
        BY <1>1, <2>2 DEF Proper, Admissible, checkApplicationKeyRotationReleaseTransition,
                          assertApplicationKeyRotationTransition, ALLOWED_INITIAL_STATES
      <3> QED BY <1>3, <1>6, <3>1
    <2> QED BY <2>1, <2>2 DEF Side
  <1>8. from.keys[f][c[f].active] # NoKey => KeysOf(c)[f][c[f].active] = from.keys[f][c[f].active]
    BY <1>1, <1>2 DEF Proper, Admissible, assert_union
  <1> QED BY <1>5, <1>7, <1>8

(* What a keyring of a family seals with and what it accepts.                *)
LEMMA RingIs ==
  ASSUME NEW c \in Configuration, NEW f \in Families
  PROVE  /\ Keyrings(c)[f] = Ring(c[f])
         /\ Ring(c[f]).active = [version |-> c[f].active, key |-> KeysOf(c)[f][c[f].active]]
         /\ \A k \in [version: {"v1", "v2"}, key: Materials] :
              k \in Ring(c[f]).accepts <=> KeysOf(c)[f][k.version] = k.key
  <1>1. Keyrings(c)[f] = Ring(c[f])
    BY KeyConstants DEF Keyrings, createFieldEncryptionKeyring, createRefundProofKeyring,
                        createApprovalAttestationKeyring
  <1>2. KeysOf(c)[f] = [v1 |-> c[f].v1, v2 |-> c[f].v2] /\ c[f].active \in {"v1", "v2"}
    BY DEF KeysOf, Configuration, Family
  <1>3. Ring(c[f]).active = [version |-> c[f].active, key |-> KeysOf(c)[f][c[f].active]]
    BY <1>2 DEF Ring
  <1>4. ASSUME NEW k \in [version: {"v1", "v2"}, key: Materials]
        PROVE  k \in Ring(c[f]).accepts <=> KeysOf(c)[f][k.version] = k.key
    <2>1. k = [version |-> k.version, key |-> k.key] /\ k.version \in {"v1", "v2"} /\ k.key # NoKey
      BY KeyConstants
    <2>2. k \in Ring(c[f]).accepts <=>
            k \in {[version |-> "v1", key |-> c[f].v1], [version |-> "v2", key |-> c[f].v2]}
      BY <2>1 DEF Ring
    <2>3. k = [version |-> "v1", key |-> c[f].v1] <=> k.version = "v1" /\ k.key = c[f].v1
      BY <2>1
    <2>4. k = [version |-> "v2", key |-> c[f].v2] <=> k.version = "v2" /\ k.key = c[f].v2
      BY <2>1
    <2>5. k.version = "v1" => KeysOf(c)[f][k.version] = c[f].v1
      BY <1>2
    <2>6. k.version = "v2" => KeysOf(c)[f][k.version] = c[f].v2
      BY <1>2
    <2> QED BY <2>1, <2>2, <2>3, <2>4, <2>5, <2>6
  <1> QED BY <1>1, <1>3, <1>4

-------------------------------------------------------------------------------
(* The invariant.                                                            *)

LEMMA KeyFields ==
  ASSUME KeyTypes
  PROVE  /\ host.active \in Revisions \cup {0} /\ host.rotation \in Side /\ host.rotation.recorded \in BOOLEAN
         /\ box.revision \in Revisions \cup {0} /\ box.config \in Configuration /\ box.up \in BOOLEAN
         /\ rel.step \in ReleaseSteps /\ rel.revision \in Revisions \cup {0} /\ rel.config \in Configuration
         /\ rel.undo \in Host
         /\ journal.from \in Side /\ journal.to \in Side /\ journal.from.recorded \in BOOLEAN
         /\ stored \in [Families -> SUBSET Sealed]
  <1>1. \A z \in Side : z.recorded \in BOOLEAN
    BY DEF Side
  <1>2. host.active \in Revisions \cup {0} /\ host.rotation \in Side
    BY DEF KeyTypes, Host
  <1>3. box.revision \in Revisions \cup {0} /\ box.config \in Configuration /\ box.up \in BOOLEAN
    BY DEF KeyTypes, Box
  <1>4. /\ rel.step \in ReleaseSteps /\ rel.revision \in Revisions \cup {0} /\ rel.config \in Configuration
        /\ rel.undo \in Host
    BY DEF KeyTypes, Release
  <1>5. journal.from \in Side /\ journal.to \in Side
    BY DEF KeyTypes
  <1> QED BY <1>1, <1>2, <1>3, <1>4, <1>5 DEF KeyTypes

LEMMA NothingStored ==
  ASSUME stored = [f \in Families |-> {}], NEW keys
  PROVE  OnlyFirst(stored) /\ Kept(stored, keys)
  BY DEF OnlyFirst, Kept

LEMMA InitKeyInv == KeyInit => KeyInv
  <1> SUFFICES ASSUME KeyInit PROVE KeyInv
    OBVIOUS
  <1>1. journal = NoTransition /\ rel = NoRelease /\ stored = [f \in Families |-> {}]
    BY DEF KeyInit
  <1>2. ~Journaled /\ Idle /\ rel.step = "none" /\ OnlyFirst(stored)
    BY <1>1, NoReleaseType, NothingStored DEF Journaled, Idle
  <1>3. ReleaseSound /\ JournalSound
    BY <1>2 DEF ReleaseSound, JournalSound, Announced, Created, Named
  <1>4. CASE host = NoHost /\ box = NoBox
    <2>1. KeyTypes
      BY <1>1, <1>4, NoHostType, NoBoxType, NoReleaseType, NoTransitionType DEF KeyTypes
    <2>2. QuietSound /\ RecordSound /\ BoxSound
      BY <1>2, <1>4, NoHostType, NoBoxType, FreshSideType DEF QuietSound, RecordSound, BoxSound
    <2> QED BY <1>3, <2>1, <2>2 DEF KeyInv
  <1>5. ASSUME NEW c \in Targets, assertReleaseConfigSeparation(c),
               box = [revision |-> LegacyRevision, config |-> c, up |-> TRUE],
               NEW side \in {FreshSide, SideOf(LegacyRevision, c)},
               host = [active |-> LegacyRevision, source |-> LegacyRevision, rotation |-> side]
        PROVE  KeyInv
    <2>1. c \in Configuration /\ LegacyRevision \in Revisions /\ LegacyRevision # 0
      BY KeyConstants
    <2>2. side \in Side
      BY <1>5, <2>1, FreshSideType, SideOfType
    <2>3. box \in Box /\ box.revision = LegacyRevision /\ box.config = c /\ box.up = TRUE
      BY <1>5, <2>1 DEF Box
    <2>4. host \in Host /\ host.active = LegacyRevision /\ host.rotation = side
      BY <1>5, <2>1, <2>2 DEF Host
    <2>5. KeyTypes
      BY <1>1, <2>3, <2>4, NoReleaseType, NoTransitionType DEF KeyTypes
    <2>6. QuietSound
      BY <1>2, <1>5, <2>1, <2>3, <2>4, FreshSideType DEF QuietSound, BoxSide
    <2>7. RecordSound
      <3> DEFINE z == SideOf(LegacyRevision, c)
      <3>1. z.recorded = TRUE /\ \A f \in Families : z.states[f] \in RotationState
        BY <2>1, SideOfType, KeysOfType
      <3> QED BY <1>1, <1>5, <2>4, <3>1, FreshSideType, NothingStored DEF RecordSound
    <2>8. BoxSound
      BY <1>1, <1>5, <2>1, <2>3, NothingStored DEF BoxSound
    <2> QED BY <1>3, <2>5, <2>6, <2>7, <2>8 DEF KeyInv
  <1> QED BY <1>4, <1>5 DEF KeyInit

LEMMA ObservedIs ==
  ASSUME KeyInv, ~Journaled, Settled
  PROVE  /\ ObservedSide \in Side
         /\ ObservedSide.revision = host.active
         /\ host.rotation = IF ObservedSide.recorded THEN ObservedSide ELSE FreshSide
         /\ Kept(stored, ObservedSide.keys)
         /\ ObservedSide.recorded = TRUE => \A f \in Families : ObservedSide.states[f] \in RotationState
         /\ ObservedSide.revision # 0 /\ ObservedSide.recorded = FALSE =>
              \A f \in Families : ObservedSide.states[f] = "legacy"
  <1>1. KeyTypes /\ RecordSound /\ QuietSound /\ BoxSound
    BY DEF KeyInv
  <1>2. CASE host.active = 0
    <2>1. ObservedSide = FreshSide /\ OnlyFirst(stored) /\ host.rotation.recorded = FALSE
      BY <1>1, <1>2, KeyFields DEF ObservedSide, QuietSound, Settled
    <2> QED BY <1>1, <1>2, <2>1, FreshSideType, OnlyFirstKept DEF RecordSound
  <1>3. CASE host.active # 0
    <2>1. ObservedSide = [revision |-> host.active, recorded |-> host.rotation.recorded,
                          states |-> IF host.rotation.recorded THEN host.rotation.states
                                     ELSE [f \in Families |-> "legacy"],
                          keys |-> KeysOf(box.config)]
      BY <1>3 DEF ObservedSide
    <2>2. Kept(stored, KeysOf(box.config))
      BY <1>1, <1>3 DEF BoxSound
    <2>3. KeysOf(box.config) \in [Families -> [v1: Materials \cup {NoKey}, v2: Materials \cup {NoKey}]]
      BY <1>1, KeyFields, KeysOfType
    <2>4. CASE host.rotation.recorded = TRUE
      <3>1. ObservedSide = [revision |-> host.active, recorded |-> TRUE, states |-> host.rotation.states,
                            keys |-> KeysOf(box.config)]
        BY <2>1, <2>4
      <3>2. host.rotation.revision = host.active /\ KeysOf(box.config) = host.rotation.keys
        BY <2>4 DEF Settled, MarkersAgree
      <3>3. host.rotation = [revision |-> host.rotation.revision, recorded |-> host.rotation.recorded,
                             states |-> host.rotation.states, keys |-> host.rotation.keys]
        BY <1>1, KeyFields DEF Side
      <3>4. ObservedSide = host.rotation
        BY <2>4, <3>1, <3>2, <3>3
      <3> QED BY <1>1, <2>2, <2>4, <3>2, <3>4, KeyFields DEF RecordSound
    <2>5. CASE host.rotation.recorded = FALSE
      <3>1. ObservedSide = [revision |-> host.active, recorded |-> FALSE, states |-> [f \in Families |-> "legacy"],
                            keys |-> KeysOf(box.config)]
        BY <2>1, <2>5
      <3>2. ObservedSide \in Side
        BY <1>1, <2>3, <3>1, KeyFields DEF Side, RotationState
      <3> QED BY <1>1, <2>2, <2>5, <3>1, <3>2 DEF RecordSound
    <2> QED BY <1>1, <2>4, <2>5, KeyFields
  <1> QED BY <1>2, <1>3

(* The checks pass: what the host accepted so far is in the target.          *)
LEMMA PrepareKeeps ==
  ASSUME KeyInv, NEW r \in Revisions, NEW c \in Targets, prepare(r, c)
  PROVE  KeyInv'
  <1> DEFINE to == SideOf(r, c)
             from == IF Journaled THEN journal.from ELSE ObservedSide
  <1>1. /\ KeyTypes /\ JournalSound /\ QuietSound /\ RecordSound /\ BoxSound /\ c \in Configuration
        /\ r \in Revisions \cup {0} /\ r # 0
    BY KeyConstants DEF KeyInv
  <1>2. /\ assertReleaseConfigSeparation(c) /\ \A f \in Families : c[f].state # "retired"
        /\ IF Journaled THEN Resumable(to) ELSE Settled
        /\ Admissible(from, to)
        /\ journal' = [from |-> from, to |-> to]
        /\ box' = [box EXCEPT !.up = FALSE]
        /\ rel' = [step |-> "prepared", revision |-> r, config |-> c, undo |-> host]
        /\ UNCHANGED <<host, marker, stored>>
    BY DEF prepare
  <1>3. /\ to \in Side /\ to.recorded = TRUE /\ to.revision = r /\ to.keys = KeysOf(c)
        /\ \A f \in Families : to.states[f] = c[f].state /\ to.states[f] \in RotationState
    <2>1. to \in Side /\ to.recorded = TRUE /\ to.revision = r /\ to.keys = KeysOf(c) /\ to.states = StatesOf(c)
      BY <1>1, SideOfType
    <2>2. StatesOf(c) \in [Families -> RotationState] /\ \A f \in Families : StatesOf(c)[f] = c[f].state
      BY <1>1, KeysOfType
    <2> HIDE DEF to
    <2> QED BY <2>1, <2>2
  <1>4. /\ from \in Side /\ Between(host, from, to) /\ Kept(stored, from.keys)
        /\ from.revision = 0 => OnlyFirst(stored)
        /\ from.recorded = TRUE => \A f \in Families : from.states[f] \in RotationState
        /\ from.revision # 0 /\ from.recorded = FALSE => \A f \in Families : from.states[f] = "legacy"
    <2>1. CASE Journaled
      <3>1. from = journal.from /\ journal.to = to
        BY <1>2, <2>1 DEF Resumable
      <3> QED BY <1>1, <2>1, <3>1, KeyFields DEF JournalSound, Proper
    <2>2. CASE ~Journaled
      <3>1. from = ObservedSide /\ Settled
        BY <1>2, <2>2
      <3> HIDE DEF from, to
      <3>2. Between(host, from, to)
        BY <2>2, <3>1, ObservedIs DEF Between
      <3>3. from.revision = 0 => OnlyFirst(stored)
        BY <1>1, <2>2, <3>1, ObservedIs DEF QuietSound
      <3> QED BY <2>2, <3>1, <3>2, <3>3, ObservedIs
    <2> QED BY <2>1, <2>2
  <1> HIDE DEF from
  <1>5. Proper(from, to)
    BY <1>2, <1>3, <1>4 DEF Proper
  <1>6. Kept(stored, to.keys)
    BY <1>1, <1>3, <1>4, <1>5, UnionKeeps, KeyFields DEF Proper, Admissible
  <1>7. /\ rel' \in Release /\ rel'.step = "prepared" /\ rel'.revision = r /\ rel'.config = c /\ rel'.undo = host
    BY <1>1, <1>2 DEF Release, ReleaseSteps, Announced, KeyTypes
  <1>8. /\ box' \in Box /\ box'.up = FALSE /\ box'.revision = box.revision /\ box'.config = box.config
    BY <1>1, <1>2 DEF Box, KeyTypes
  <1> HIDE DEF to
  <1>9. journal' \in [from: Side, to: Side] /\ journal'.from = from /\ journal'.to = to
    BY <1>2, <1>3, <1>4
  <1>10. Journaled'
    BY <1>1, <1>2, AnnouncedIs DEF Journaled, to
  <1>11. KeyTypes'
    BY <1>1, <1>2, <1>7, <1>8, <1>9 DEF KeyTypes
  <1>12. JournalSound' /\ QuietSound'
    BY <1>2, <1>4, <1>5, <1>6, <1>8, <1>9, <1>10 DEF JournalSound, QuietSound
  <1>13. RecordSound' /\ BoxSound'
    BY <1>1, <1>2, <1>8 DEF RecordSound, BoxSound
  <1>14. ReleaseSound'
    <2>1. Target' = to
      BY <1>7 DEF Target, to
    <2> QED BY <1>2, <1>4, <1>7, <1>8, <1>9, <1>10, <2>1 DEF ReleaseSound, Announced, Created, Named
  <1> QED BY <1>11, <1>12, <1>13, <1>14 DEF KeyInv

(* A step of the release changes nothing of it but where it stands.          *)
LEMMA StepIs ==
  ASSUME KeyTypes, NEW a \in ReleaseSteps, NEW b \in ReleaseSteps, StepsTo(a, b)
  PROVE  /\ rel.step = a /\ rel' \in Release /\ rel'.step = b /\ rel'.revision = rel.revision
         /\ rel'.config = rel.config /\ rel'.undo = rel.undo /\ Target' = Target
  <1>1. /\ rel.step = a /\ rel' \in Release /\ rel'.step = b /\ rel'.revision = rel.revision
        /\ rel'.config = rel.config /\ rel'.undo = rel.undo
    BY DEF StepsTo, KeyTypes, Release
  <1> QED BY <1>1 DEF Target

LEMMA CreateKeeps ==
  ASSUME KeyInv, createCandidates
  PROVE  KeyInv'
  <1>1. KeyTypes /\ JournalSound /\ QuietSound /\ RecordSound /\ BoxSound /\ ReleaseSound
    BY DEF KeyInv
  <1>2. /\ StepsTo("prepared", "created") /\ UNCHANGED <<host, journal, marker, stored>>
        /\ box' = [revision |-> rel.revision, config |-> rel.config, up |-> FALSE]
    BY DEF createCandidates
  <1>3. /\ rel.step = "prepared" /\ rel' \in Release /\ rel'.step = "created" /\ rel'.revision = rel.revision
        /\ rel'.config = rel.config /\ rel'.undo = rel.undo /\ Target' = Target
    BY <1>1, <1>2, StepIs DEF ReleaseSteps, Announced
  <1>4. /\ Journaled /\ journal.to = Target /\ rel.revision \in Revisions /\ assertReleaseConfigSeparation(rel.config)
        /\ Between(rel.undo, journal.from, journal.to)
    BY <1>1, <1>3 DEF ReleaseSound, Announced
  <1>5. box' \in Box /\ box'.revision = rel.revision /\ box'.config = rel.config /\ box'.up = FALSE
    BY <1>1, <1>2, KeyFields DEF Box
  <1>6. KeyTypes'
    BY <1>1, <1>2, <1>3, <1>5 DEF KeyTypes
  <1>7. Journaled' /\ JournalSound' /\ QuietSound'
    BY <1>1, <1>2, <1>4, <1>5 DEF JournalSound, QuietSound, Journaled
  <1>8. RecordSound'
    BY <1>1, <1>2 DEF RecordSound
  <1>9. BoxSound'
    <2>1. Kept(stored, KeysOf(rel.config))
      <3>1. rel.config \in Configuration /\ rel.revision \in Revisions \cup {0}
        BY <1>1, KeyFields
      <3>2. Target.keys = KeysOf(rel.config)
        BY <3>1, SideOfType DEF Target
      <3>3. Kept(stored, Target.keys)
        BY <1>1, <1>4 DEF JournalSound
      <3> QED BY <3>2, <3>3
    <2>2. rel.revision # 0
      BY <1>4, KeyConstants
    <2> QED BY <1>2, <1>5, <2>1, <2>2 DEF BoxSound
  <1>10. ReleaseSound'
    BY <1>2, <1>3, <1>4, <1>5, <1>7 DEF ReleaseSound, Announced, Created, Named
  <1> QED BY <1>6, <1>7, <1>8, <1>9, <1>10 DEF KeyInv

LEMMA StartKeeps ==
  ASSUME KeyInv, startCandidates
  PROVE  KeyInv'
  <1>1. KeyTypes /\ JournalSound /\ QuietSound /\ RecordSound /\ BoxSound /\ ReleaseSound
    BY DEF KeyInv
  <1>2. /\ StepsTo("created", "serving") /\ UNCHANGED <<host, journal, marker, stored>>
        /\ box' = [box EXCEPT !.up = TRUE]
    BY DEF startCandidates
  <1>3. /\ rel.step = "created" /\ rel' \in Release /\ rel'.step = "serving" /\ rel'.revision = rel.revision
        /\ rel'.config = rel.config /\ rel'.undo = rel.undo /\ Target' = Target
    BY <1>1, <1>2, StepIs DEF ReleaseSteps, Announced
  <1>4. /\ Journaled /\ journal.to = Target /\ rel.revision \in Revisions /\ assertReleaseConfigSeparation(rel.config)
        /\ Between(rel.undo, journal.from, journal.to) /\ box.revision = rel.revision /\ box.config = rel.config
    BY <1>1, <1>3 DEF ReleaseSound, Announced, Created
  <1>5. box' \in Box /\ box'.revision = box.revision /\ box'.config = box.config /\ box'.up = TRUE
    BY <1>1, <1>2 DEF Box, KeyTypes
  <1>6. KeyTypes'
    BY <1>1, <1>2, <1>3, <1>5 DEF KeyTypes
  <1>7. Journaled' /\ BoxSide' = journal.to
    BY <1>2, <1>4, <1>5 DEF Journaled, BoxSide, Target
  <1>8. JournalSound' /\ QuietSound'
    BY <1>1, <1>2, <1>4, <1>7 DEF JournalSound, QuietSound
  <1>9. RecordSound'
    BY <1>1, <1>2 DEF RecordSound
  <1>10. BoxSound'
    BY <1>1, <1>2, <1>4, <1>5, KeyConstants DEF BoxSound
  <1>11. ReleaseSound'
    BY <1>2, <1>3, <1>4, <1>5, <1>7 DEF ReleaseSound, Announced, Created, Named
  <1> QED BY <1>6, <1>8, <1>9, <1>10, <1>11 DEF KeyInv

(* The markers are written in order: the host stays between the two sides.   *)
LEMMA MarkerWritten ==
  ASSUME KeyInv, NEW a \in Announced, NEW b \in Announced, StepsTo(a, b), a \in Created, b \in Created,
         b # "created", UNCHANGED <<box, journal, stored>>, host' \in Host,
         host'.active = host.active \/ host'.active = rel.revision,
         host'.rotation = host.rotation \/ host'.rotation = Target,
         b \in Named => host'.active = rel.revision,
         b \in {"rotated", "marked"} => host'.rotation = Target
  PROVE  KeyInv'
  <1>1. KeyTypes /\ JournalSound /\ QuietSound /\ RecordSound /\ BoxSound /\ ReleaseSound
    BY DEF KeyInv
  <1>2. /\ rel.step = a /\ rel' \in Release /\ rel'.step = b /\ rel'.revision = rel.revision
        /\ rel'.config = rel.config /\ rel'.undo = rel.undo /\ Target' = Target
    BY <1>1, StepIs DEF ReleaseSteps
  <1>3. /\ Journaled /\ journal.to = Target /\ rel.revision \in Revisions /\ assertReleaseConfigSeparation(rel.config)
        /\ Between(rel.undo, journal.from, journal.to) /\ box.revision = rel.revision /\ box.config = rel.config
    BY <1>1, <1>2 DEF ReleaseSound
  <1>4. /\ rel.config \in Configuration /\ rel.revision \in Revisions \cup {0} /\ host.rotation \in Side
        /\ host.rotation.recorded \in BOOLEAN
    BY <1>1, KeyFields
  <1>5. /\ Target \in Side /\ Target.recorded = TRUE /\ Target.revision = rel.revision
        /\ Target.states = StatesOf(rel.config)
    BY <1>4, SideOfType DEF Target
  <1>6. Proper(journal.from, journal.to) /\ Between(host, journal.from, journal.to) /\ Kept(stored, journal.to.keys)
    BY <1>1, <1>3 DEF JournalSound
  <1>7. KeyTypes'
    BY <1>1, <1>2 DEF KeyTypes
  <1>8. Between(host', journal.from, journal.to)
    BY <1>3, <1>5, <1>6 DEF Between
  <1>9. Journaled' /\ BoxSide' = BoxSide
    BY <1>3 DEF Journaled, BoxSide
  <1>10. JournalSound' /\ QuietSound'
    BY <1>1, <1>3, <1>8, <1>9 DEF JournalSound, QuietSound
  <1>11. RecordSound'
    <2>1. CASE host'.rotation = host.rotation
      BY <1>1, <2>1 DEF RecordSound
    <2>2. CASE host'.rotation = Target
      <3>1. \A f \in Families : StatesOf(rel.config)[f] \in RotationState
        BY <1>4, KeysOfType
      <3>2. Kept(stored, Target.keys)
        BY <1>3, <1>6
      <3> QED BY <1>5, <2>2, <3>1, <3>2 DEF RecordSound
    <2> QED BY <2>1, <2>2
  <1>12. BoxSound'
    BY <1>1, <1>3, KeyConstants DEF BoxSound
  <1>13. ReleaseSound'
    BY <1>2, <1>3, <1>9 DEF ReleaseSound, Announced, Created, Named
  <1> QED BY <1>7, <1>10, <1>11, <1>12, <1>13 DEF KeyInv

LEMMA MarkersKeep ==
  ASSUME KeyInv, replaceActiveRevision \/ replaceCurrentSource \/ replaceRotationState \/ writeCommitMarker
  PROVE  KeyInv'
  <1>1. /\ KeyTypes /\ ReleaseSound /\ host \in Host /\ rel.revision \in Revisions \cup {0}
        /\ rel.config \in Configuration
    BY KeyFields DEF KeyInv, KeyTypes
  <1>2. Target \in Side
    BY <1>1, SideOfType DEF Target
  <1>3. CASE replaceActiveRevision
    <2>1. StepsTo("serving", "named") /\ host' = [host EXCEPT !.active = rel.revision] /\ UNCHANGED <<box, journal, stored>>
      BY <1>3 DEF replaceActiveRevision
    <2>2. host' \in Host /\ host'.active = rel.revision /\ host'.rotation = host.rotation
      BY <1>1, <2>1 DEF Host
    <2> QED BY <2>1, <2>2, MarkerWritten DEF Announced, Created
  <1>4. CASE replaceCurrentSource
    <2>1. StepsTo("named", "linked") /\ host' = [host EXCEPT !.source = rel.revision] /\ UNCHANGED <<box, journal, stored>>
      BY <1>4 DEF replaceCurrentSource
    <2>2. host' \in Host /\ host'.active = host.active /\ host'.rotation = host.rotation
      BY <1>1, <2>1 DEF Host
    <2>3. host.active = rel.revision
      BY <1>1, <2>1 DEF ReleaseSound, StepsTo, Named
    <2> QED BY <2>1, <2>2, <2>3, MarkerWritten DEF Announced, Created
  <1>5. CASE replaceRotationState
    <2>1. StepsTo("linked", "rotated") /\ host' = [host EXCEPT !.rotation = Target] /\ UNCHANGED <<box, journal, stored>>
      BY <1>5 DEF replaceRotationState
    <2>2. host' \in Host /\ host'.active = host.active /\ host'.rotation = Target
      BY <1>1, <1>2, <2>1 DEF Host
    <2>3. host.active = rel.revision
      BY <1>1, <2>1 DEF ReleaseSound, StepsTo, Named
    <2> QED BY <2>1, <2>2, <2>3, MarkerWritten DEF Announced, Created
  <1>6. CASE writeCommitMarker
    <2>1. StepsTo("rotated", "marked") /\ host' = host /\ UNCHANGED <<box, journal, stored>>
      BY <1>6 DEF writeCommitMarker
    <2>2. host.active = rel.revision /\ host.rotation = Target
      BY <1>1, <2>1 DEF ReleaseSound, StepsTo, Named
    <2> QED BY <1>1, <2>1, <2>2, MarkerWritten DEF Announced, Created
  <1> QED BY <1>3, <1>4, <1>5, <1>6

(* The commit: what serves is what the record names.                         *)
LEMMA CompleteKeeps ==
  ASSUME KeyInv, complete
  PROVE  KeyInv'
  <1>1. KeyTypes /\ JournalSound /\ QuietSound /\ RecordSound /\ BoxSound /\ ReleaseSound
    BY DEF KeyInv
  <1>2. StepsTo("marked", "committed") /\ journal' = NoTransition /\ UNCHANGED <<host, box, marker, stored>>
    BY DEF complete
  <1>3. /\ rel.step = "marked" /\ rel' \in Release /\ rel'.step = "committed" /\ rel'.revision = rel.revision
        /\ rel'.config = rel.config
    BY <1>1, <1>2, StepIs DEF ReleaseSteps, Announced
  <1>4. /\ box.revision = rel.revision /\ box.config = rel.config /\ host.active = rel.revision
        /\ host.rotation = Target /\ rel.revision \in Revisions
    BY <1>1, <1>3 DEF ReleaseSound, Announced, Created, Named
  <1>5. KeyTypes' /\ ~Journaled'
    BY <1>1, <1>2, <1>3, NoTransitionType DEF KeyTypes, Journaled
  <1>6. JournalSound' /\ QuietSound'
    BY <1>2, <1>4, <1>5, KeyConstants DEF JournalSound, QuietSound, BoxSide, Target
  <1>7. RecordSound' /\ BoxSound'
    BY <1>1, <1>2 DEF RecordSound, BoxSound
  <1>8. ReleaseSound'
    BY <1>2, <1>3, <1>4, <1>5 DEF ReleaseSound, Announced, Created, Named
  <1> QED BY <1>5, <1>6, <1>7, <1>8 DEF KeyInv

(* A release that is over says nothing more about the host.                  *)
LEMMA OverIs ==
  ASSUME rel' = NoRelease
  PROVE  rel' \in Release /\ ReleaseSound'
  BY NoReleaseType DEF ReleaseSound, Idle, Announced, Created, Named

(* A release ends, with the containers as they are or stopped.               *)
LEMMA EndKeeps ==
  ASSUME KeyInv, rel' = NoRelease, UNCHANGED <<host, journal, stored>>,
         box' \in {box, [box EXCEPT !.up = FALSE]}
  PROVE  KeyInv'
  <1>1. KeyTypes /\ JournalSound /\ QuietSound /\ RecordSound /\ BoxSound
    BY DEF KeyInv
  <1>2. /\ box' \in Box /\ box'.revision = box.revision /\ box'.config = box.config
        /\ box'.up = TRUE => box.up = TRUE
    BY <1>1 DEF Box, KeyTypes
  <1>3. KeyTypes'
    BY <1>1, <1>2, OverIs DEF KeyTypes
  <1>4. JournalSound'
    BY <1>1, <1>2 DEF JournalSound, Journaled, BoxSide
  <1>5. QuietSound'
    BY <1>1, <1>2 DEF QuietSound, Journaled, BoxSide
  <1>6. RecordSound' /\ BoxSound'
    BY <1>1, <1>2 DEF RecordSound, BoxSound
  <1> QED BY <1>3, <1>4, <1>5, <1>6, OverIs DEF KeyInv

LEMMA PromotionKeeps ==
  ASSUME KeyInv, promotionComplete
  PROVE  KeyInv'
  BY EndKeeps DEF promotionComplete

LEMMA KilledKeeps ==
  ASSUME KeyInv, releaseIsKilled
  PROVE  KeyInv'
  BY EndKeeps DEF releaseIsKilled

LEMMA FenceKeeps ==
  ASSUME KeyInv, enter_emergency_fence
  PROVE  KeyInv'
  BY EndKeeps DEF enter_emergency_fence, Idle

(* The restored markers are of one of the two sides, each for itself.        *)
LEMMA RestoredIs ==
  ASSUME KeyTypes, NEW n \in 0..3
  PROVE  /\ Restored(n) \in Host
         /\ Restored(n).active \in {host.active, rel.undo.active}
         /\ Restored(n).rotation \in {host.rotation, rel.undo.rotation}
  <1>1. host \in Host /\ rel.undo \in Host
    BY KeyFields DEF KeyTypes
  <1>2. DOMAIN host = {"active", "source", "rotation"}
    BY <1>1 DEF Host
  <1> DEFINE back(m) == \E i \in 1..n : Written[i] = m
             h == [m \in {"active", "source", "rotation"} |-> IF back(m) THEN rel.undo[m] ELSE host[m]]
  <1>3. Restored(n) = h
    BY <1>2 DEF Restored
  <1> HIDE DEF back
  <1>4. /\ h["active"] \in {host["active"], rel.undo["active"]}
        /\ h["source"] \in {host["source"], rel.undo["source"]}
        /\ h["rotation"] \in {host["rotation"], rel.undo["rotation"]}
    OBVIOUS
  <1>5. h = [active |-> h["active"], source |-> h["source"], rotation |-> h["rotation"]]
    OBVIOUS
  <1> DEFINE x == h["active"] y == h["source"] z == h["rotation"]
  <1>6. x \in Revisions \cup {0} /\ y \in Revisions \cup {0} /\ z \in Side
    BY <1>1, <1>4 DEF Host
  <1>7. h = [active |-> x, source |-> y, rotation |-> z]
    BY <1>5
  <1> HIDE DEF h, x, y, z
  <1>8. h \in Host /\ h.active = x /\ h.rotation = z
    BY <1>6, <1>7 DEF Host
  <1> QED BY <1>3, <1>4, <1>8 DEF x, z

(* A release that fails before it is committed leaves each marker on one of  *)
(* its sides; if its journal goes, nothing serves.                           *)
LEMMA FailKeeps ==
  ASSUME KeyInv, NEW n \in 0..3, NEW stopped \in BOOLEAN, n <= Len(Written), fail_closed(n, stopped)
  PROVE  KeyInv'
  <1>1. KeyTypes /\ JournalSound /\ QuietSound /\ RecordSound /\ BoxSound /\ ReleaseSound
    BY DEF KeyInv
  <1>2. /\ ~Idle /\ rel' = NoRelease /\ UNCHANGED <<marker, stored>>
        /\ host' = IF Committed THEN host ELSE Restored(n)
        /\ journal' = IF ~Committed /\ Retires(n, stopped) THEN NoTransition ELSE journal
        /\ box' = [box EXCEPT !.up = @ /\ ~stopped]
    BY DEF fail_closed
  <1>3. /\ box' \in Box /\ box'.revision = box.revision /\ box'.config = box.config
        /\ box'.up = TRUE => box.up = TRUE /\ stopped = FALSE
    BY <1>1, <1>2 DEF Box, KeyTypes
  <1>4. box' \in {box, [box EXCEPT !.up = FALSE]}
    <2>1. CASE stopped = TRUE
      BY <1>2, <2>1
    <2>2. CASE stopped = FALSE
      BY <1>1, <1>2, <2>2 DEF KeyTypes, Box
    <2> QED BY <2>1, <2>2
  <1>5. CASE Committed
    BY <1>2, <1>4, <1>5, EndKeeps
  <1>6. CASE ~Committed
    <2>1. rel.step \in Announced
      BY <1>1, <1>2, <1>6, KeyFields DEF Committed, ReleaseSound, ReleaseSteps
    <2>2. /\ Journaled /\ journal.to = Target /\ rel.revision \in Revisions
          /\ Between(rel.undo, journal.from, journal.to) /\ Between(host, journal.from, journal.to)
          /\ Proper(journal.from, journal.to) /\ Kept(stored, journal.to.keys) /\ Kept(stored, journal.from.keys)
          /\ journal.from.revision = 0 => OnlyFirst(stored)
      BY <1>1, <2>1 DEF ReleaseSound, JournalSound
    <2>3. /\ host' \in Host /\ host'.active \in {host.active, rel.undo.active}
          /\ host'.rotation \in {host.rotation, rel.undo.rotation}
      BY <1>1, <1>2, <1>6, RestoredIs
    <2>4. Between(host', journal.from, journal.to)
      BY <2>2, <2>3 DEF Between
    <2>5. RecordSound'
      <3>1. journal.to.recorded = TRUE /\ \A f \in Families : journal.to.states[f] \in RotationState
        <4>1. rel.config \in Configuration /\ rel.revision \in Revisions \cup {0}
          BY <1>1, KeyFields
        <4>2. Target.recorded = TRUE /\ Target.states = StatesOf(rel.config)
          BY <4>1, SideOfType DEF Target
        <4>3. \A f \in Families : StatesOf(rel.config)[f] \in RotationState
          BY <4>1, KeysOfType
        <4> QED BY <2>2, <4>2, <4>3
      <3>2. \/ host'.rotation = journal.to
            \/ host'.rotation = journal.from /\ journal.from.recorded = TRUE
            \/ host'.rotation = FreshSide
        BY <1>1, <2>4, KeyFields DEF Between
      <3> QED BY <1>2, <2>2, <3>1, <3>2, FreshSideType DEF RecordSound, Proper
    <2>6. BoxSound'
      <3>1. host'.active # 0 => box.revision # 0
        <4>1. CASE rel.step \in {"prepared", "created", "serving"}
          <5>1. Written = <<>>
            BY <4>1 DEF Written
          <5>2. n = 0
            BY <5>1
          <5>3. host'.active = host.active
            <6>1. DOMAIN host = {"active", "source", "rotation"}
              BY <1>1 DEF KeyTypes, Host
            <6> QED BY <1>2, <1>6, <5>2, <6>1 DEF Restored
          <5> QED BY <1>1, <5>3 DEF BoxSound
        <4>2. CASE rel.step \in Named
          BY <1>1, <2>2, <4>2, KeyConstants DEF ReleaseSound, Created, Named
        <4> QED BY <2>1, <4>1, <4>2 DEF Announced, Named
      <3> QED BY <1>1, <1>2, <1>3, <3>1 DEF BoxSound
    <2>7. CASE Retires(n, stopped)
      <3>1. stopped = TRUE /\ journal' = NoTransition /\ box'.up = FALSE
        BY <1>2, <1>3, <1>6, <2>7 DEF Retires, Box
      <3>2. ~Journaled'
        BY <3>1 DEF Journaled
      <3>3. host'.active = 0 => OnlyFirst(stored)
        BY <2>2, <2>4, KeyConstants DEF Between, Proper
      <3>4. KeyTypes'
        BY <1>1, <1>2, <1>3, <2>3, <3>1, NoTransitionType, OverIs DEF KeyTypes
      <3>5. JournalSound' /\ QuietSound'
        BY <1>2, <3>1, <3>2, <3>3 DEF JournalSound, QuietSound
      <3> QED BY <1>2, <2>5, <2>6, <3>4, <3>5, OverIs DEF KeyInv
    <2>8. CASE ~Retires(n, stopped)
      <3>1. journal' = journal
        BY <1>2, <2>8
      <3>2. KeyTypes'
        BY <1>1, <1>2, <1>3, <2>3, <3>1, OverIs DEF KeyTypes
      <3>3. JournalSound' /\ QuietSound'
        BY <1>1, <1>2, <1>3, <2>2, <2>4, <3>1 DEF JournalSound, QuietSound, Journaled, BoxSide
      <3> QED BY <1>2, <2>5, <2>6, <3>2, <3>3, OverIs DEF KeyInv
    <2> QED BY <2>7, <2>8
  <1> QED BY <1>5, <1>6

(* The containers are created again, stopped, with keys that keep everything.*)
LEMMA RecreateKeeps ==
  ASSUME KeyInv, NEW c \in Targets, recreateRuntime(c)
  PROVE  KeyInv'
  <1>1. KeyTypes /\ JournalSound /\ QuietSound /\ RecordSound /\ BoxSound /\ c \in Configuration
    BY KeyConstants DEF KeyInv
  <1>2. /\ rel = NoRelease /\ ~Journaled /\ host.active # 0 /\ UNCHANGED <<host, journal, rel, stored>>
        /\ c = box.config \/ SideOf(host.active, c) = host.rotation
        /\ box' = [revision |-> host.active, config |-> c, up |-> FALSE]
    BY DEF recreateRuntime, Idle
  <1>3. box' \in Box /\ box'.revision = host.active /\ box'.config = c /\ box'.up = FALSE
    BY <1>1, <1>2, KeyFields DEF Box
  <1>4. Kept(stored, KeysOf(c))
    <2>1. CASE c = box.config
      BY <1>1, <1>2, <2>1 DEF BoxSound
    <2>2. CASE SideOf(host.active, c) = host.rotation
      <3>1. host.rotation.recorded = TRUE /\ host.rotation.keys = KeysOf(c)
        <4>1. host.active \in Revisions \cup {0}
          BY <1>1, KeyFields
        <4>2. SideOf(host.active, c).recorded = TRUE /\ SideOf(host.active, c).keys = KeysOf(c)
          BY <1>1, <4>1, SideOfType
        <4> QED BY <2>2, <4>2
      <3> QED BY <1>1, <3>1 DEF RecordSound
    <2> QED BY <1>2, <2>1, <2>2
  <1>5. KeyTypes'
    BY <1>1, <1>2, <1>3 DEF KeyTypes
  <1>6. JournalSound' /\ QuietSound'
    BY <1>1, <1>2, <1>3 DEF JournalSound, QuietSound, Journaled
  <1>7. RecordSound' /\ BoxSound'
    BY <1>1, <1>2, <1>3, <1>4 DEF RecordSound, BoxSound
  <1> QED BY <1>2, <1>5, <1>6, <1>7, OverIs DEF KeyInv

LEMMA ActiveKey ==
  ASSUME NEW c \in Configuration, assertReleaseConfigSeparation(c), NEW f \in Families
  PROVE  c[f].active \in {"v1", "v2"} /\ KeysOf(c)[f][c[f].active] \in Materials
  <1>1. /\ c[f].state \in RotationState /\ c[f].active \in {"v1", "v2"}
        /\ c[f].v1 \in Materials \cup {NoKey} /\ c[f].v2 \in Materials \cup {NoKey}
    BY DEF Configuration, Family
  <1>2. /\ c[f].active = (IF c[f].state \in {"active", "retired"} THEN "v2" ELSE "v1")
        /\ (c[f].v1 = NoKey) <=> (c[f].state = "retired")
        /\ (c[f].v2 = NoKey) <=> (c[f].state = "legacy")
    BY DEF assertReleaseConfigSeparation, applicationKeyMaterialStateIsValid
  <1>3. KeysOf(c)[f].v1 = c[f].v1 /\ KeysOf(c)[f].v2 = c[f].v2
    BY KeysOfType
  <1> QED BY <1>1, <1>2, <1>3

LEMMA SealKept ==
  ASSUME NEW st \in [Families -> SUBSET Sealed], NEW f \in Families, NEW s, NEW keys, Kept(st, keys),
         s.first = TRUE \/ keys[f][s.key.version] = s.key.key
  PROVE  Kept([st EXCEPT ![f] = @ \cup {s}], keys)
  BY DEF Kept

LEMMA SealFirst ==
  ASSUME NEW st \in [Families -> SUBSET Sealed], NEW f \in Families, NEW s, OnlyFirst(st), s.first = TRUE
  PROVE  OnlyFirst([st EXCEPT ![f] = @ \cup {s}])
  BY DEF OnlyFirst

(* What serves seals with a key that the record, the journal on both of its  *)
(* sides and the containers all have.                                        *)
LEMMA SealKeeps ==
  ASSUME KeyInv, NEW f \in Families, seal(f)
  PROVE  KeyInv'
  <1> DEFINE c == box.config
             v == c[f].active
             k == [version |-> v, key |-> KeysOf(c)[f][v]]
             first == Journaled /\ journal.from.revision = 0
             s == [key |-> k, first |-> first]
  <1>1. KeyTypes /\ JournalSound /\ QuietSound /\ RecordSound /\ BoxSound /\ ReleaseSound
    BY DEF KeyInv
  <1>2. /\ box.up = TRUE /\ c \in Configuration /\ stored \in [Families -> SUBSET Sealed]
        /\ box.revision \in Revisions \cup {0} /\ journal.from \in Side /\ journal.from.recorded \in BOOLEAN
        /\ host.rotation.recorded \in BOOLEAN
    BY <1>1, KeyFields DEF seal
  <1>3. stored' = [stored EXCEPT ![f] = @ \cup {s}] /\ UNCHANGED <<host, box, journal, marker, rel>>
    <2>1. Keyrings(c)[f].active = k
      BY <1>2, RingIs
    <2> QED BY <2>1 DEF seal
  <1>4. box.revision # 0 /\ assertReleaseConfigSeparation(c) /\ Kept(stored, KeysOf(c)) /\ box.revision \in Revisions
    BY <1>1, <1>2 DEF BoxSound
  <1>5. v \in {"v1", "v2"} /\ KeysOf(c)[f][v] \in Materials
    BY <1>2, <1>4, ActiveKey
  <1>6. /\ BoxSide.keys = KeysOf(c) /\ BoxSide = SideOf(box.revision, c)
    BY <1>2, SideOfType DEF BoxSide
  <1>7. ~first /\ Journaled => /\ journal.from.revision # 0 /\ journal.to.keys = KeysOf(c)
                               /\ journal.from.keys[f][v] = KeysOf(c)[f][v]
    <2> SUFFICES ASSUME ~first, Journaled
                 PROVE  /\ journal.from.revision # 0 /\ journal.to.keys = KeysOf(c)
                        /\ journal.from.keys[f][v] = KeysOf(c)[f][v]
      OBVIOUS
    <2>1. journal.from.revision # 0 /\ BoxSide = journal.to /\ Proper(journal.from, journal.to)
      BY <1>1, <1>2 DEF JournalSound
    <2>2. Proper(journal.from, SideOf(box.revision, c))
      BY <1>6, <2>1
    <2> HIDE DEF c
    <2> QED BY <1>2, <1>4, <1>6, <2>1, <2>2, SealedBefore
  <1> DEFINE ky == KeysOf(c)[f][v]
  <1>8. first \in BOOLEAN
    OBVIOUS
  <1> HIDE DEF first, v, c
  <1>9. s.first = first /\ s.key.version = v /\ s.key.key = ky /\ s \in Sealed
    BY <1>5, <1>8 DEF Sealed
  <1> HIDE DEF s
  <1>10. stored' \in [Families -> SUBSET Sealed]
    BY <1>2, <1>3, <1>9
  <1>11. ASSUME NEW keys, Kept(stored, keys), first = TRUE \/ keys[f][v] = ky PROVE Kept(stored', keys)
    BY <1>2, <1>3, <1>9, <1>11, SealKept
  <1>12. first = TRUE /\ OnlyFirst(stored) => OnlyFirst(stored')
    BY <1>2, <1>3, <1>9, SealFirst
  <1>13. KeyTypes'
    BY <1>1, <1>3, <1>10 DEF KeyTypes
  <1>14. Journaled' = Journaled /\ BoxSide' = BoxSide /\ Target' = Target /\ Idle' = Idle
    BY <1>3 DEF Journaled, BoxSide, Target, Idle
  <1>15. JournalSound'
    <2> SUFFICES ASSUME Journaled PROVE JournalSound'
      BY <1>14 DEF JournalSound
    <2>1. journal.from.revision = 0 => OnlyFirst(stored')
      BY <1>1, <1>12 DEF JournalSound, first
    <2>2. Kept(stored', journal.from.keys) /\ Kept(stored', journal.to.keys)
      BY <1>1, <1>7, <1>8, <1>11 DEF JournalSound
    <2> QED BY <1>1, <1>3, <1>14, <2>1, <2>2 DEF JournalSound
  <1>16. QuietSound'
    BY <1>1, <1>2, <1>3, <1>4, <1>14 DEF QuietSound
  <1>17. RecordSound'
    <2>1. host.rotation.recorded = TRUE => Kept(stored', host.rotation.keys)
      <3> SUFFICES ASSUME host.rotation.recorded = TRUE PROVE Kept(stored', host.rotation.keys)
        OBVIOUS
      <3>1. Kept(stored, host.rotation.keys)
        BY <1>1 DEF RecordSound
      <3>2. CASE first = TRUE
        BY <1>11, <3>1, <3>2
      <3>3. CASE first = FALSE /\ Journaled
        <4>1. host.rotation = journal.to \/ host.rotation = journal.from
          BY <1>1, <1>2, <3>3, FreshSideType DEF JournalSound, Between
        <4> QED BY <1>7, <1>11, <3>1, <3>3, <4>1
      <3>4. CASE ~Journaled
        <4>1. host.rotation = BoxSide
          BY <1>1, <1>2, <3>4 DEF QuietSound
        <4> QED BY <1>6, <1>11, <3>1, <4>1
      <3> QED BY <1>8, <3>2, <3>3, <3>4
    <2> QED BY <1>1, <1>3, <2>1 DEF RecordSound
  <1>18. BoxSound'
    BY <1>1, <1>3, <1>4, <1>11 DEF BoxSound, c
  <1>19. ReleaseSound'
    BY <1>1, <1>3, <1>14 DEF ReleaseSound
  <1> QED BY <1>13, <1>15, <1>16, <1>17, <1>18, <1>19 DEF KeyInv

LEMMA KeyStays ==
  ASSUME KeyInv, UNCHANGED keyVars
  PROVE  KeyInv'
  BY DEF keyVars, KeyInv, KeyTypes, JournalSound, QuietSound, RecordSound, BoxSound, ReleaseSound,
         Journaled, Idle, BoxSide, Target

LEMMA NextKeyInv == KeyInv /\ [KeyNext]_keyVars => KeyInv'
  <1> SUFFICES ASSUME KeyInv, [KeyNext]_keyVars PROVE KeyInv'
    OBVIOUS
  <1>1. CASE UNCHANGED keyVars
    BY <1>1, KeyStays
  <1>2. ASSUME NEW r \in Revisions, NEW c \in Targets, prepare(r, c) PROVE KeyInv'
    BY <1>2, PrepareKeeps
  <1>3. ASSUME NEW n \in 0..3, NEW stopped \in BOOLEAN, n <= Len(Written), fail_closed(n, stopped) PROVE KeyInv'
    BY <1>3, FailKeeps
  <1>4. ASSUME NEW c \in Targets, recreateRuntime(c) PROVE KeyInv'
    BY <1>4, RecreateKeeps
  <1>5. ASSUME NEW f \in Families, seal(f) PROVE KeyInv'
    BY <1>5, SealKeeps
  <1>6. CASE replaceActiveRevision \/ replaceCurrentSource \/ replaceRotationState \/ writeCommitMarker
    BY <1>6, MarkersKeep
  <1>7. CASE createCandidates \/ startCandidates \/ complete \/ promotionComplete
    BY <1>7, CreateKeeps, StartKeeps, CompleteKeeps, PromotionKeeps
  <1>8. CASE releaseIsKilled \/ enter_emergency_fence
    BY <1>8, KilledKeeps, FenceKeeps
  <1> QED BY <1>1, <1>2, <1>3, <1>4, <1>5, <1>6, <1>7, <1>8 DEF KeyNext

(* The inductive invariant of the release (release.sh).                      *)
THEOREM KeyInvariance == KeySpec => []KeyInv
  BY InitKeyInv, NextKeyInv, PTL DEF KeySpec

LEMMA KeptIsReadable ==
  ASSUME KeyInv
  PROVE  StoredIsReadable
  <1>1. /\ KeyTypes /\ BoxSound /\ box.config \in Configuration /\ stored \in [Families -> SUBSET Sealed]
    BY KeyFields DEF KeyInv
  <1> SUFFICES ASSUME box.up, NEW f \in Families, NEW s \in stored[f], ~s.first
               PROVE  Readable(f, s.key)
    BY DEF StoredIsReadable
  <1>2. s \in Sealed
    BY <1>1
  <1>3. s.key \in [version: {"v1", "v2"}, key: Materials] /\ s.first # TRUE
    BY <1>2 DEF Sealed
  <1>4. Kept(stored, KeysOf(box.config))
    BY <1>1, KeyFields DEF BoxSound
  <1>5. KeysOf(box.config)[f][s.key.version] = s.key.key
    BY <1>3, <1>4 DEF Kept
  <1> QED BY <1>1, <1>3, <1>5, RingIs DEF Readable

(* Whatever was sealed once the first release of a host was committed can be *)
(* opened by whatever serves later, for every set of keys, families and      *)
(* target configurations and through every failed, killed and repeated       *)
(* release (assert_union, assertApplicationKeyRotationTransition).           *)
THEOREM StoredReadable == KeySpec => []StoredIsReadable
  BY KeyInvariance, KeptIsReadable, PTL

LEMMA AccountedFor ==
  ASSUME KeyInv
  PROVE  ServingIsAccounted
  <1>1. KeyTypes /\ JournalSound /\ QuietSound /\ host.rotation.recorded \in BOOLEAN /\ box.up \in BOOLEAN
    BY KeyFields DEF KeyInv
  <1> SUFFICES ASSUME box.up = TRUE
               PROVE  \/ host.rotation = BoxSide
                      \/ Journaled /\ journal.to = BoxSide
                      \/ host.rotation.recorded = FALSE /\ box.revision = host.active
    BY <1>1 DEF ServingIsAccounted, BoxSide
  <1> QED BY <1>1 DEF JournalSound, QuietSound

(* Nothing serves that neither the record nor an open journal names          *)
(* (fail_closed, release-fence.sh).                                          *)
THEOREM ServingAccounted == KeySpec => []ServingIsAccounted
  BY KeyInvariance, AccountedFor, PTL

-------------------------------------------------------------------------------
(* The purge.                                                                *)

TenantRow == [row: {"waiting", "due", "gone", "active"}, held: BOOLEAN, job: BOOLEAN, troubles: Nat]
Candidate == [tenant: Tenants, blocked: BOOLEAN]
Underway == {"listing", "purging", "drained", "aborted"}
PurgeRun == [step: {"idle", "verified", "completed", "failed"} \cup Underway, size: Nat \ {0}, batch: Nat,
             todo: Seq(Candidate), full: BOOLEAN, selected: Nat, purged: Nat, blocked: Nat, batchBlocked: Nat]

PurgeTypes ==
    /\ tenant \in [Tenants -> TenantRow] /\ lock \in PurgeRuns \cup {NoRun}
    /\ run \in [PurgeRuns -> PurgeRun]
    /\ written \in [PurgeRuns -> SUBSET Tenants] /\ dueThen \in [PurgeRuns -> SUBSET Tenants]

(* The counts of a run, with what it has not come to yet.                    *)
Tallies(r, w) ==
    /\ r.selected = r.purged + r.blocked + Len(r.todo)
    /\ r.purged = Cardinality(w) /\ r.batchBlocked <= r.blocked

(* The tenants of a batch, each of which comes once.                         *)
TenantsOf(s) == {s[i].tenant : i \in 1..Len(s)}
Distinct(s) == \A i, j \in 1..Len(s) : i # j => s[i].tenant # s[j].tenant

(* The candidates of a batch: each once, none of them purged; and all that   *)
(* were due, unless the batch was full or one of them was left.              *)
TodoSound(tn, r, d) ==
    /\ Distinct(r.todo)
    /\ \A t \in TenantsOf(r.todo) : tn[t].row # "gone" /\ tn[t].row # "waiting"
    /\ r.full = FALSE /\ r.batchBlocked = 0 => \A t \in d : tn[t].row = "due" => t \in TenantsOf(r.todo)

DrainedSound(tn, r, d) ==
    /\ r.full = FALSE \/ r.batchBlocked > 0
    /\ r.full = FALSE /\ r.batchBlocked = 0 => \A t \in d : tn[t].row # "due"

(* A run, given the tenants, the certificates it wrote and what was due.     *)
RunSound(tn, r, w, d) ==
    /\ \A t \in w : tn[t].row = "gone"
    /\ \A t \in d : tn[t].row # "waiting"
    /\ r.step \in {"verified", "listing"} => r.todo = <<>> /\ Tallies(r, w)
    /\ r.step = "purging" => r.todo # <<>> /\ Tallies(r, w) /\ TodoSound(tn, r, d)
    /\ r.step \in {"drained", "completed"} => r.todo = <<>> /\ Tallies(r, w) /\ DrainedSound(tn, r, d)

(* Only the run that holds the lock lists and purges.                        *)
PurgeInv ==
    /\ PurgeTypes
    /\ \A x \in PurgeRuns : /\ run[x].step \in Underway => lock = x
                            /\ RunSound(tenant, run[x], written[x], dueThen[x])

LEMMA PurgeConstants ==
  /\ MaxDue \in Nat /\ DefaultBatch \in Nat \ {0} /\ MaximumBatch \in Nat /\ MaxBatches \in Nat \ {0}
  /\ NoRun \notin PurgeRuns /\ Settings \subseteq Setting /\ Unset \notin Nat
  /\ IsFiniteSet(Tenants) /\ Tenants \subseteq Nat
  BY PurgeAssumption, FS_Interval DEF Tenants

(* The order of the listing is a strict total one.                           *)
LEMMA BeforeOrders ==
  ASSUME PurgeTypes, NEW t \in Tenants, NEW u \in Tenants, NEW v \in Tenants
  PROVE  /\ ~Before(t, t)
         /\ t # u => Before(t, u) \/ Before(u, t)
         /\ Before(t, u) /\ Before(u, v) => Before(t, v)
  <1>1. IsHeld(t) \in BOOLEAN /\ IsHeld(u) \in BOOLEAN /\ IsHeld(v) \in BOOLEAN
    BY DEF PurgeTypes, TenantRow, IsHeld
  <1>2. t \in Nat /\ u \in Nat /\ v \in Nat
    BY PurgeConstants
  <1> QED BY <1>1, <1>2 DEF Before

(* So each due tenant has its place, and each place its tenant.              *)
LEMMA Places ==
  ASSUME PurgeTypes
  PROVE  /\ IsFiniteSet(Due) /\ Cardinality(Due) \in Nat
         /\ \A t \in Due : Place(t) \in 1..Cardinality(Due)
         /\ \A t, u \in Due : Place(t) = Place(u) => t = u
         /\ \A i \in 1..Cardinality(Due) : \E t \in Due : Place(t) = i
  <1> DEFINE n == Cardinality(Due)
             P(t) == {u \in Due : Before(u, t)}
  <1>1. IsFiniteSet(Due) /\ n \in Nat /\ Due \subseteq Tenants
    BY PurgeConstants, FS_Subset, FS_CardinalityType DEF Due
  <1>2. \A t : IsFiniteSet(P(t)) /\ Cardinality(P(t)) \in Nat
    BY <1>1, FS_Subset, FS_CardinalityType
  <1>3. ASSUME NEW t \in Due, NEW u \in Due, Before(t, u) PROVE Cardinality(P(t)) < Cardinality(P(u))
    <2>1. P(t) \cup {t} \subseteq P(u) /\ t \notin P(t)
      BY <1>1, <1>3, BeforeOrders
    <2>2. Cardinality(P(t) \cup {t}) = Cardinality(P(t)) + 1
      BY <1>2, <2>1, FS_AddElement
    <2>3. Cardinality(P(t) \cup {t}) <= Cardinality(P(u))
      BY <1>2, <2>1, FS_Subset
    <2> QED BY <1>2, <2>2, <2>3
  <1>4. \A t \in Due : Place(t) = Cardinality(P(t)) + 1
    BY DEF Place
  <1>5. ASSUME NEW t \in Due PROVE Place(t) \in 1..n
    <2>1. P(t) \in SUBSET (Due \ {t})
      BY <1>1, BeforeOrders
    <2>2. IsFiniteSet(Due \ {t}) /\ Cardinality(Due \ {t}) = n - 1
      BY <1>1, FS_RemoveElement
    <2>3. Cardinality(P(t)) <= n - 1
      BY <2>1, <2>2, FS_Subset
    <2> HIDE DEF P, n
    <2> QED BY <1>1, <1>2, <1>4, <2>3
  <1>6. ASSUME NEW t \in Due, NEW u \in Due, Place(t) = Place(u) PROVE t = u
    <2>1. Cardinality(P(t)) = Cardinality(P(u))
      BY <1>2, <1>4, <1>6
    <2>2. t # u => Before(t, u) \/ Before(u, t)
      BY <1>1, BeforeOrders
    <2> HIDE DEF P
    <2> QED BY <1>2, <1>3, <2>1, <2>2
  <1>7. ASSUME NEW i \in 1..n PROVE \E t \in Due : Place(t) = i
    <2> DEFINE f == [t \in Due |-> Place(t)]
    <2>1. f \in Injection(Due, 1..n)
      BY <1>5, <1>6 DEF Injection, IsInjective
    <2>2. IsFiniteSet(1..n) /\ Cardinality(1..n) = n
      BY <1>1, FS_Interval
    <2>3. f \in Surjection(Due, 1..n)
      <3> HIDE DEF f
      <3> QED BY <2>1, <2>2, FS_Injection
    <2>4. \E t \in Due : f[t] = i
      BY <2>3 DEF Surjection
    <2> QED BY <2>4
  <1> QED BY <1>1, <1>5, <1>6, <1>7

(* A listing names each of its tenants once, and all of the due ones when it *)
(* is shorter than its limit.                                                *)
LEMMA ListingIs ==
  ASSUME PurgeTypes, NEW limit \in Nat \ {0}
  PROVE  LET rows == refunddesk_list_due_tenant_purges(limit)
         IN /\ rows \in Seq(Candidate) /\ Len(rows) <= limit
            /\ \A i \in 1..Len(rows) : rows[i].tenant \in Due
            /\ \A i, j \in 1..Len(rows) : i # j => rows[i].tenant # rows[j].tenant
            /\ Len(rows) # limit => \A t \in Due : \E i \in 1..Len(rows) : rows[i].tenant = t
  <1> DEFINE n == Cardinality(Due)
             m == IF n < limit THEN n ELSE limit
             pick(i) == CHOOSE u \in Due : Place(u) = i
             rows == refunddesk_list_due_tenant_purges(limit)
  <1>1. n \in Nat /\ m \in Nat /\ m <= n /\ m <= limit /\ (m # limit => m = n)
    BY Places
  <1>2. rows = [i \in 1..m |-> [tenant |-> pick(i), blocked |-> IsHeld(pick(i))]]
    BY DEF refunddesk_list_due_tenant_purges
  <1>3. \A i \in 1..n : pick(i) \in Due /\ Place(pick(i)) = i
    BY Places
  <1>4. \A t \in Due : t \in Tenants /\ IsHeld(t) \in BOOLEAN
    BY DEF Due, IsHeld, PurgeTypes, TenantRow
  <1>5. \A i \in 1..m : i \in 1..n
    BY <1>1
  <1>6. \A t \in Due : pick(Place(t)) = t /\ Place(t) \in 1..n
    BY <1>3, Places
  <1> HIDE DEF pick, m, n
  <1>7. rows \in Seq(Candidate) /\ Len(rows) = m
    <2>1. rows \in [1..m -> Candidate]
      BY <1>2, <1>3, <1>4, <1>5 DEF Candidate
    <2> HIDE DEF rows
    <2> QED BY <1>1, <2>1
  <1>8. \A i \in 1..m : rows[i].tenant = pick(i)
    BY <1>2
  <1> HIDE DEF rows
  <1>9. \A i, j \in 1..m : i # j => pick(i) # pick(j)
    BY <1>3, <1>5
  <1>10. m # limit => \A t \in Due : \E i \in 1..m : pick(i) = t
    BY <1>1, <1>6
  <1> QED BY <1>1, <1>3, <1>5, <1>7, <1>8, <1>9, <1>10 DEF rows

(* A batch, and the batch without its first candidate.                       *)
LEMMA NamesOf ==
  ASSUME NEW s \in Seq(Candidate)
  PROVE  TenantsOf(s) \subseteq Tenants /\ Len(s) \in Nat /\ (s = <<>> => TenantsOf(s) = {} /\ Len(s) = 0)
  <1>1. \A i \in 1..Len(s) : s[i] \in Candidate
    OBVIOUS
  <1>2. \A c \in Candidate : c.tenant \in Tenants
    BY DEF Candidate
  <1>3. Len(s) \in Nat /\ (s = <<>> => Len(s) = 0)
    OBVIOUS
  <1> QED BY <1>1, <1>2, <1>3 DEF TenantsOf

LEMMA TailIs ==
  ASSUME NEW s \in Seq(Candidate), s # <<>>
  PROVE  /\ Tail(s) \in Seq(Candidate) /\ Len(Tail(s)) = Len(s) - 1 /\ Len(s) \in Nat \ {0}
         /\ \A i \in 1..Len(Tail(s)) : Tail(s)[i] = s[i + 1] /\ i + 1 \in 1..Len(s)
         /\ \A i \in 1..Len(s) : i # 1 => i - 1 \in 1..Len(Tail(s)) /\ Tail(s)[i - 1] = s[i]
         /\ Head(s) = s[1] /\ 1 \in 1..Len(s) /\ Head(s) \in Candidate
  OBVIOUS

LEMMA TailNames ==
  ASSUME NEW s \in Seq(Candidate), s # <<>>, Distinct(s)
  PROVE  /\ Tail(s) \in Seq(Candidate) /\ Len(Tail(s)) = Len(s) - 1 /\ Len(s) \in Nat \ {0}
         /\ Distinct(Tail(s)) /\ TenantsOf(Tail(s)) = TenantsOf(s) \ {Head(s).tenant}
         /\ Head(s).tenant \in Tenants /\ Head(s).tenant \in TenantsOf(s) /\ Head(s).blocked \in BOOLEAN
  <1> DEFINE td == Tail(s)
             n == Len(s)
  <1>1. td \in Seq(Candidate) /\ Len(td) = n - 1 /\ n \in Nat \ {0}
    BY TailIs
  <1>2. \A i \in 1..Len(td) : td[i] = s[i + 1] /\ i + 1 \in 1..n
    BY TailIs
  <1>3. \A i \in 1..n : i # 1 => i - 1 \in 1..Len(td) /\ td[i - 1] = s[i]
    BY TailIs
  <1>4. Head(s) = s[1] /\ 1 \in 1..n /\ Head(s) \in Candidate
    BY TailIs
  <1>5. \A i, j \in 1..n : i # j => s[i].tenant # s[j].tenant
    BY DEF Distinct
  <1> HIDE DEF td, n
  <1>6. ASSUME NEW i \in 1..Len(td), NEW j \in 1..Len(td), i # j PROVE td[i].tenant # td[j].tenant
    <2>1. i + 1 # j + 1 /\ i + 1 \in 1..n /\ j + 1 \in 1..n
      BY <1>1, <1>2, <1>6
    <2> QED BY <1>2, <1>5, <2>1
  <1>7. ASSUME NEW i \in 1..Len(td) PROVE td[i].tenant \in TenantsOf(s) /\ td[i].tenant # Head(s).tenant
    <2>1. i + 1 # 1 /\ i + 1 \in 1..n /\ td[i] = s[i + 1]
      BY <1>1, <1>2
    <2> QED BY <1>4, <1>5, <2>1 DEF TenantsOf, n
  <1>8. ASSUME NEW u \in TenantsOf(s), u # Head(s).tenant PROVE u \in TenantsOf(td)
    <2>1. PICK i \in 1..n : u = s[i].tenant
      BY DEF TenantsOf, n
    <2>2. i # 1
      BY <1>4, <1>8, <2>1
    <2> QED BY <1>3, <2>1, <2>2 DEF TenantsOf
  <1>9. Distinct(td)
    BY <1>6 DEF Distinct
  <1>10. TenantsOf(td) = TenantsOf(s) \ {Head(s).tenant}
    BY <1>7, <1>8 DEF TenantsOf
  <1>11. Head(s).tenant \in Tenants /\ Head(s).tenant \in TenantsOf(s) /\ Head(s).blocked \in BOOLEAN
    BY <1>4 DEF TenantsOf, Candidate, n
  <1> QED BY <1>1, <1>9, <1>10, <1>11 DEF td, n

LEMMA RunFields ==
  ASSUME NEW r \in PurgeRun
  PROVE  /\ r.size \in Nat \ {0} /\ r.todo \in Seq(Candidate)
         /\ r.full \in BOOLEAN /\ r.selected \in Nat /\ r.purged \in Nat
         /\ r.blocked \in Nat /\ r.batchBlocked \in Nat /\ r.batch \in Nat
  BY DEF PurgeRun

LEMMA NoPurgeIs ==
  ASSUME NEW n \in Nat \ {0}
  PROVE  LET r == [NoPurge EXCEPT !.step = "verified", !.size = n]
         IN /\ r \in PurgeRun /\ r.step = "verified" /\ r.todo = <<>> /\ Tallies(r, {})
            /\ NoPurge \in PurgeRun /\ NoPurge.step = "idle"
  <1> DEFINE r == [NoPurge EXCEPT !.step = "verified", !.size = n]
  <1>1. <<>> \in Seq(Candidate) /\ Len(<<>>) = 0
    OBVIOUS
  <1>2. NoPurge \in PurgeRun /\ NoPurge.step = "idle"
    BY <1>1 DEF NoPurge, PurgeRun
  <1>3. /\ NoPurge.todo = <<>> /\ NoPurge.selected = 0 /\ NoPurge.purged = 0 /\ NoPurge.blocked = 0
        /\ NoPurge.batchBlocked = 0
    BY DEF NoPurge
  <1>4. /\ r \in PurgeRun /\ r.step = "verified" /\ r.todo = NoPurge.todo /\ r.selected = NoPurge.selected
        /\ r.purged = NoPurge.purged /\ r.blocked = NoPurge.blocked /\ r.batchBlocked = NoPurge.batchBlocked
    BY <1>2 DEF PurgeRun
  <1> HIDE DEF r
  <1>5. Tallies(r, {})
    BY <1>1, <1>3, <1>4, FS_EmptySet DEF Tallies
  <1> QED BY <1>1, <1>2, <1>3, <1>4, <1>5 DEF r

(* A run that has nothing to say about its batch.                            *)
LEMMA EndedSound ==
  ASSUME NEW tn, NEW r, NEW w, NEW d, \A t \in w : tn[t].row = "gone", \A t \in d : tn[t].row # "waiting",
         r.step \in {"idle", "aborted", "failed"}
  PROVE  RunSound(tn, r, w, d)
  BY DEF RunSound

(* Where a run goes after a candidate, or after a listing.                   *)
LEMMA AfterSound ==
  ASSUME NEW tn, NEW r \in PurgeRun, NEW w, NEW d,
         \A t \in w : tn[t].row = "gone", \A t \in d : tn[t].row # "waiting",
         Tallies(r, w), TodoSound(tn, r, d)
  PROVE  LET a == AfterCandidate(r)
         IN a \in PurgeRun /\ a.step \in Underway /\ RunSound(tn, a, w, d)
  <1> DEFINE step == IF r.todo # <<>> THEN "purging"
                     ELSE IF Drained(r) THEN "drained"
                     ELSE IF r.batch = MaxBatches THEN "aborted" ELSE "listing"
             a == AfterCandidate(r)
  <1>1. a = [r EXCEPT !.step = step]
    BY DEF AfterCandidate
  <1>2. /\ step \in Underway /\ (step = "purging" => r.todo # <<>>) /\ (step # "purging" => r.todo = <<>>)
        /\ (step = "drained" => Drained(r))
    BY DEF Underway
  <1> HIDE DEF step
  <1>3. /\ a \in PurgeRun /\ a.step = step /\ a.todo = r.todo /\ a.full = r.full /\ a.selected = r.selected
        /\ a.purged = r.purged /\ a.blocked = r.blocked /\ a.batchBlocked = r.batchBlocked
    BY <1>1, <1>2 DEF PurgeRun
  <1> HIDE DEF a
  <1>4. Tallies(a, w) /\ TodoSound(tn, a, d)
    BY <1>3 DEF Tallies, TodoSound
  <1>5. step = "drained" => DrainedSound(tn, a, d)
    <2> SUFFICES ASSUME step = "drained" PROVE DrainedSound(tn, a, d)
      OBVIOUS
    <2>1. TenantsOf(a.todo) = {}
      BY <1>2, <1>3, RunFields, NamesOf
    <2>2. a.full = FALSE \/ a.batchBlocked > 0
      BY <1>2, <1>3 DEF Drained, PurgeRun
    <2> QED BY <1>4, <2>1, <2>2 DEF TodoSound, DrainedSound
  <1>6. RunSound(tn, a, w, d)
    BY <1>2, <1>3, <1>4, <1>5 DEF RunSound, Underway
  <1> QED BY <1>2, <1>3, <1>6 DEF a

(* Tenants come due, are held, are reinstalled or are purged: what a run     *)
(* says of them stands, unless it still has a tenant before it that goes.    *)
RowsMove(tn, next) ==
    \A t \in Tenants : /\ tn[t].row = "gone" => next[t].row = "gone"
                       /\ tn[t].row # "waiting" => next[t].row # "waiting"
                       /\ next[t].row = "due" => tn[t].row \in {"waiting", "due"}

LEMMA TenantsMove ==
  ASSUME NEW tn, NEW next, NEW r \in PurgeRun, NEW w \in SUBSET Tenants, NEW d \in SUBSET Tenants,
         RowsMove(tn, next), RunSound(tn, r, w, d),
         r.step = "purging" => \A t \in Tenants : next[t].row = "gone" => tn[t].row = "gone"
  PROVE  RunSound(next, r, w, d)
  <1>1. /\ \A t \in w : next[t].row = "gone"
        /\ \A t \in d : next[t].row # "waiting" /\ (next[t].row = "due" => tn[t].row = "due")
    BY DEF RunSound, RowsMove
  <1>2. r.step = "purging" => TodoSound(next, r, d)
    <2> SUFFICES ASSUME r.step = "purging" PROVE TodoSound(next, r, d)
      OBVIOUS
    <2>1. TenantsOf(r.todo) \subseteq Tenants
      BY RunFields, NamesOf
    <2>2. TodoSound(tn, r, d)
      BY DEF RunSound
    <2>3. \A t \in TenantsOf(r.todo) : next[t].row # "gone" /\ next[t].row # "waiting"
      BY <2>1, <2>2 DEF TodoSound, RowsMove
    <2> QED BY <1>1, <2>2, <2>3 DEF TodoSound
  <1>3. r.step \in {"drained", "completed"} => DrainedSound(next, r, d)
    BY <1>1 DEF RunSound, DrainedSound
  <1> QED BY <1>1, <1>2, <1>3 DEF RunSound

LEMMA TallyMoves ==
  ASSUME NEW r \in PurgeRun, NEW w, Tallies(r, w), NEW td, Len(td) = Len(r.todo) - 1, Len(r.todo) \in Nat \ {0}
  PROVE  /\ r.selected = r.purged + (r.blocked + 1) + Len(td) /\ r.batchBlocked + 1 <= r.blocked + 1
         /\ r.selected = (r.purged + 1) + r.blocked + Len(td) /\ r.purged = Cardinality(w)
         /\ r.batchBlocked <= r.blocked
  <1>1. r.selected \in Nat /\ r.purged \in Nat /\ r.blocked \in Nat /\ r.batchBlocked \in Nat
    BY RunFields
  <1>2. r.selected = r.purged + r.blocked + Len(r.todo) /\ r.batchBlocked <= r.blocked
    BY DEF Tallies
  <1>3. PICK n \in Nat \ {0}, k \in Nat : n = Len(r.todo) /\ k = Len(td) /\ k = n - 1
    OBVIOUS
  <1>4. PICK p \in Nat, b \in Nat : p = r.purged /\ b = r.blocked
    BY <1>1
  <1>5. PICK sel \in Nat, bb \in Nat : sel = r.selected /\ bb = r.batchBlocked
    BY <1>1
  <1>6. sel = p + b + n /\ bb <= b /\ k = n - 1
    BY <1>2, <1>3, <1>4, <1>5
  <1>7. sel = p + (b + 1) + k /\ sel = (p + 1) + b + k /\ bb + 1 <= b + 1
    BY <1>6
  <1> QED BY <1>2, <1>3, <1>4, <1>5, <1>7 DEF Tallies

LEMMA LeftSound ==
  ASSUME NEW tn, NEW r \in PurgeRun, NEW w, NEW d, r.step = "purging", RunSound(tn, r, w, d)
  PROVE  LET a == Blocked(r)
         IN a \in PurgeRun /\ a.step \in Underway /\ RunSound(tn, a, w, d)
  <1>1. r.todo \in Seq(Candidate) /\ r.todo # <<>> /\ Tallies(r, w) /\ TodoSound(tn, r, d)
    BY RunFields DEF RunSound
  <1>2. r.selected \in Nat /\ r.purged \in Nat /\ r.blocked \in Nat /\ r.batchBlocked \in Nat
    BY RunFields
  <1> DEFINE b == r.blocked + 1
             bb == r.batchBlocked + 1
             td == Tail(r.todo)
             q == [r EXCEPT !.todo = td, !.blocked = b, !.batchBlocked = bb]
  <1>3. /\ td \in Seq(Candidate) /\ Len(td) = Len(r.todo) - 1 /\ Len(r.todo) \in Nat \ {0}
        /\ Distinct(td) /\ TenantsOf(td) = TenantsOf(r.todo) \ {Head(r.todo).tenant}
    BY <1>1, TailNames DEF TodoSound
  <1>4. b \in Nat /\ bb \in Nat /\ bb # 0
    BY <1>2
  <1>5. Blocked(r) = AfterCandidate(q)
    BY DEF Blocked
  <1> HIDE DEF b, bb, td
  <1>6. /\ q \in PurgeRun /\ q.todo = td /\ q.blocked = b /\ q.batchBlocked = bb
        /\ q.selected = r.selected /\ q.purged = r.purged /\ q.full = r.full
    BY <1>3, <1>4 DEF PurgeRun
  <1> HIDE DEF q
  <1>7. Tallies(q, w)
    <2>1. /\ r.selected = r.purged + (r.blocked + 1) + Len(td) /\ r.batchBlocked + 1 <= r.blocked + 1
          /\ r.purged = Cardinality(w)
      BY <1>1, <1>3, TallyMoves
    <2>2. r.selected = r.purged + b + Len(td) /\ bb <= b
      BY <2>1 DEF b, bb
    <2> QED BY <1>6, <2>1, <2>2 DEF Tallies
  <1>8. TodoSound(tn, q, d)
    BY <1>1, <1>3, <1>4, <1>6 DEF TodoSound
  <1>9. (\A t \in w : tn[t].row = "gone") /\ (\A t \in d : tn[t].row # "waiting")
    BY DEF RunSound
  <1> QED BY <1>5, <1>6, <1>7, <1>8, <1>9, AfterSound

(* The first candidate is purged: it was there and due, nobody has written   *)
(* its certificate, and it comes once in the batch.                          *)
LEMMA PurgedSound ==
  ASSUME NEW tn \in [Tenants -> TenantRow], NEW r \in PurgeRun, NEW w \in SUBSET Tenants, NEW d \in SUBSET Tenants,
         r.step = "purging", RunSound(tn, r, w, d), tn[Head(r.todo).tenant].row = "due",
         NEW next, next = [tn EXCEPT ![Head(r.todo).tenant].row = "gone"]
  PROVE  LET a == Purged(r)
         IN a \in PurgeRun /\ a.step \in Underway /\ RunSound(next, a, w \cup {Head(r.todo).tenant}, d)
  <1>1. r.todo \in Seq(Candidate) /\ r.todo # <<>> /\ Tallies(r, w) /\ TodoSound(tn, r, d)
    BY RunFields DEF RunSound
  <1>2. r.selected \in Nat /\ r.purged \in Nat /\ r.blocked \in Nat /\ r.batchBlocked \in Nat
    BY RunFields
  <1> DEFINE t == Head(r.todo).tenant
             p == r.purged + 1
             td == Tail(r.todo)
             q == [r EXCEPT !.todo = td, !.purged = p]
  <1>3. /\ td \in Seq(Candidate) /\ Len(td) = Len(r.todo) - 1 /\ Len(r.todo) \in Nat \ {0}
        /\ Distinct(td) /\ TenantsOf(td) = TenantsOf(r.todo) \ {t} /\ t \in Tenants
    BY <1>1, TailNames DEF TodoSound
  <1>4. tn[t].row = "due" /\ next = [tn EXCEPT ![t].row = "gone"]
    OBVIOUS
  <1>5. Purged(r) = AfterCandidate(q)
    BY DEF Purged
  <1>6. p \in Nat
    BY <1>2
  <1> HIDE DEF p, td, t
  <1>7. next[t].row = "gone" /\ \A u \in Tenants : u # t => next[u] = tn[u]
    BY <1>3, <1>4 DEF TenantRow
  <1>8. TenantsOf(r.todo) \subseteq Tenants
    BY <1>1, NamesOf
  <1>9. /\ q \in PurgeRun /\ q.todo = td /\ q.purged = p /\ q.selected = r.selected /\ q.blocked = r.blocked
        /\ q.batchBlocked = r.batchBlocked /\ q.full = r.full
    BY <1>3, <1>6 DEF PurgeRun
  <1> HIDE DEF q
  <1>10. (\A u \in w : tn[u].row = "gone") /\ (\A u \in d : tn[u].row # "waiting")
    BY DEF RunSound
  <1>11. Tallies(q, w \cup {t})
    <2>1. t \notin w /\ IsFiniteSet(w)
      BY <1>4, <1>10, PurgeConstants, FS_Subset
    <2>2. Cardinality(w \cup {t}) = Cardinality(w) + 1
      BY <2>1, FS_AddElement
    <2>3. /\ r.selected = (r.purged + 1) + r.blocked + Len(td) /\ r.purged = Cardinality(w)
          /\ r.batchBlocked <= r.blocked
      BY <1>1, <1>3, TallyMoves
    <2>4. r.selected = p + r.blocked + Len(td) /\ p = Cardinality(w \cup {t})
      BY <2>2, <2>3 DEF p
    <2> QED BY <1>9, <2>3, <2>4 DEF Tallies
  <1>12. TodoSound(next, q, d)
    <2>1. \A u \in TenantsOf(td) : next[u] = tn[u] /\ u \in TenantsOf(r.todo)
      BY <1>3, <1>7, <1>8
    <2>2. \A u \in TenantsOf(td) : next[u].row # "gone" /\ next[u].row # "waiting"
      BY <1>1, <2>1 DEF TodoSound
    <2>3. ASSUME r.full = FALSE, r.batchBlocked = 0, NEW u \in d, next[u].row = "due"
          PROVE  u \in TenantsOf(td)
      <3>1. u # t /\ tn[u].row = "due"
        BY <1>7, <2>3
      <3>2. u \in TenantsOf(r.todo)
        BY <1>1, <2>3, <3>1 DEF TodoSound
      <3> QED BY <1>3, <3>1, <3>2
    <2> QED BY <1>3, <1>9, <2>2, <2>3 DEF TodoSound
  <1>13. (\A u \in w \cup {t} : next[u].row = "gone") /\ (\A u \in d : next[u].row # "waiting")
    BY <1>7, <1>10
  <1>14. LET a == AfterCandidate(q)
         IN  a \in PurgeRun /\ a.step \in Underway /\ RunSound(next, a, w \cup {t}, d)
    BY <1>9, <1>11, <1>12, <1>13, AfterSound
  <1> QED BY <1>5, <1>14 DEF t

(* A listing begins a batch.                                                 *)
LEMMA ListedSound ==
  ASSUME NEW tn, NEW r \in PurgeRun, NEW w, NEW d0, NEW d, r.step = "listing", RunSound(tn, r, w, d0),
         NEW rows \in Seq(Candidate), Distinct(rows), \A t \in TenantsOf(rows) : tn[t].row = "due",
         \A t \in d : tn[t].row = "due", Len(rows) # r.size => d \subseteq TenantsOf(rows)
  PROVE  LET a == Listed(r, rows)
         IN a \in PurgeRun /\ a.step \in Underway /\ RunSound(tn, a, w, d)
  <1> DEFINE b == r.batch + 1
             sel == r.selected + Len(rows)
             f == (Len(rows) = r.size)
             q == [r EXCEPT !.batch = b, !.selected = sel, !.todo = rows, !.full = f, !.batchBlocked = 0]
  <1>1. /\ r.selected \in Nat /\ r.purged \in Nat /\ r.blocked \in Nat /\ r.batch \in Nat
        /\ r.todo = <<>> /\ Tallies(r, w) /\ Len(r.todo) = 0 /\ Len(rows) \in Nat
    BY RunFields, NamesOf DEF RunSound
  <1>2. b \in Nat /\ sel \in Nat /\ f \in BOOLEAN /\ (f = FALSE => d \subseteq TenantsOf(rows))
    BY <1>1
  <1>3. sel = r.purged + r.blocked + Len(rows) /\ r.purged = Cardinality(w)
    <2>1. PICK k \in Nat, p \in Nat, c \in Nat : k = Len(rows) /\ p = r.purged /\ c = r.blocked
      BY <1>1
    <2>2. r.selected = p + c + 0
      BY <1>1, <2>1 DEF Tallies
    <2> QED BY <1>1, <2>1, <2>2 DEF Tallies
  <1> HIDE DEF b, sel, f
  <1>4. /\ q \in PurgeRun /\ q.selected = sel /\ q.todo = rows /\ q.full = f /\ q.batchBlocked = 0
        /\ q.purged = r.purged /\ q.blocked = r.blocked
    BY <1>2 DEF PurgeRun
  <1> HIDE DEF q
  <1>5. Tallies(q, w)
    BY <1>1, <1>3, <1>4 DEF Tallies
  <1>6. TodoSound(tn, q, d)
    BY <1>2, <1>4 DEF TodoSound
  <1>7. (\A t \in w : tn[t].row = "gone") /\ (\A t \in d : tn[t].row # "waiting")
    BY DEF RunSound
  <1>8. LET a == AfterCandidate(q)
        IN a \in PurgeRun /\ a.step \in Underway /\ RunSound(tn, a, w, d)
    BY <1>4, <1>5, <1>6, <1>7, AfterSound
  <1> QED BY <1>8 DEF q, b, sel, f, Listed

(* A run that only takes its next step, or ends.                             *)
LEMMA Renamed ==
  ASSUME NEW tn, NEW r \in PurgeRun, NEW w, NEW d, NEW s, RunSound(tn, r, w, d),
         \/ s \in {"aborted", "failed"}
         \/ r.step = "verified" /\ s = "listing"
         \/ r.step = "drained" /\ s = "completed"
  PROVE  LET q == [r EXCEPT !.step = s]
         IN q \in PurgeRun /\ q.step = s /\ RunSound(tn, q, w, d)
  <1> DEFINE q == [r EXCEPT !.step = s]
  <1>1. /\ q \in PurgeRun /\ q.step = s /\ q.todo = r.todo /\ q.full = r.full /\ q.selected = r.selected
        /\ q.purged = r.purged /\ q.blocked = r.blocked /\ q.batchBlocked = r.batchBlocked
    BY DEF PurgeRun, Underway
  <1> HIDE DEF q
  <1>2. Tallies(r, w) => Tallies(q, w)
    BY <1>1 DEF Tallies
  <1>3. DrainedSound(tn, r, d) => DrainedSound(tn, q, d)
    BY <1>1 DEF DrainedSound
  <1>4. RunSound(tn, q, w, d)
    BY <1>1, <1>2, <1>3 DEF RunSound
  <1> QED BY <1>1, <1>4 DEF q

LEMMA RunsAre ==
  ASSUME PurgeInv, NEW x \in PurgeRuns
  PROVE  /\ run[x] \in PurgeRun /\ written[x] \in SUBSET Tenants /\ dueThen[x] \in SUBSET Tenants
         /\ RunSound(tenant, run[x], written[x], dueThen[x]) /\ (run[x].step \in Underway => lock = x)
  BY DEF PurgeInv, PurgeTypes

(* A step of one run: the others are where they were.                        *)
LEMMA OneRunSteps ==
  ASSUME PurgeInv, NEW x \in PurgeRuns, NEW r \in PurgeRun, NEW w \in SUBSET Tenants, NEW d \in SUBSET Tenants,
         run' = [run EXCEPT ![x] = r], written' = [written EXCEPT ![x] = w], dueThen' = [dueThen EXCEPT ![x] = d],
         tenant' \in [Tenants -> TenantRow], lock' \in PurgeRuns \cup {NoRun},
         r.step \in Underway => lock' = x, RunSound(tenant', r, w, d),
         \A y \in PurgeRuns : y # x => /\ run[y].step \in Underway => lock' = y
                                       /\ RunSound(tenant', run[y], written[y], dueThen[y])
  PROVE  PurgeInv'
  <1>1. PurgeTypes
    BY DEF PurgeInv
  <1>2. PurgeTypes'
    BY <1>1 DEF PurgeTypes
  <1>3. /\ run'[x] = r /\ written'[x] = w /\ dueThen'[x] = d
        /\ \A y \in PurgeRuns : y # x => run'[y] = run[y] /\ written'[y] = written[y] /\ dueThen'[y] = dueThen[y]
    BY <1>1 DEF PurgeTypes
  <1>4. ASSUME NEW y \in PurgeRuns
        PROVE  (run'[y].step \in Underway => lock' = y) /\ RunSound(tenant', run'[y], written'[y], dueThen'[y])
    BY <1>3
  <1> QED BY <1>2, <1>4 DEF PurgeInv

(* A step of the tenants alone.                                              *)
LEMMA TenantsStep ==
  ASSUME PurgeInv, tenant' \in [Tenants -> TenantRow], RowsMove(tenant, tenant'),
         \A t \in Tenants : tenant'[t].row = "gone" => tenant[t].row = "gone",
         UNCHANGED <<lock, run, written, dueThen>>
  PROVE  PurgeInv'
  <1>1. PurgeTypes'
    BY DEF PurgeInv, PurgeTypes
  <1>2. ASSUME NEW y \in PurgeRuns
        PROVE  (run'[y].step \in Underway => lock' = y) /\ RunSound(tenant', run'[y], written'[y], dueThen'[y])
    <2>1. RunSound(tenant', run[y], written[y], dueThen[y])
      BY RunsAre, TenantsMove
    <2> QED BY <2>1, RunsAre
  <1> QED BY <1>1, <1>2 DEF PurgeInv

LEMMA InitPurgeInv == PurgeInit => PurgeInv
  <1> SUFFICES ASSUME PurgeInit PROVE PurgeInv
    OBVIOUS
  <1>1. NoPurge \in PurgeRun /\ NoPurge.step = "idle"
    <2>1. 1 \in Nat \ {0}
      OBVIOUS
    <2> QED BY <2>1, NoPurgeIs
  <1>2. PurgeTypes
    BY <1>1 DEF PurgeInit, PurgeTypes, TenantRow
  <1>3. ASSUME NEW x \in PurgeRuns
        PROVE  (run[x].step \in Underway => lock = x) /\ RunSound(tenant, run[x], written[x], dueThen[x])
    <2>1. run[x] = NoPurge /\ written[x] = {} /\ dueThen[x] = {}
      BY DEF PurgeInit
    <2> QED BY <1>1, <2>1, EndedSound DEF Underway
  <1> QED BY <1>2, <1>3 DEF PurgeInv

LEMMA StartPurgeKeeps ==
  ASSUME PurgeInv, NEW x \in PurgeRuns, NEW s \in Settings, verifyMaintenanceAuthority(x, s)
  PROVE  PurgeInv'
  <1> DEFINE n == parseBatchSize(s)
             r == [NoPurge EXCEPT !.step = "verified", !.size = n]
  <1>1. n \in Nat \ {0}
    BY PurgeConstants DEF verifyMaintenanceAuthority, loadRetentionPurgeConfig, parseBatchSize
  <1>2. /\ run' = [run EXCEPT ![x] = r] /\ written' = [written EXCEPT ![x] = {}]
        /\ dueThen' = [dueThen EXCEPT ![x] = {}] /\ tenant' = tenant /\ lock' = lock
    BY DEF verifyMaintenanceAuthority
  <1> HIDE DEF n
  <1>3. r \in PurgeRun /\ r.step = "verified" /\ r.todo = <<>> /\ Tallies(r, {})
    BY <1>1, NoPurgeIs
  <1> HIDE DEF r
  <1>4. RunSound(tenant', r, {}, {}) /\ r.step \notin Underway
    BY <1>3 DEF RunSound, Underway
  <1>5. tenant' \in [Tenants -> TenantRow] /\ lock' \in PurgeRuns \cup {NoRun}
    BY <1>2 DEF PurgeInv, PurgeTypes
  <1>6. \A y \in PurgeRuns : /\ run[y].step \in Underway => lock' = y
                             /\ RunSound(tenant', run[y], written[y], dueThen[y])
    BY <1>2, RunsAre
  <1>7. {} \in SUBSET Tenants
    OBVIOUS
  <1> QED BY <1>2, <1>3, <1>4, <1>5, <1>6, <1>7, OneRunSteps

(* A step of one run that leaves the tenants, the certificates and what was  *)
(* due as they are.                                                          *)
LEMMA RunStepsOn ==
  ASSUME PurgeInv, NEW x \in PurgeRuns, NEW r \in PurgeRun, run' = [run EXCEPT ![x] = r],
         UNCHANGED <<tenant, written, dueThen>>, RunSound(tenant, r, written[x], dueThen[x]),
         lock' \in PurgeRuns \cup {NoRun}, r.step \in Underway => lock' = x,
         \A y \in PurgeRuns : y # x /\ run[y].step \in Underway => lock' = y
  PROVE  PurgeInv'
  <1>1. PurgeTypes
    BY DEF PurgeInv
  <1>2. PurgeTypes'
    BY <1>1 DEF PurgeTypes
  <1>3. run'[x] = r /\ \A y \in PurgeRuns : y # x => run'[y] = run[y]
    BY <1>1 DEF PurgeTypes
  <1>4. ASSUME NEW y \in PurgeRuns
        PROVE  (run'[y].step \in Underway => lock' = y) /\ RunSound(tenant', run'[y], written'[y], dueThen'[y])
    BY <1>3, RunsAre
  <1> QED BY <1>2, <1>4 DEF PurgeInv

LEMMA TryLockKeeps ==
  ASSUME PurgeInv, NEW x \in PurgeRuns, tryLock(x)
  PROVE  PurgeInv'
  <1> DEFINE s == IF lock = NoRun THEN "listing" ELSE "failed"
  <1>1. /\ run[x].step = "verified" /\ run' = [run EXCEPT ![x].step = s]
        /\ lock' = (IF lock = NoRun THEN x ELSE lock) /\ UNCHANGED <<tenant, written, dueThen>>
    BY DEF tryLock
  <1>2. lock \in PurgeRuns \cup {NoRun}
    BY DEF PurgeInv, PurgeTypes
  <1>3. \A y \in PurgeRuns : y # x /\ run[y].step \in Underway => lock' = y
    BY <1>1, RunsAre, PurgeConstants
  <1>4. s \in {"aborted", "failed"} \/ (run[x].step = "verified" /\ s = "listing")
    BY <1>1
  <1>5. lock' \in PurgeRuns \cup {NoRun} /\ (s \in Underway => lock' = x)
    BY <1>1, <1>2 DEF Underway
  <1> HIDE DEF s
  <1> DEFINE r == [run[x] EXCEPT !.step = s]
  <1>6. run' = [run EXCEPT ![x] = r]
    BY <1>1
  <1>7. r \in PurgeRun /\ r.step = s /\ RunSound(tenant, r, written[x], dueThen[x])
    BY <1>4, RunsAre, Renamed
  <1> HIDE DEF r
  <1> QED BY <1>1, <1>3, <1>5, <1>6, <1>7, RunStepsOn

LEMMA UnlockKeeps ==
  ASSUME PurgeInv, NEW x \in PurgeRuns, unlock(x)
  PROVE  PurgeInv'
  <1> DEFINE s == IF run[x].step = "drained" THEN "completed" ELSE "failed"
  <1>1. /\ run[x].step \in Underway /\ run' = [run EXCEPT ![x].step = s]
        /\ lock' = (IF lock = x THEN NoRun ELSE lock) /\ UNCHANGED <<tenant, written, dueThen>>
    BY DEF unlock, Underway
  <1>2. lock = x /\ lock' = NoRun
    BY <1>1, RunsAre
  <1>3. \A y \in PurgeRuns : y # x /\ run[y].step \in Underway => lock' = y
    BY <1>2, RunsAre
  <1>4. s \in {"aborted", "failed"} \/ (run[x].step = "drained" /\ s = "completed")
    OBVIOUS
  <1>5. lock' \in PurgeRuns \cup {NoRun} /\ (s \in Underway => lock' = x)
    BY <1>2 DEF Underway
  <1> HIDE DEF s
  <1> DEFINE r == [run[x] EXCEPT !.step = s]
  <1>6. run' = [run EXCEPT ![x] = r]
    BY <1>1
  <1>7. r \in PurgeRun /\ r.step = s /\ RunSound(tenant, r, written[x], dueThen[x])
    BY <1>4, RunsAre, Renamed
  <1> HIDE DEF r
  <1> QED BY <1>1, <1>3, <1>5, <1>6, <1>7, RunStepsOn

LEMMA RefusedKeeps ==
  ASSUME PurgeInv, NEW x \in PurgeRuns, queryIsRefused(x)
  PROVE  PurgeInv'
  <1>1. /\ run[x].step \in Underway /\ run' = [run EXCEPT ![x].step = "aborted"]
        /\ UNCHANGED <<tenant, lock, written, dueThen>>
    BY DEF queryIsRefused, Underway
  <1>2. lock' = x
    BY <1>1, RunsAre
  <1>3. \A y \in PurgeRuns : y # x /\ run[y].step \in Underway => lock' = y
    BY <1>1, RunsAre
  <1> DEFINE r == [run[x] EXCEPT !.step = "aborted"]
  <1>4. run' = [run EXCEPT ![x] = r]
    BY <1>1
  <1>5. r \in PurgeRun /\ r.step = "aborted" /\ RunSound(tenant, r, written[x], dueThen[x])
    BY RunsAre, Renamed
  <1> HIDE DEF r
  <1> QED BY <1>1, <1>2, <1>3, <1>4, <1>5, RunStepsOn

LEMMA ListKeeps ==
  ASSUME PurgeInv, NEW x \in PurgeRuns, listDue(x)
  PROVE  PurgeInv'
  <1> DEFINE rows == refunddesk_list_due_tenant_purges(run[x].size)
             r == Listed(run[x], rows)
  <1>1. /\ run[x].step = "listing" /\ run' = [run EXCEPT ![x] = r] /\ dueThen' = [dueThen EXCEPT ![x] = Due]
        /\ UNCHANGED <<tenant, lock, written>>
    BY DEF listDue
  <1>2. PurgeTypes /\ run[x] \in PurgeRun /\ run[x].size \in Nat \ {0}
    BY RunsAre, RunFields DEF PurgeInv
  <1>3. /\ rows \in Seq(Candidate) /\ \A i \in 1..Len(rows) : rows[i].tenant \in Due
        /\ \A i, j \in 1..Len(rows) : i # j => rows[i].tenant # rows[j].tenant
        /\ Len(rows) # run[x].size => \A t \in Due : \E i \in 1..Len(rows) : rows[i].tenant = t
    BY <1>2, ListingIs
  <1> HIDE DEF rows
  <1>4. Distinct(rows) /\ TenantsOf(rows) \subseteq Due /\ (Len(rows) # run[x].size => Due \subseteq TenantsOf(rows))
    BY <1>3 DEF Distinct, TenantsOf
  <1>5. (\A t \in Due : tenant[t].row = "due") /\ Due \in SUBSET Tenants
    BY DEF Due, IsDue
  <1>6. r \in PurgeRun /\ r.step \in Underway /\ RunSound(tenant, r, written[x], Due)
    <2>1. RunSound(tenant, run[x], written[x], dueThen[x])
      BY RunsAre
    <2>2. \A t \in TenantsOf(rows) : tenant[t].row = "due"
      BY <1>4, <1>5
    <2> QED BY <1>1, <1>2, <1>3, <1>4, <1>5, <2>1, <2>2, ListedSound
  <1> HIDE DEF r
  <1>7. lock' = x
    BY <1>1, RunsAre DEF Underway
  <1>8. \A y \in PurgeRuns : /\ run[y].step \in Underway => lock' = y
                             /\ RunSound(tenant', run[y], written[y], dueThen[y])
    BY <1>1, RunsAre
  <1>9. tenant' \in [Tenants -> TenantRow] /\ written' = [written EXCEPT ![x] = written[x]]
    BY <1>1 DEF PurgeInv, PurgeTypes
  <1>10. RunSound(tenant', r, written[x], Due) /\ lock' \in PurgeRuns \cup {NoRun}
    BY <1>1, <1>6, <1>7
  <1> QED BY <1>1, <1>5, <1>6, <1>7, <1>8, <1>9, <1>10, RunsAre, OneRunSteps

LEMMA TenantIsPurged ==
  ASSUME PurgeInv, NEW t \in Tenants, IsDue(t), tenant' = [tenant EXCEPT ![t].row = "gone"]
  PROVE  /\ tenant' \in [Tenants -> TenantRow] /\ RowsMove(tenant, tenant') /\ tenant'[t].row = "gone"
         /\ \A y \in PurgeRuns : run[y].step # "purging" => RunSound(tenant', run[y], written[y], dueThen[y])
  <1>1. tenant \in [Tenants -> TenantRow]
    BY DEF PurgeInv, PurgeTypes
  <1>2. /\ tenant' \in [Tenants -> TenantRow] /\ tenant'[t].row = "gone"
        /\ \A u \in Tenants : u # t => tenant'[u] = tenant[u]
    BY <1>1 DEF TenantRow
  <1>3. RowsMove(tenant, tenant')
    BY <1>2 DEF RowsMove, IsDue
  <1>4. ASSUME NEW y \in PurgeRuns, run[y].step # "purging" PROVE RunSound(tenant', run[y], written[y], dueThen[y])
    BY <1>3, <1>4, RunsAre, TenantsMove
  <1> QED BY <1>2, <1>3, <1>4

LEMMA FirstCandidate ==
  ASSUME PurgeInv, NEW x \in PurgeRuns, run[x].step = "purging"
  PROVE  /\ Head(run[x].todo).tenant \in Tenants /\ tenant[Head(run[x].todo).tenant].row # "gone"
         /\ lock = x /\ \A y \in PurgeRuns : run[y].step \in Underway => y = x
  <1>1. run[x] \in PurgeRun /\ RunSound(tenant, run[x], written[x], dueThen[x])
    BY RunsAre
  <1>2. run[x].todo \in Seq(Candidate) /\ run[x].todo # <<>> /\ TodoSound(tenant, run[x], dueThen[x])
    BY <1>1, RunFields DEF RunSound
  <1>3. Head(run[x].todo).tenant \in Tenants /\ Head(run[x].todo).tenant \in TenantsOf(run[x].todo)
    BY <1>2, TailNames DEF TodoSound
  <1>4. lock = x
    BY RunsAre DEF Underway
  <1> QED BY <1>2, <1>3, <1>4, RunsAre DEF TodoSound

LEMMA CandidateIsLeft ==
  ASSUME PurgeInv, NEW x \in PurgeRuns, run[x].step = "purging", run' = [run EXCEPT ![x] = Blocked(run[x])],
         UNCHANGED <<tenant, written, lock, dueThen>>
  PROVE  PurgeInv'
  <1> DEFINE r == Blocked(run[x])
  <1>1. r \in PurgeRun /\ r.step \in Underway /\ RunSound(tenant, r, written[x], dueThen[x])
    BY RunsAre, LeftSound
  <1>2. run' = [run EXCEPT ![x] = r]
    OBVIOUS
  <1> HIDE DEF r
  <1>3. lock' = x
    BY FirstCandidate
  <1>4. \A y \in PurgeRuns : y # x /\ run[y].step \in Underway => lock' = y
    BY RunsAre
  <1> QED BY <1>1, <1>2, <1>3, <1>4, RunStepsOn

LEMMA CandidateIsPurged ==
  ASSUME PurgeInv, NEW x \in PurgeRuns, run[x].step = "purging", run' = [run EXCEPT ![x] = Purged(run[x])],
         UNCHANGED <<lock, dueThen>>,
         NEW t, t = Head(run[x].todo).tenant, Purgeable(t) \/ tenant[t].row = "gone", Purge(x, t)
  PROVE  PurgeInv'
  <1> DEFINE r == Purged(run[x])
             w == written[x] \cup {t}
  <1>1. t \in Tenants /\ IsDue(t)
    BY FirstCandidate DEF Purgeable
  <1>2. tenant' = [tenant EXCEPT ![t].row = "gone"] /\ written' = [written EXCEPT ![x] = w]
    BY <1>1 DEF Purge
  <1>3. r \in PurgeRun /\ r.step \in Underway /\ RunSound(tenant', r, w, dueThen[x])
    <2>1. /\ tenant \in [Tenants -> TenantRow] /\ run[x] \in PurgeRun /\ written[x] \in SUBSET Tenants
          /\ dueThen[x] \in SUBSET Tenants /\ RunSound(tenant, run[x], written[x], dueThen[x])
      BY RunsAre DEF PurgeInv, PurgeTypes
    <2>2. tenant[t].row = "due"
      BY <1>1 DEF IsDue
    <2> QED BY <1>2, <2>1, <2>2, PurgedSound
  <1>4. run' = [run EXCEPT ![x] = r]
    OBVIOUS
  <1>5. w \in SUBSET Tenants
    BY <1>1, RunsAre
  <1> HIDE DEF r, w
  <1>6. lock' = x /\ lock' \in PurgeRuns \cup {NoRun}
    BY FirstCandidate
  <1>7. tenant' \in [Tenants -> TenantRow]
    BY <1>1, <1>2, TenantIsPurged
  <1>8. \A y \in PurgeRuns : y # x => /\ run[y].step \in Underway => lock' = y
                                      /\ RunSound(tenant', run[y], written[y], dueThen[y])
    BY <1>1, <1>2, FirstCandidate, TenantIsPurged DEF Underway
  <1>9. PICK d \in SUBSET Tenants : d = dueThen[x]
    BY RunsAre
  <1>10. dueThen' = [dueThen EXCEPT ![x] = d] /\ RunSound(tenant', r, w, d)
    BY <1>3, <1>9 DEF PurgeInv, PurgeTypes
  <1> QED BY <1>2, <1>3, <1>4, <1>5, <1>6, <1>7, <1>8, <1>10, OneRunSteps

LEMMA HandleKeeps ==
  ASSUME PurgeInv, NEW x \in PurgeRuns, handleCandidate(x)
  PROVE  PurgeInv'
  <1> DEFINE t == Head(run[x].todo).tenant
  <1>1. run[x].step = "purging" /\ UNCHANGED <<lock, dueThen>>
    BY DEF handleCandidate
  <1>2. \/ run' = [run EXCEPT ![x] = Blocked(run[x])] /\ UNCHANGED <<tenant, written>>
        \/ /\ run' = [run EXCEPT ![x] = Purged(run[x])]
           /\ (Purgeable(t) \/ tenant[t].row = "gone") /\ Purge(x, t)
    BY DEF handleCandidate
  <1> HIDE DEF t
  <1>3. CASE run' = [run EXCEPT ![x] = Blocked(run[x])] /\ UNCHANGED <<tenant, written>>
    BY <1>1, <1>3, CandidateIsLeft
  <1>4. CASE /\ run' = [run EXCEPT ![x] = Purged(run[x])]
             /\ (Purgeable(t) \/ tenant[t].row = "gone") /\ Purge(x, t)
    <2>1. t = Head(run[x].todo).tenant
      BY DEF t
    <2> QED BY <1>1, <1>4, <2>1, CandidateIsPurged
  <1> QED BY <1>2, <1>3, <1>4

LEMMA LostKeeps ==
  ASSUME PurgeInv, NEW x \in PurgeRuns, sessionIsLost(x)
  PROVE  PurgeInv'
  <1> DEFINE r == [run[x] EXCEPT !.step = "failed"]
             t == Head(run[x].todo).tenant
  <1>1. /\ lock' = (IF lock = x THEN NoRun ELSE lock) /\ UNCHANGED dueThen
    BY DEF sessionIsLost
  <1>2. run' = [run EXCEPT ![x] = r]
    BY DEF sessionIsLost
  <1>3. r \in PurgeRun /\ r.step = "failed" /\ RunSound(tenant, r, written[x], dueThen[x])
    BY RunsAre, Renamed
  <1>4. \/ UNCHANGED <<tenant, written>>
        \/ run[x].step = "purging" /\ Purgeable(t) /\ Purge(x, t)
    BY DEF sessionIsLost
  <1> HIDE DEF r
  <1>5. lock' \in PurgeRuns \cup {NoRun} /\ r.step \notin Underway
    BY <1>1, <1>3 DEF PurgeInv, PurgeTypes, Underway
  <1>6. \A y \in PurgeRuns : y # x /\ run[y].step \in Underway => lock' = y
    BY <1>1, RunsAre
  <1>7. CASE UNCHANGED <<tenant, written>>
    BY <1>1, <1>2, <1>3, <1>5, <1>6, <1>7, RunStepsOn
  <1>8. CASE run[x].step = "purging" /\ Purgeable(t) /\ Purge(x, t)
    <2> DEFINE w == written[x] \cup {t}
    <2>1. t \in Tenants /\ IsDue(t)
      BY <1>8, FirstCandidate DEF Purgeable
    <2> HIDE DEF t
    <2>2. tenant' = [tenant EXCEPT ![t].row = "gone"] /\ written' = [written EXCEPT ![x] = w]
      BY <1>8, <2>1 DEF Purge
    <2>3. w \in SUBSET Tenants
      BY <2>1, RunsAre
    <2>4. /\ tenant' \in [Tenants -> TenantRow] /\ RowsMove(tenant, tenant') /\ tenant'[t].row = "gone"
          /\ \A y \in PurgeRuns : run[y].step # "purging" => RunSound(tenant', run[y], written[y], dueThen[y])
      BY <2>1, <2>2, TenantIsPurged
    <2>5. PICK d \in SUBSET Tenants : d = dueThen[x]
      BY RunsAre
    <2>6. dueThen' = [dueThen EXCEPT ![x] = d]
      BY <1>1, <2>5 DEF PurgeInv, PurgeTypes
    <2>7. (\A u \in w : tenant'[u].row = "gone") /\ (\A u \in d : tenant'[u].row # "waiting")
      <3>1. (\A u \in written[x] : tenant[u].row = "gone") /\ (\A u \in dueThen[x] : tenant[u].row # "waiting")
        BY RunsAre DEF RunSound
      <3>2. \A u \in Tenants : /\ tenant[u].row = "gone" => tenant'[u].row = "gone"
                               /\ tenant[u].row # "waiting" => tenant'[u].row # "waiting"
        BY <2>4 DEF RowsMove
      <3> QED BY <2>3, <2>4, <2>5, <3>1, <3>2
    <2>8. \A y \in PurgeRuns : y # x => /\ run[y].step \in Underway => lock' = y
                                        /\ RunSound(tenant', run[y], written[y], dueThen[y])
      BY <1>6, <1>8, <2>4, FirstCandidate DEF Underway
    <2> HIDE DEF w
    <2>9. RunSound(tenant', r, w, d)
      BY <1>3, <2>7, EndedSound
    <2> QED BY <1>2, <1>3, <1>5, <2>2, <2>3, <2>4, <2>6, <2>8, <2>9, OneRunSteps
  <1> QED BY <1>4, <1>7, <1>8

LEMMA TenantChangeKeeps ==
  ASSUME PurgeInv, NEW t \in Tenants, NEW to \in TenantRow, to.row \in {"due", "active"}, tenantChanges(t, to)
  PROVE  PurgeInv'
  <1>1. tenant \in [Tenants -> TenantRow] /\ tenant' = [tenant EXCEPT ![t] = to] /\ tenant[t].row = "due"
    BY DEF PurgeInv, PurgeTypes, tenantChanges, IsDue
  <1>2. /\ tenant' \in [Tenants -> TenantRow] /\ tenant'[t] = to
        /\ \A u \in Tenants : u # t => tenant'[u] = tenant[u]
    BY <1>1
  <1>3. RowsMove(tenant, tenant') /\ \A u \in Tenants : tenant'[u].row = "gone" => tenant[u].row = "gone"
    BY <1>1, <1>2 DEF RowsMove
  <1>4. UNCHANGED <<lock, run, written, dueThen>>
    BY DEF tenantChanges
  <1> QED BY <1>2, <1>3, <1>4, TenantsStep

LEMMA TroublesKeep ==
  ASSUME PurgeInv, NEW t \in Tenants,
         holdStarts(t) \/ holdEnds(t) \/ jobStarts(t) \/ jobEnds(t) \/ reinstalled(t)
  PROVE  PurgeInv'
  <1>1. tenant[t] \in TenantRow
    BY DEF PurgeInv, PurgeTypes
  <1>2. IsDue(t)
    BY DEF holdStarts, holdEnds, jobStarts, jobEnds, reinstalled, tenantChanges
  <1>3. PICK row \in TenantRow : row = tenant[t] /\ row.row = "due"
    BY <1>1, <1>2 DEF IsDue
  <1> DEFINE met == [row EXCEPT !.troubles = row.troubles + 1]
  <1>4. met \in TenantRow /\ met.row = "due"
    BY <1>3 DEF TenantRow
  <1>5. met = Meets(t)
    BY <1>3 DEF Meets
  <1> HIDE DEF met
  <1>6. /\ [met EXCEPT !.held = TRUE] \in TenantRow /\ [met EXCEPT !.held = TRUE].row = "due"
        /\ [met EXCEPT !.job = TRUE] \in TenantRow /\ [met EXCEPT !.job = TRUE].row = "due"
        /\ [row EXCEPT !.held = FALSE] \in TenantRow /\ [row EXCEPT !.held = FALSE].row = "due"
        /\ [row EXCEPT !.job = FALSE] \in TenantRow /\ [row EXCEPT !.job = FALSE].row = "due"
    BY <1>3, <1>4 DEF TenantRow
  <1>7. [row |-> "active", held |-> FALSE, job |-> FALSE, troubles |-> 0] \in TenantRow
    BY DEF TenantRow
  <1>8. CASE holdStarts(t)
    BY <1>5, <1>6, <1>8, TenantChangeKeeps DEF holdStarts
  <1>9. CASE holdEnds(t)
    BY <1>3, <1>6, <1>9, TenantChangeKeeps DEF holdEnds
  <1>10. CASE jobStarts(t)
    BY <1>5, <1>6, <1>10, TenantChangeKeeps DEF jobStarts
  <1>11. CASE jobEnds(t)
    BY <1>3, <1>6, <1>11, TenantChangeKeeps DEF jobEnds
  <1>12. CASE reinstalled(t)
    BY <1>7, <1>12, TenantChangeKeeps DEF reinstalled
  <1> QED BY <1>8, <1>9, <1>10, <1>11, <1>12

LEMMA DatePassesKeeps ==
  ASSUME PurgeInv, NEW t \in Tenants, datePasses(t)
  PROVE  PurgeInv'
  <1>1. /\ tenant \in [Tenants -> TenantRow] /\ tenant' = [tenant EXCEPT ![t].row = "due"]
        /\ tenant[t].row = "waiting"
    BY DEF PurgeInv, PurgeTypes, datePasses
  <1>2. /\ tenant' \in [Tenants -> TenantRow] /\ tenant'[t].row = "due"
        /\ \A u \in Tenants : u # t => tenant'[u] = tenant[u]
    BY <1>1 DEF TenantRow
  <1>3. RowsMove(tenant, tenant') /\ \A u \in Tenants : tenant'[u].row = "gone" => tenant[u].row = "gone"
    BY <1>1, <1>2 DEF RowsMove
  <1>4. UNCHANGED <<lock, run, written, dueThen>>
    BY DEF datePasses
  <1> QED BY <1>2, <1>3, <1>4, TenantsStep

LEMMA PurgeStays ==
  ASSUME PurgeInv, UNCHANGED <<tenant, lock, run, written, dueThen>>
  PROVE  PurgeInv'
  BY DEF PurgeInv, PurgeTypes

LEMMA NextPurgeInv == PurgeInv /\ [PurgeNext]_purgeVars => PurgeInv'
  <1> SUFFICES ASSUME PurgeInv, [PurgeNext]_purgeVars PROVE PurgeInv'
    OBVIOUS
  <1>1. CASE PurgeStarts
    BY <1>1, StartPurgeKeeps DEF PurgeStarts
  <1>2. ASSUME NEW x \in PurgeRuns, PurgeStep(x) PROVE PurgeInv'
    BY <1>2, TryLockKeeps, ListKeeps, HandleKeeps, RefusedKeeps, UnlockKeeps DEF PurgeStep
  <1>3. ASSUME NEW x \in PurgeRuns, sessionIsLost(x) PROVE PurgeInv'
    BY <1>3, LostKeeps
  <1>4. CASE grantsChange \/ grantsAreRepaired
    BY <1>4, PurgeStays DEF grantsChange, grantsAreRepaired
  <1>5. ASSUME NEW t \in Tenants, datePasses(t) PROVE PurgeInv'
    BY <1>5, DatePassesKeeps
  <1>6. ASSUME NEW t \in Tenants, holdStarts(t) \/ holdEnds(t) \/ jobStarts(t) \/ jobEnds(t) \/ reinstalled(t)
        PROVE  PurgeInv'
    BY <1>6, TroublesKeep
  <1>7. CASE UNCHANGED purgeVars
    BY <1>7, PurgeStays DEF purgeVars
  <1> QED BY <1>1, <1>2, <1>3, <1>4, <1>5, <1>6, <1>7 DEF PurgeNext

(* The lock, the counts of every run and its batch stay in step through      *)
(* purges, lost sessions and tenants that change meanwhile                   *)
(* (runRetentionPurge, packages/db/scripts/retention-purge.mjs).             *)
THEOREM PurgeInvariance == PurgeSpec => []PurgeInv
  BY InitPurgeInv, NextPurgeInv, PTL DEF PurgeSpec

LEMMA RunTellsTruth == PurgeInv => ReportIsTrue
  <1> SUFFICES ASSUME PurgeInv, NEW x \in PurgeRuns, run[x].step = "completed"
               PROVE  /\ run[x].selected = run[x].purged + run[x].blocked
                      /\ run[x].purged = Cardinality(written[x])
                      /\ run[x].blocked = 0 => \A t \in dueThen[x] : ~IsDue(t)
    BY DEF ReportIsTrue, CountsAreTrue, CompletedRunDrained
  <1>1. PICK r \in PurgeRun : r = run[x] /\ RunSound(tenant, r, written[x], dueThen[x])
    BY RunsAre
  <1>2. r.todo = <<>> /\ Tallies(r, written[x]) /\ DrainedSound(tenant, r, dueThen[x])
    BY <1>1 DEF RunSound
  <1>3. /\ r.selected \in Nat /\ r.purged \in Nat /\ r.blocked \in Nat /\ r.batchBlocked \in Nat
        /\ r.full \in BOOLEAN /\ Len(r.todo) = 0
    BY <1>2, RunFields
  <1>4. r.selected = r.purged + r.blocked + 0 /\ r.purged = Cardinality(written[x]) /\ r.batchBlocked <= r.blocked
    BY <1>2, <1>3 DEF Tallies
  <1>5. r.selected = r.purged + r.blocked
    BY <1>3, <1>4
  <1>6. r.blocked = 0 => r.batchBlocked = 0
    BY <1>3, <1>4
  <1>7. r.blocked = 0 => \A t \in dueThen[x] : tenant[t].row # "due"
    BY <1>2, <1>3, <1>6 DEF DrainedSound
  <1> QED BY <1>1, <1>4, <1>5, <1>7 DEF IsDue

(* What a completed run reports is what it did: its counts add up, there is  *)
(* one certificate for each tenant it counts as purged, and when it left     *)
(* nobody, nothing that was due at its last listing is due any more          *)
(* (runRetentionPurge, packages/db/scripts/retention-purge.mjs).             *)
THEOREM ReportTrue == PurgeSpec => []ReportIsTrue
  BY PurgeInvariance, RunTellsTruth, PTL
===============================================================================
