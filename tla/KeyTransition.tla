----------------------------- MODULE KeyTransition -----------------------------
(* The three families of application keys (field encryption, refund proof,    *)
(* approval attestation) and the release that moves a host from one           *)
(* configuration of them to the next: the rotation states, the keyrings built *)
(* from them, the checks before a release, the journal that announces it, the *)
(* candidate runtime that serves before it is committed, the metadata written *)
(* one after the other, and what happens when the release fails, is killed    *)
(* and is run again. A revision stands for its source and its image; the      *)
(* image selection, the systemd units and the database passes that a release  *)
(* also handles follow the revision and are left out.                         *)
EXTENDS Naturals, Sequences

CONSTANTS
  Families,         \* bound: the families of keys this instance looks at
  Materials,        \* keys
  NoKey,            \* a version that is not configured
  Targets,          \* bound: the configurations that somebody asks for
  MaxRevision,      \* bound: the revisions that are released
  InitialHosts      \* bound: the hosts this instance starts from

RotationState == {"legacy", "staged", "active", "rollback", "retired"}
Revisions == 1..MaxRevision

(* The one revision that ran before rotation states were recorded.            *)
LegacyRevision == 1

Family == [state: RotationState, active: {"v1", "v2"},
           v1: Materials \cup {NoKey}, v2: Materials \cup {NoKey}]

ASSUME KeyAssumption ==
    /\ Families \subseteq {"field", "proof", "approvalAttestation"}
    /\ NoKey \notin Materials /\ Targets \subseteq [Families -> Family]
    /\ MaxRevision \in Nat \ {0}
    /\ InitialHosts \subseteq {"fresh", "adopted", "recorded"}

VARIABLES
  host,     \* the durable markers: active revision, current source, recorded rotation
  box,      \* the containers of web and worker: their revision, configuration, whether they run
  journal,  \* the transition journal: the side it comes from and the side it goes to
  marker,   \* the commit marker of the last committed transition
  rel,      \* the release that is running: its step, its target, what the host was before
  stored    \* stored[f]: what was sealed with family f's keys and is retained

keyVars == <<host, box, journal, marker, rel, stored>>

-------------------------------------------------------------------------------
(* Rotation states and keyrings.                                              *)

applicationKeyMaterialStateIsValid(m) ==
    /\ m.active = (IF m.state \in {"active", "retired"} THEN "v2" ELSE "v1")
    /\ (m.v1 = NoKey) <=> (m.state = "retired")
    /\ (m.v2 = NoKey) <=> (m.state = "legacy")

(* What a keyring seals with, and what it opens or verifies.                  *)
Ring(m) ==
    [active |-> [version |-> m.active, key |-> IF m.active = "v1" THEN m.v1 ELSE m.v2],
     accepts |-> {k \in {[version |-> "v1", key |-> m.v1], [version |-> "v2", key |-> m.v2]} :
                    k.key # NoKey}]

createFieldEncryptionKeyring(c) == Ring(c["field"])
createRefundProofKeyring(c) == Ring(c["proof"])
createApprovalAttestationKeyring(c) == Ring(c["approvalAttestation"])

Keyrings(c) ==
    [f \in Families |->
       CASE f = "field" -> createFieldEncryptionKeyring(c)
         [] f = "proof" -> createRefundProofKeyring(c)
         [] f = "approvalAttestation" -> createApprovalAttestationKeyring(c)]

(* Every key of a release is used for one thing.                              *)
assertReleaseConfigSeparation(c) ==
    /\ \A f \in Families : applicationKeyMaterialStateIsValid(c[f])
    /\ \A f \in Families : c[f].v1 # c[f].v2
    /\ \A f, g \in Families :
         f # g => {c[f].v1, c[f].v2} \cap {c[g].v1, c[g].v2} \subseteq {NoKey}

ALLOWED_INITIAL_STATES == {"legacy", "staged"}

ALLOWED_TRANSITIONS ==
    [legacy |-> {"legacy", "staged"}, staged |-> {"legacy", "staged", "active"},
     active |-> {"active", "rollback"}, rollback |-> {"active", "rollback"},
     retired |-> {"retired"}]

assertApplicationKeyRotationTransition(recorded, previous, target) ==
    \A f \in Families :
        target[f] \in IF recorded THEN ALLOWED_TRANSITIONS[previous[f]]
                      ELSE ALLOWED_INITIAL_STATES

-------------------------------------------------------------------------------
(* The two sides of a transition.                                             *)

NoKeys == [v1 |-> NoKey, v2 |-> NoKey]
KeysOf(c) == [f \in Families |-> [v1 |-> c[f].v1, v2 |-> c[f].v2]]
StatesOf(c) == [f \in Families |-> c[f].state]

Side == [revision: Revisions \cup {0}, recorded: BOOLEAN,
         states: [Families -> RotationState \cup {"none"}],
         keys: [Families -> [v1: Materials \cup {NoKey}, v2: Materials \cup {NoKey}]]]

FreshSide == [revision |-> 0, recorded |-> FALSE, states |-> [f \in Families |-> "none"],
              keys |-> [f \in Families |-> NoKeys]]

SideOf(r, c) == [revision |-> r, recorded |-> TRUE, states |-> StatesOf(c), keys |-> KeysOf(c)]

(* The keys of a side are those its states call for (expected_presence).      *)
validate_side(s) ==
    \A f \in Families :
        IF s.revision = 0 THEN s.keys[f] = NoKeys
        ELSE /\ (s.keys[f].v1 = NoKey) <=> (s.states[f] = "retired")
             /\ (s.keys[f].v2 = NoKey) <=> (s.states[f] = "legacy")

(* Mutant: a key may be dropped with the state that called for it. *)
assert_union_byState(previous, target) ==
    \A f \in Families : \A v \in {"v1", "v2"} : target[f][v] \in {NoKey, previous[f][v]}
                                                  \/ previous[f][v] = NoKey

(* A target keeps every key the host has accepted so far.                     *)
assert_union(previous, target) ==
    \A f \in Families : \A v \in {"v1", "v2"} :
        previous[f][v] # NoKey => target[f][v] = previous[f][v]

(* The rotation that the host's record, and the revision it names, allow.     *)
checkApplicationKeyRotationReleaseTransition(from, target) ==
    /\ from.revision # 0 /\ ~from.recorded => from.revision = LegacyRevision
    /\ assertApplicationKeyRotationTransition(from.recorded, from.states, target)

NoTransition == [from |-> FreshSide, to |-> FreshSide]
NoConfiguration == [f \in Families |->
                      [state |-> "legacy", active |-> "v1", v1 |-> NoKey, v2 |-> NoKey]]
NoBox == [revision |-> 0, config |-> NoConfiguration, up |-> FALSE]
NoHost == [active |-> 0, source |-> 0, rotation |-> FreshSide]
NoRelease == [step |-> "none", revision |-> 0, config |-> NoConfiguration, undo |-> NoHost]

Idle == rel = NoRelease
Journaled == journal # NoTransition
Target == SideOf(rel.revision, rel.config)

-------------------------------------------------------------------------------
(* The host at the start: fresh, adopted from before rotation states were     *)
(* recorded, or with its states recorded; an adopted or recorded host serves. *)

Legacy(c) == \A f \in Families : c[f].state = "legacy"

KeyInit ==
    /\ journal = NoTransition /\ marker = NoTransition /\ rel = NoRelease
    /\ stored = [f \in Families |-> {}]
    /\ \/ "fresh" \in InitialHosts /\ host = NoHost /\ box = NoBox
       \/ \E c \in {d \in Targets : Legacy(d) /\ assertReleaseConfigSeparation(d)} :
            /\ box = [revision |-> LegacyRevision, config |-> c, up |-> TRUE]
            /\ \/ /\ "adopted" \in InitialHosts
                  /\ host = [active |-> LegacyRevision, source |-> LegacyRevision,
                              rotation |-> FreshSide]
               \/ /\ "recorded" \in InitialHosts
                  /\ host = [active |-> LegacyRevision, source |-> LegacyRevision,
                              rotation |-> SideOf(LegacyRevision, c)]

-------------------------------------------------------------------------------
(* A release.                                                                 *)

(* Without a journal the markers agree with one another and with the          *)
(* containers, whose keys are the ones recorded. A record of schemaVersion 1, *)
(* which an older release left and which has no fingerprints to compare, is   *)
(* not modelled.                                                              *)
MarkersAgree ==
    /\ host.source = host.active
    /\ host.rotation.recorded => host.rotation.revision = host.active

Settled ==
    /\ MarkersAgree
    /\ host.active = 0 => ~host.rotation.recorded
    /\ host.active # 0 => box.revision = host.active
    /\ host.rotation.recorded => KeysOf(box.config) = host.rotation.keys

ObservedSide ==
    IF host.active = 0 THEN FreshSide
    ELSE [revision |-> host.active, recorded |-> host.rotation.recorded,
          states |-> IF host.rotation.recorded THEN host.rotation.states
                     ELSE [f \in Families |-> "legacy"],
          keys |-> KeysOf(box.config)]

(* With a journal the release is the one that it announces, and each marker   *)
(* is on one of its sides, in the order in which they are written.            *)
InCommitOrder(from, to, rotated) ==
    \/ from.revision = to.revision
    \/ host.active = from.revision /\ host.source = from.revision /\ ~rotated
    \/ host.active = to.revision /\ host.source = from.revision /\ ~rotated
    \/ host.active = to.revision /\ host.source = to.revision

Resumable(to) ==
    LET from == journal.from
        rotated == host.rotation = to
    IN  /\ journal.to = to
        /\ {host.active, host.source} \subseteq {from.revision, to.revision}
        /\ rotated \/ host.rotation = (IF from.recorded THEN from ELSE FreshSide)
        /\ InCommitOrder(from, to, rotated)

Admissible(from, to) ==
    /\ assert_union(from.keys, to.keys)
    /\ checkApplicationKeyRotationReleaseTransition(from, to.states)
    /\ validate_side(from) /\ validate_side(to)

(* The checks pass, everything that runs is stopped, and the transition is    *)
(* announced. The journal of a release that was killed keeps its first side.  *)
prepare(r, c) ==
    LET to == SideOf(r, c)
        from == IF Journaled THEN journal.from ELSE ObservedSide
    IN  /\ Idle
        /\ assertReleaseConfigSeparation(c) /\ \A f \in Families : c[f].state # "retired"
        /\ IF Journaled THEN Resumable(to) ELSE Settled
        /\ Admissible(from, to)
        /\ journal' = [from |-> from, to |-> to]
        /\ box' = [box EXCEPT !.up = FALSE]
        /\ rel' = [step |-> "prepared", revision |-> r, config |-> c, undo |-> host]
        /\ UNCHANGED <<host, marker, stored>>

StepsTo(a, b) == rel.step = a /\ rel' = [rel EXCEPT !.step = b]

createCandidates ==
    /\ StepsTo("prepared", "created")
    /\ box' = [revision |-> rel.revision, config |-> rel.config, up |-> FALSE]
    /\ UNCHANGED <<host, journal, marker, stored>>

(* The candidate serves and is verified before anything names it.             *)
startCandidates ==
    /\ StepsTo("created", "serving")
    /\ box' = [box EXCEPT !.up = TRUE]
    /\ UNCHANGED <<host, journal, marker, stored>>

replaceActiveRevision ==
    /\ StepsTo("serving", "named")
    /\ host' = [host EXCEPT !.active = rel.revision]
    /\ UNCHANGED <<box, journal, marker, stored>>

replaceCurrentSource ==
    /\ StepsTo("named", "linked")
    /\ host' = [host EXCEPT !.source = rel.revision]
    /\ UNCHANGED <<box, journal, marker, stored>>

replaceRotationState ==
    /\ StepsTo("linked", "rotated")
    /\ host' = [host EXCEPT !.rotation = Target]
    /\ UNCHANGED <<box, journal, marker, stored>>

(* The commit: the marker first, then the journal is removed.                 *)
writeCommitMarker ==
    /\ StepsTo("rotated", "marked")
    /\ marker' = journal
    /\ UNCHANGED <<host, box, journal, stored>>

complete ==
    /\ StepsTo("marked", "committed")
    /\ journal' = NoTransition
    /\ UNCHANGED <<host, box, marker, stored>>

promotionComplete ==
    /\ rel.step = "committed" /\ rel' = NoRelease
    /\ UNCHANGED <<host, box, journal, marker, stored>>

-------------------------------------------------------------------------------
(* A release that fails, and one that is killed.                              *)

(* Whether the release finds itself committed.                                *)
Committed == rel.step = "committed" \/ marker = journal

(* The markers this release has written, in the order they are restored.      *)
Written ==
    CASE rel.step = "named" -> <<"active">>
      [] rel.step = "linked" -> <<"source", "active">>
      [] rel.step \in {"rotated", "marked"} -> <<"rotation", "source", "active">>
      [] OTHER -> <<>>

Restored(n) ==
    [m \in DOMAIN host |-> IF \E i \in 1..n : Written[i] = m THEN rel.undo[m] ELSE host[m]]

(* Mutant: the journal goes although the candidate could not be stopped. *)
Retires_serving(n, stopped) == n = Len(Written)

(* The journal has done its work when every marker that this release wrote is *)
(* restored and the candidate is stopped.                                     *)
Retires(n, stopped) == n = Len(Written) /\ stopped

(* The release restores the markers it has written until one of them fails,   *)
(* and stops the candidate if it can; a committed one only stops it.          *)
fail_closed(n, stopped) ==
    /\ ~Idle
    /\ host' = IF Committed THEN host ELSE Restored(n)
    /\ journal' = IF ~Committed /\ Retires(n, stopped) THEN NoTransition ELSE journal
    /\ box' = [box EXCEPT !.up = @ /\ ~stopped]
    /\ rel' = NoRelease
    /\ UNCHANGED <<marker, stored>>

(* The process is killed, or the host goes down, between two of its steps.    *)
releaseIsKilled ==
    /\ ~Idle /\ rel' = NoRelease
    /\ box' \in {box, [box EXCEPT !.up = FALSE]}
    /\ UNCHANGED <<host, journal, marker, stored>>

(* The fence stops every candidate for as long as the journal is open.        *)
enter_emergency_fence ==
    /\ Idle /\ Journaled /\ box.up
    /\ box' = [box EXCEPT !.up = FALSE]
    /\ UNCHANGED <<host, journal, marker, rel, stored>>

(* The command that the release logs after a rollback: the containers of the  *)
(* active revision are created again, with the configuration as the failed    *)
(* release left it or as the record names it.                                 *)
recreateRuntime(c) ==
    /\ Idle /\ ~Journaled /\ host.active # 0 /\ box.revision # host.active
    /\ c = box.config \/ SideOf(host.active, c) = host.rotation
    /\ box' = [revision |-> host.active, config |-> c, up |-> FALSE]
    /\ UNCHANGED <<host, journal, marker, rel, stored>>

-------------------------------------------------------------------------------
(* What serves seals with the active key of the family: a justification, the  *)
(* proof of a refund, the attestation of an approval.                         *)
seal(f) ==
    /\ box.up
    /\ LET k == Keyrings(box.config)[f].active
       IN stored' = [stored EXCEPT ![f] = @ \cup {[key |-> k, first |-> Journaled /\ journal.from.revision = 0]}]
    /\ UNCHANGED <<host, box, journal, marker, rel>>

Readable(f, k) == k \in Keyrings(box.config)[f].accepts

KeyNext ==
    \/ \E r \in Revisions, c \in Targets : prepare(r, c)
    \/ createCandidates \/ startCandidates
    \/ replaceActiveRevision \/ replaceCurrentSource \/ replaceRotationState
    \/ writeCommitMarker \/ complete \/ promotionComplete
    \/ \E n \in 0..3, stopped \in BOOLEAN : n <= Len(Written) /\ fail_closed(n, stopped)
    \/ releaseIsKilled \/ enter_emergency_fence
    \/ \E c \in Targets : recreateRuntime(c)
    \/ \E f \in Families : seal(f)

KeySpec == KeyInit /\ [][KeyNext]_keyVars

-------------------------------------------------------------------------------
(* Properties.                                                                *)

Sealed == [key: [version: {"v1", "v2"}, key: Materials], first: BOOLEAN]

(* What runs, or was last created, has a valid configuration.                 *)
KeyTypeOK ==
    /\ host \in [active: Revisions \cup {0}, source: Revisions \cup {0}, rotation: Side]
    /\ box \in [revision: Revisions \cup {0}, config: [Families -> Family], up: BOOLEAN]
    /\ box.revision # 0 => assertReleaseConfigSeparation(box.config)
    /\ journal \in [from: Side, to: Side] /\ marker \in [from: Side, to: Side]
    /\ rel.step \in {"none", "prepared", "created", "serving", "named", "linked", "rotated",
                     "marked", "committed"}
    /\ \A f \in Families : stored[f] \subseteq Sealed

(* Whatever was sealed once the first release of a host was committed can be  *)
(* opened and verified by whatever serves later, through releases that fail,  *)
(* are killed and are run again, although a candidate seals with the key of a *)
(* rotation that is undone afterwards (assert_union in front of               *)
(* assertApplicationKeyRotationTransition, which alone would let a staged     *)
(* family go back to legacy).                                                 *)
StoredIsReadable ==
    box.up => \A f \in Families : \A s \in stored[f] : s.first \/ Readable(f, s.key)

(* Nothing serves that neither the record nor an open journal names: keys     *)
(* that are in use can be found from the host's durable state at any time     *)
(* (fail_closed, release-fence.sh).                                           *)
ServingIsAccounted ==
    box.up => \/ host.rotation = SideOf(box.revision, box.config)
              \/ Journaled /\ journal.to = SideOf(box.revision, box.config)
              \/ ~host.rotation.recorded /\ box.revision = host.active

(* A journal is retired only with its markers on one side: "A rollback that   *)
(* restored every metadata target and stopped every candidate container has   *)
(* nothing left to fence" (release.sh:1638), and without a journal the next   *)
(* release refuses markers that disagree.                                     *)
RetiredJournalLeavesAgreement ==
    Idle /\ ~Journaled => MarkersAgree
=============================================================================
