---------------------------- MODULE HumanReview ----------------------------
(***************************************************************************)
(* The blind human review of a formal corpus.  A batch is exported under    *)
(* blind names, reviewers decide, a part of the batch is decided again      *)
(* later, and a replay turns the decisions into labels.  Decisions and      *)
(* replays are files that are created once; between the files every caller  *)
(* holds what it likes in memory.  The formal qualification reads the files *)
(* and computes the replay a second time, in code of its own.               *)
(*                                                                         *)
(* A blind name is the place of its item in the batch.  There is one batch, *)
(* one decision set and one replay: others have other names and files.      *)
(***************************************************************************)
EXTENDS Naturals, Sequences

CONSTANTS Samples,       \* the corpus, in its canonical order
          Gold,          \* the label each sample has in corpus and observations
          Observed,      \* the observations of the run
          Observations,  \* observations a caller may hand over: [sample, row], in order
          Labels,        \* final_correct, process_valid, first_error_step and taxonomy
          Reviewers,
          Draws,         \* Draws[n]: what the generator may draw from n places, over all seeds
          Orders,        \* orders in which a batch may be built
          Drafts         \* decisions somebody may put together: [initial, delayed]

Size == Len(Samples)
Distinct(s) == \A i, j \in DOMAIN s : s[i] = s[j] => i = j

\* One decision: on which blind item, by whom, when, and what.
Decision == [blind : Nat, reviewer : Reviewers, at : Nat, label : Labels]

BlindOf(decisions) == [i \in DOMAIN decisions |-> decisions[i].blind]
Drawn(s, draw) == [k \in DOMAIN draw |-> s[draw[k]]]

On(decisions, blind) == {i \in DOMAIN decisions : decisions[i].blind = blind}
The(decisions, blind) == decisions[CHOOSE i \in On(decisions, blind) : TRUE]

\* HumanDecisionSet.validate_review_rounds: one initial decision per item, and a later
\* one for each item of the seeded sample, in its order.
WellFormed(d) ==
  LET ids == BlindOf(d.initial) IN
  /\ d.initial # << >> /\ Distinct(ids)
  /\ \E draw \in Draws[Len(ids)] : BlindOf(d.delayed) = Drawn(ids, draw)
  /\ \A i \in DOMAIN d.delayed : d.delayed[i].at > The(d.initial, d.delayed[i].blind).at

ASSUME HumanReviewAssumption ==
  /\ Distinct(Samples) /\ Samples # << >>
  /\ Gold \in [{Samples[i] : i \in DOMAIN Samples} -> Labels]
  /\ Samples \in Seq(DOMAIN Gold)
  /\ \A n \in 1..Size : \A draw \in Draws[n] :
       Distinct(draw) /\ Len(draw) = (n + 4) \div 5 /\ \A k \in DOMAIN draw : draw[k] \in 1..n
  /\ Observed \in Observations
  /\ \A o \in Orders : Len(o) = Size /\ Distinct(o) /\ \A i \in DOMAIN o : o[i] \in DOMAIN Gold
  /\ \A d \in Drafts :
       /\ d.initial \in Seq(Decision) /\ d.delayed \in Seq(Decision)
       /\ Len(d.initial) <= Size

DecisionSets == {d \in Drafts : WellFormed(d)}

NoDecisions == [initial |-> << >>, delayed |-> << >>]
NoReplay == [observations |-> << >>, labels |-> << >>, changes |-> << >>]

VARIABLES export,     \* export.json: the sample behind each blind item
          mapping,    \* mapping.json
          decisions,  \* the decision set on disk
          replay,     \* the replay on disk: observations, labels, and what rereviews changed
          outcome     \* "open", "accepted" or "refused": the qualification

reviewVars == <<export, mapping, decisions, replay, outcome>>

-------------------------------------------------------------------------------
(* replay_decisions                                                        *)

\* Mutant: the first decision of an item stands.
FirstDecision(d, blind) == The(d.initial, blind)

\* delayed_by_blind.get(blind, initial)
Standing(d, blind) ==
  IF On(d.delayed, blind) # {} THEN The(d.delayed, blind) ELSE The(d.initial, blind)

Changed(d, i) == d.delayed[i].label # The(d.initial, d.delayed[i].blind).label
Changes(d) == SelectSeq([i \in DOMAIN d.delayed |-> i], LAMBDA i : Changed(d, i))

\* The decisions cover the batch, in any order, and the labels follow their order; every
\* sample of the batch is observed.
Replayable(d, m, o) ==
  /\ {d.initial[i].blind : i \in DOMAIN d.initial} = DOMAIN m
  /\ \A b \in DOMAIN m : \E k \in DOMAIN o : o[k].sample = m[b]
Replayed(d, m, o) ==
  [observations |-> o,
   labels |-> [i \in DOMAIN d.initial |->
                 [sample |-> m[d.initial[i].blind],
                  label |-> Standing(d, d.initial[i].blind).label]],
   changes |-> Changes(d)]

-------------------------------------------------------------------------------
(* _validate_human_review_chain                                            *)

\* Mutant: another reviewer may decide the second time.
SameItemsOnly(d) == \A i \in DOMAIN d.delayed : On(d.initial, d.delayed[i].blind) # {}

SameReviewer(d) ==
  \A i \in DOMAIN d.delayed : d.delayed[i].reviewer = The(d.initial, d.delayed[i].blind).reviewer

\* The labels in the order of the mapping.
ExpectedLabels(d, m) ==
  LET final == [b \in DOMAIN m |-> IF On(d.delayed, b) = {} THEN The(d.initial, b)
                                                            ELSE The(d.delayed, b)] IN
  [b \in DOMAIN m |-> [sample |-> m[b], label |-> final[b].label]]
Expected(d, m, o) ==
  [observations |-> o, labels |-> ExpectedLabels(d, m), changes |-> Changes(d)]

\* human-labels.json, which holds what corpus and observations hold.
GoldLabels == [i \in DOMAIN Samples |-> [sample |-> Samples[i], label |-> Gold[Samples[i]]]]

Confirms ==
  /\ export = Samples /\ mapping = Samples
  /\ BlindOf(decisions.initial) = [b \in DOMAIN mapping |-> b]
  /\ SameReviewer(decisions)
  /\ replay = Expected(decisions, mapping, Observed)
  /\ replay.labels = GoldLabels

-------------------------------------------------------------------------------
(* The steps                                                               *)

ReviewInit ==
  /\ export = << >> /\ mapping = << >>
  /\ decisions = NoDecisions /\ replay = NoReplay
  /\ outcome = "open"

\* persist_blind_batch: two files, and the second may not come to be.
PersistBatch ==
  /\ export = << >> /\ outcome = "open"
  /\ \E o \in Orders : export' = o /\ mapping' \in {o, << >>}
  /\ UNCHANGED <<decisions, replay, outcome>>

PersistDecisions ==
  /\ decisions = NoDecisions /\ outcome = "open"
  /\ decisions' \in DecisionSets
  /\ UNCHANGED <<export, mapping, replay, outcome>>

\* replay_decisions takes observations, mapping and decisions from its caller, not from
\* the files.
ReplayDecisions ==
  /\ replay = NoReplay /\ outcome = "open"
  /\ \E d \in DecisionSets, m \in Orders, o \in Observations :
       Replayable(d, m, o) /\ replay' = Replayed(d, m, o)
  /\ UNCHANGED <<export, mapping, decisions, outcome>>

\* Files that are not there make the qualification fail before.
QualifyReview ==
  /\ outcome = "open"
  /\ mapping # << >> /\ decisions # NoDecisions /\ replay # NoReplay
  /\ outcome' = IF Confirms THEN "accepted" ELSE "refused"
  /\ UNCHANGED <<export, mapping, decisions, replay>>

ReviewNext == PersistBatch \/ PersistDecisions \/ ReplayDecisions \/ QualifyReview

ReviewSpec == ReviewInit /\ [][ReviewNext]_reviewVars

-------------------------------------------------------------------------------
(* Properties                                                              *)

\* The decisions about the item that stood for a sample in the batch that was shown,
\* in the order of time.
About(sample) ==
  LET shown(b) == export[b] = sample IN
  [first |-> {i \in DOMAIN decisions.initial : shown(decisions.initial[i].blind)},
   again |-> {i \in DOMAIN decisions.delayed : shown(decisions.delayed[i].blind)}]

\* An accepted review is one of the run and of the whole corpus by the files: the replay
\* holds the run's own observations, the label of every sample is the last that was
\* decided about the item that stood for it, and a second decision is the first
\* reviewer's own.
AcceptedIsReviewed ==
  outcome = "accepted" =>
    /\ replay.observations = Observed
    /\ \A i \in DOMAIN Samples :
         LET about == About(Samples[i])
             label == Gold[Samples[i]] IN
         /\ replay.labels[i] = [sample |-> Samples[i], label |-> label]
         /\ \E f \in about.first :
              IF about.again = {} THEN decisions.initial[f].label = label
              ELSE \E a \in about.again :
                     /\ decisions.delayed[a].label = label
                     /\ decisions.delayed[a].reviewer = decisions.initial[f].reviewer
                     /\ decisions.delayed[a].at > decisions.initial[f].at

\* The two computations of a replay agree wherever both apply, so a review that
\* followed the canonical order, kept its reviewers and came to the gold labels is
\* never refused.
ReplaysAgree ==
  ~ /\ outcome = "refused"
    /\ export = Samples /\ mapping = Samples
    /\ BlindOf(decisions.initial) = [b \in DOMAIN mapping |-> b]
    /\ SameReviewer(decisions)
    /\ replay = Replayed(decisions, mapping, Observed)
    /\ \A b \in DOMAIN mapping : Standing(decisions, b).label = Gold[mapping[b]]

=============================================================================
