------------------------------ MODULE Selection ------------------------------
(***************************************************************************)
(* The selection of the problems of a formal corpus.  Two raw files are     *)
(* acquired and pinned; a conversion assesses every row of one of them with *)
(* the reviews a person wrote; a quota report counts the eligible problems  *)
(* of each cell; a curator's choice is frozen; and a frozen selection is    *)
(* verified by replaying all of it from the pinned bytes.                   *)
(*                                                                         *)
(* The steps are the commands of dataset_cli, which an operator gives in    *)
(* any order, on any of the reports that earlier ones wrote.                *)
(*                                                                         *)
(* A file is read as rows by a converter outside the repository, which is   *)
(* pinned by name and version only: Listings says what it may make of the   *)
(* bytes.  A content hash is modelled by the content.                       *)
(***************************************************************************)
EXTENDS Naturals, Sequences, FiniteSets

CONSTANTS Splits,      \* "validation" and "test"
          Topics, Bands,
          PerCell,     \* problems of a cell: 2
          NoTopic,     \* the topic of a review that names none
          NoProblem,   \* the problem of a row without an identity
          Files,       \* bytes a raw file may have
          Listings,    \* bytes -> the sequences of rows a converter may make of them
          Acquired,    \* split -> the bytes of the acquisition manifest
          ReviewSets,  \* sets of reviews that may be used
          Approved     \* split -> the review set of the review manifest

Cells == Topics \X Bands

\* sound: everything the assessment asks of a row but its identity, its topic and its
\* review; content: what else two rows may differ in.
RawRow == [problem : STRING \cup {NoProblem}, topics : SUBSET Topics, band : Bands,
           sound : BOOLEAN, content : Nat]

\* row: the row the reviewer saw; bound: the review is an artifact that carries its hash.
CheckerReview == [problem : STRING, row : RawRow, bound : BOOLEAN,
           standard : BOOLEAN, topic : Topics \cup {NoTopic}]

ASSUME SelectionAssumption ==
  /\ Acquired \in [Splits -> Files]
  /\ \A f \in Files : Listings[f] \subseteq Seq(RawRow)
  /\ \A s \in ReviewSets : s \subseteq CheckerReview
  /\ Approved \in [Splits -> ReviewSets]
  /\ NoTopic \notin Topics /\ IsFiniteSet(Topics)
  /\ PerCell \in Nat \ {0}

VARIABLES conversions,  \* split -> its report: [source, rows, reviews], or none
          quota,        \* the quota report: [of, fulfilled], or none
          selection,       \* the frozen selection: [quota, entries], or none
          chain         \* the verified chain: [entries, rows], or none

selectionVars == <<conversions, quota, selection, chain>>

Nothing == << >>

-------------------------------------------------------------------------------
(* Conversion                                                              *)

\* _assess_row: the topic a row counts for.  A single matching topic needs no review of
\* it and bears no other; several need one that picks among them.
TopicsOf(row, review) ==
  IF Cardinality(row.topics) = 1
  THEN {t \in row.topics : review.topic \in {t, NoTopic}}
  ELSE row.topics \cap {review.topic}

\* The first row of a problem, with a review that calls its checker standard.
Passes(rows, i, review) ==
  /\ rows[i].sound /\ rows[i].problem # NoProblem
  /\ \A j \in 1..(i - 1) : rows[j].problem # rows[i].problem
  /\ review.problem = rows[i].problem /\ review.standard

\* The entries of a selection that a row may become, with a review.
EntriesOf(row, review, split) ==
  {[problem |-> row.problem, split |-> split, topic |-> t, band |-> row.band,
    row |-> row, review |-> review] : t \in TopicsOf(row, review)}

\* The entries of the rows that are not rejected.
Eligible(report, split) ==
  LET rows == report.rows IN
  UNION {UNION {EntriesOf(rows[i], review, split) :
                  review \in {r \in report.reviews : Passes(rows, i, r)}} : i \in DOMAIN rows}

\* Mutant: the row a reviewer saw is not compared with the row that is assessed.
FitsById(rows, reviews) ==
  /\ \A a, b \in reviews : a.problem = b.problem => a = b
  /\ \A review \in reviews :
       review.bound => \E i \in DOMAIN rows : rows[i].problem = review.problem

\* What convert_codecontests_file asks of reviews: one of a problem; and of an artifact,
\* that its problem is among the rows, every time as the reviewer saw it.
Fits(rows, reviews) ==
  /\ \A a, b \in reviews : a.problem = b.problem => a = b
  /\ \A review \in reviews : review.bound =>
       /\ \E i \in DOMAIN rows : rows[i].problem = review.problem
       /\ \A i \in DOMAIN rows : rows[i].problem = review.problem => rows[i] = review.row

-------------------------------------------------------------------------------
(* Quota and freeze                                                        *)

Candidates(reports) == UNION {Eligible(reports[s], s) : s \in Splits}

\* No problem is eligible in two conversions (in one it is only eligible once).
NoneTwice(reports) ==
  \A a, b \in Candidates(reports) : a.problem = b.problem => a.split = b.split

InCell(entries, cell) == {e \in entries : <<e.topic, e.band>> = cell}

Fulfilled(reports) ==
  \A cell \in Cells : Cardinality(InCell(Candidates(reports), cell)) >= PerCell

\* build_quota_report
QuotaOf(reports) == [of |-> reports, fulfilled |-> Fulfilled(reports)]

\* _validate_conversion_acquisition: both reports are of the acquired bytes.
OfAcquired(reports) == \A s \in Splits : reports[s].source = Acquired[s]

\* freeze_selection: the entries of a choice of problems, which may be frozen.
MayFreeze(choice, reports, report) ==
  LET entries == {e \in Candidates(reports) : e.problem \in choice} IN
  /\ OfAcquired(reports)
  /\ report.fulfilled /\ report.of = reports
  /\ \A e \in Candidates(reports) : e.review.bound
  /\ NoneTwice(reports)
  /\ choice \subseteq {e.problem : e \in Candidates(reports)}
  /\ \A cell \in Cells : Cardinality(InCell(entries, cell)) = PerCell

FrozenOf(choice, reports, report) ==
  [quota |-> report, entries |-> {e \in Candidates(reports) : e.problem \in choice}]

-------------------------------------------------------------------------------
(* Replay                                                                  *)

\* load_pinned_review_set: the bytes of both review files are those of the manifest.
AreApproved(sets) == sets = Approved

\* verify_frozen_selection_chain and validate_frozen_selection: the bytes are the
\* acquired ones and the reviews the approved ones, and what comes of them, as the
\* converter lists them now, is the selection that is verified.
Replays(files, sets, rows) ==
  LET reports == [s \in Splits |-> [source |-> files[s], rows |-> rows[s], reviews |-> sets[s]]]
      choice == {e.problem : e \in selection.entries}
  IN
  /\ files = Acquired /\ AreApproved(sets)
  /\ \A s \in Splits : rows[s] \in Listings[files[s]] /\ Fits(rows[s], sets[s])
  /\ NoneTwice(reports)
  /\ MayFreeze(choice, reports, QuotaOf(reports))
  /\ selection = FrozenOf(choice, reports, QuotaOf(reports))

-------------------------------------------------------------------------------
(* The steps.  What a step refuses leaves everything as it was.            *)

SelectionInit ==
  /\ conversions = [s \in Splits |-> Nothing]
  /\ quota = Nothing /\ selection = Nothing /\ chain = Nothing

\* Of a file the validation of some acquisition names, with any reviews.
Convert(split) ==
  /\ conversions[split] = Nothing
  /\ \E f \in Files, reviews \in ReviewSets : \E rows \in Listings[f] :
       /\ Fits(rows, reviews)
       /\ conversions' =
            [conversions EXCEPT ![split] = [source |-> f, rows |-> rows, reviews |-> reviews]]
  /\ UNCHANGED <<quota, selection, chain>>

\* A report is made again, after others were made from it.
ConvertAgain(split) ==
  /\ conversions[split] # Nothing /\ selection = Nothing
  /\ conversions' = [conversions EXCEPT ![split] = Nothing]
  /\ UNCHANGED <<quota, selection, chain>>

Count ==
  /\ selection = Nothing /\ \A s \in Splits : conversions[s] # Nothing
  /\ NoneTwice(conversions)
  /\ quota' = QuotaOf(conversions)
  /\ UNCHANGED <<conversions, selection, chain>>

FreezeSelection ==
  /\ quota # Nothing /\ selection = Nothing /\ \A s \in Splits : conversions[s] # Nothing
  /\ \E choice \in SUBSET {e.problem : e \in Candidates(conversions)} :
       /\ MayFreeze(choice, conversions, quota)
       /\ selection' = FrozenOf(choice, conversions, quota)
  /\ UNCHANGED <<conversions, quota, chain>>

VerifyChain ==
  /\ selection # Nothing /\ chain = Nothing
  /\ \E files \in [Splits -> Files], sets \in [Splits -> ReviewSets] :
     \E rows \in [Splits -> UNION {Listings[f] : f \in Files}] :
       /\ Replays(files, sets, rows)
       /\ chain' = [entries |-> selection.entries, rows |-> rows]
  /\ UNCHANGED <<conversions, quota, selection>>

SelectionNext ==
  \/ \E split \in Splits : Convert(split) \/ ConvertAgain(split)
  \/ Count
  \/ FreezeSelection
  \/ VerifyChain

SelectionSpec == SelectionInit /\ [][SelectionNext]_selectionVars

-------------------------------------------------------------------------------
(* The property                                                            *)

\* Whatever reports a selection was frozen from, a verified one has PerCell problems in
\* every cell, none twice, each sound, in a topic of its tags, with an approved review of
\* the only row its file has of it: a row that was never reviewed, or that a converter
\* listed beside another of the same problem, is not in it.
VerifiedIsReviewed ==
  chain # Nothing =>
    /\ \A cell \in Cells : Cardinality(InCell(chain.entries, cell)) = PerCell
    /\ \A a, b \in chain.entries : a.problem = b.problem => a = b
    /\ \A e \in chain.entries :
         /\ e.row.sound /\ e.topic \in e.row.topics
         /\ \E review \in Approved[e.split] :
              review.standard /\ review.row = e.row /\ review.topic \in {e.topic, NoTopic}
         /\ \A i \in DOMAIN chain.rows[e.split] :
              LET row == chain.rows[e.split][i] IN row.problem = e.problem => row = e.row

================================================================================
