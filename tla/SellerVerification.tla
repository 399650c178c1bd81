-------------------------- MODULE SellerVerification --------------------------
(***************************************************************************)
(* The « Vérifié » badge of one seller and the documents it rests on.      *)
(*                                                                         *)
(* A document is a row first, then a file in a private store, then part of *)
(* the evidence; a daily sweep destroys the files of documents that were   *)
(* rejected or replaced and clears away uploads that never ended.  The     *)
(* seller's submissions and the administrators' decisions cross.           *)
(***************************************************************************)
EXTENDS Naturals, FiniteSets

CONSTANTS
  Papers,      \* documents that may be submitted
  PaperTypes, Required,
  Hands,       \* requests in flight, the seller's and the administrators'
  NoPaper

ASSUME VerificationConstants ==
  /\ PaperTypes # {} /\ Required \subseteq PaperTypes
  /\ NoPaper \notin Papers

VARIABLES
  badge,   \* seller_profiles.verificationStatus
  paper,   \* seller_documents rows and their files
  hand,    \* the requests
  sweep    \* rows the running sweep has read: of files due, of unended uploads

verificationVars == << badge, paper, hand, sweep >>

Badges == { "NOT_SUBMITTED", "PENDING_REVIEW", "VERIFIED", "REJECTED" }

LiveStatuses == { "PENDING", "ACCEPTED" }

\* "none": no row.  due: purgeAfter is set.  file: the store holds the file.
Paper ==
  [ status : { "none", "gone", "PENDING", "ACCEPTED", "REJECTED", "SUPERSEDED" },
    type : PaperTypes, uploaded : BOOLEAN, due : BOOLEAN, purged : BOOLEAN,
    file : BOOLEAN ]

Hand ==
  [ at : { "idle", "uploading", "uploaded", "discarding", "deciding" },
    paper : Papers \cup { NoPaper }, seen : Badges ]

Free == [ at |-> "idle", paper |-> NoPaper, seen |-> "NOT_SUBMITTED" ]

NoSweep == [ due |-> {}, stale |-> {} ]

Live(p) == paper[p].status \in LiveStatuses

LiveTypes(row) == { row[p].type : p \in { q \in Papers : row[q].status \in LiveStatuses } }

\* missingDocumentTypes
Missing(row) == Required \ LiveTypes(row)

Removed(p) == [paper EXCEPT ![p].status = "gone"]

Lays(h) == hand' = [hand EXCEPT ![h] = Free]

-----------------------------------------------------------------------------
(* The seller submits a document                                             *)

\* The profile is read here; the row exists before its file.
CreatesRow(h, p, t) ==
  /\ hand[h] = Free
  /\ paper[p].status = "none"
  /\ paper' = [paper EXCEPT ![p] =
       [ status |-> "PENDING", type |-> t, uploaded |-> FALSE, due |-> FALSE,
         purged |-> FALSE, file |-> FALSE ]]
  /\ hand' = [hand EXCEPT ![h] = [ at |-> "uploading", paper |-> p, seen |-> badge ]]
  /\ UNCHANGED << badge, sweep >>

StoresPaper(h) ==
  /\ hand[h].at = "uploading"
  /\ paper' = [paper EXCEPT ![hand[h].paper].file = TRUE]
  /\ hand' = [hand EXCEPT ![h].at = "uploaded"]
  /\ UNCHANGED << badge, sweep >>

\* No file, no row.
UploadFails(h) ==
  /\ hand[h].at = "uploading"
  /\ paper' = Removed(hand[h].paper)
  /\ Lays(h)
  /\ UNCHANGED << badge, sweep >>

\* Documents of its type that the new one replaces.
Previous(p) ==
  { q \in Papers \ { p } :
      /\ paper[q].type = paper[p].type
      /\ paper[q].status \in { "PENDING", "ACCEPTED", "REJECTED" } }

Superseding(p) ==
  [ q \in Papers |->
      IF q \in Previous(p) THEN [ paper[q] EXCEPT !.status = "SUPERSEDED", !.due = TRUE ]
      ELSE IF q = p THEN [ paper[q] EXCEPT !.uploaded = TRUE ]
      ELSE paper[q] ]

\* The badge the submission asks for, decided from the badge read before the
\* upload.
BadgeAfter(p, seen) ==
  IF /\ seen = "VERIFIED" /\ paper[p].type \in Required
     /\ \E q \in Previous(p) : paper[q].status = "ACCEPTED"
  THEN "PENDING_REVIEW"
  ELSE IF seen \in { "NOT_SUBMITTED", "REJECTED" } /\ Missing(Superseding(p)) = {}
  THEN "PENDING_REVIEW"
  ELSE seen

\* One transaction; the badge is written by id, only if it should change.
Attaches(h) ==
  LET p == hand[h].paper
      seen == hand[h].seen
  IN
  /\ hand[h].at = "uploaded" /\ paper[p].status # "gone"
  /\ paper' = Superseding(p)
  /\ badge' = IF BadgeAfter(p, seen) # seen THEN BadgeAfter(p, seen) ELSE badge
  /\ Lays(h)
  /\ UNCHANGED sweep

\* The transaction failed: the file goes, then its row; a file that would not
\* go keeps the row for the sweep.
Discards(h) ==
  /\ hand[h].at = "uploaded"
  /\ \/ /\ paper' = [paper EXCEPT ![hand[h].paper].file = FALSE]
        /\ hand' = [hand EXCEPT ![h].at = "discarding"]
     \/ Lays(h) /\ UNCHANGED paper
  /\ UNCHANGED << badge, sweep >>

DiscardsRow(h) ==
  /\ hand[h].at = "discarding"
  /\ paper' = Removed(hand[h].paper)
  /\ Lays(h)
  /\ UNCHANGED << badge, sweep >>

Crashes(h) ==
  /\ hand[h] # Free
  /\ Lays(h)
  /\ UNCHANGED << badge, paper, sweep >>

-----------------------------------------------------------------------------
(* The administrators decide                                                 *)

\* approve reads the evidence before its transaction.
ReadsEvidence(h) ==
  /\ hand[h] = Free
  /\ Missing(paper) = {}
  /\ hand' = [hand EXCEPT ![h] = [ at |-> "deciding", paper |-> NoPaper, seen |-> badge ]]
  /\ UNCHANGED << badge, paper, sweep >>

Reviewed(status, due) ==
  [ q \in Papers |->
      IF paper[q].status = "PENDING"
      THEN [ paper[q] EXCEPT !.status = status, !.due = due \/ @ ]
      ELSE paper[q] ]

Approves(h) ==
  /\ hand[h].at = "deciding"
  /\ badge \in { "PENDING_REVIEW", "REJECTED" }
  /\ badge' = "VERIFIED"
  /\ paper' = Reviewed("ACCEPTED", FALSE)
  /\ Lays(h)
  /\ UNCHANGED sweep

RejectsEvidence ==
  /\ badge = "PENDING_REVIEW"
  /\ badge' = "REJECTED"
  /\ paper' = Reviewed("REJECTED", TRUE)
  /\ UNCHANGED << hand, sweep >>

Revokes ==
  /\ badge = "VERIFIED"
  /\ badge' = "REJECTED"
  /\ UNCHANGED << paper, hand, sweep >>

-----------------------------------------------------------------------------
(* The daily sweep                                                           *)

\* Rejected or replaced long ago.  The deadline passes at any moment.
Due(p) == paper[p].due /\ paper[p].uploaded /\ ~paper[p].purged /\ paper[p].status # "gone"

Unended(p) == paper[p].status \notin { "none", "gone" } /\ ~paper[p].uploaded

\* Variant: without the hour of grace.
Stale_AnyAge(p) == Unended(p)

\* An upload that has not ended after an hour: its request has.
Stale(p) == Unended(p) /\ \A h \in Hands : hand[h].paper # p

ReadsDue ==
  /\ sweep = NoSweep
  /\ sweep' = [ NoSweep EXCEPT !.due = { p \in Papers : Due(p) } ]
  /\ UNCHANGED << badge, paper, hand >>

ReadsStale ==
  /\ sweep = NoSweep
  /\ sweep' = [ NoSweep EXCEPT !.stale = { p \in Papers : Stale(p) } ]
  /\ UNCHANGED << badge, paper, hand >>

\* purgeBinary: the file, then the stamp; a file that would not go is left for
\* the next day.
PurgesFile(p) ==
  /\ p \in sweep.due
  /\ sweep' = [sweep EXCEPT !.due = @ \ { p }]
  /\ \/ paper' = [paper EXCEPT ![p].file = FALSE, ![p].purged = TRUE]
     \/ UNCHANGED paper
  /\ UNCHANGED << badge, hand >>

Reconciles(p) ==
  /\ p \in sweep.stale
  /\ \/ /\ paper[p].file
        /\ paper' = [paper EXCEPT ![p].file = FALSE]
        /\ UNCHANGED sweep
     \/ /\ ~paper[p].file
        /\ paper' = Removed(p)
        /\ sweep' = [sweep EXCEPT !.stale = @ \ { p }]
     \/ sweep' = [sweep EXCEPT !.stale = @ \ { p }] /\ UNCHANGED paper
  /\ UNCHANGED << badge, hand >>

Sweeps == ReadsDue \/ ReadsStale \/ \E p \in Papers : PurgesFile(p) \/ Reconciles(p)

-----------------------------------------------------------------------------

VerificationInit ==
  /\ badge = "NOT_SUBMITTED"
  /\ paper = [p \in Papers |->
       [ status |-> "none", type |-> CHOOSE t \in PaperTypes : TRUE, uploaded |-> FALSE,
         due |-> FALSE, purged |-> FALSE, file |-> FALSE ]]
  /\ hand = [h \in Hands |-> Free]
  /\ sweep = NoSweep

VerificationNext ==
  \/ \E h \in Hands :
       \/ \E p \in Papers, t \in PaperTypes : CreatesRow(h, p, t)
       \/ StoresPaper(h) \/ UploadFails(h) \/ Attaches(h)
       \/ Discards(h) \/ DiscardsRow(h) \/ Crashes(h)
       \/ ReadsEvidence(h) \/ Approves(h)
  \/ RejectsEvidence \/ Revokes \/ Sweeps

VerificationSpec == VerificationInit /\ [][VerificationNext]_verificationVars

-----------------------------------------------------------------------------
(* Properties                                                                *)

VerificationTypeOK ==
  /\ badge \in Badges
  /\ paper \in [Papers -> Paper]
  /\ hand \in [Hands -> Hand]
  /\ sweep \in [ due : SUBSET Papers, stale : SUBSET Papers ]

\* Evidence on which a decision rests or will rest can be opened: no sweep,
\* failed upload or replacement destroys the file of an uploaded document that
\* is pending or accepted (retentionSweep, discard).
LiveDocumentHasItsFile ==
  \A p \in Papers : Live(p) /\ paper[p].uploaded => paper[p].file

\* "only while the required evidence is live, so a badge can never be granted on
\* an incomplete or rejected document set" (the comment above approve).
BadgeRestsOnEvidence ==
  [][badge # "VERIFIED" /\ badge' = "VERIFIED" => Missing(paper') = {}]_verificationVars

=============================================================================
