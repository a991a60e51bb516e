------------------------- MODULE SubmissionWorkspace -------------------------
(***************************************************************************)
(* The report or appeal a team prepares for Google, from draft to outcome  *)
(* (submission_workspace.py; e2e_pipeline.py strings the steps together).  *)
(* A record is replaced as a whole by each operation, and every operation  *)
(* may be tried in every state.  A content stands for its own SHA-256, so  *)
(* content_sha256 is the content that was hashed.                          *)
(***************************************************************************)
EXTENDS Naturals, Sequences, SequencesExt

CONSTANTS Contents, Actors, None, MaxApprovals

VARIABLES report,     \* the SubmissionRecord the caller holds
          approvals   \* the SubmissionApproval events, in the order given
vars == <<report, approvals>>

Outcomes == {"SUBMITTED", "UNDER_REVIEW", "REJECTED", "APPEAL_ELIGIBLE", "APPEALED", "CLOSED"}

\* create_submission: nothing is hashed yet.
Created(c) == [content |-> c, status |-> "DRAFT", content_sha256 |-> None,
               approved_by |-> None, external_reference |-> FALSE]

Init == approvals = <<>> /\ \E c \in Contents : report = Created(c)

\* prepare_submission: what is written now is what will be approved.
Prepare ==
  /\ report.status \in {"DRAFT", "INVALIDATED"}
  /\ report' = [Created(report.content) EXCEPT !.content_sha256 = report.content]
  /\ UNCHANGED approvals

RequestApproval ==
  /\ report.status = "DRAFT" /\ report.content_sha256 # None
  /\ report' = [report EXCEPT !.status = "PENDING_APPROVAL"]
  /\ UNCHANGED approvals

Approve(a) ==
  /\ Len(approvals) < MaxApprovals
  /\ report.status = "PENDING_APPROVAL" /\ report.content_sha256 # None
  /\ report.content = report.content_sha256
  /\ report' = [report EXCEPT !.status = "APPROVED", !.approved_by = a]
  /\ approvals' = Append(approvals, [actor |-> a, content |-> report.content_sha256])

Revocable_Pending == {"PENDING_APPROVAL"}

Revocable == {"PENDING_APPROVAL", "APPROVED"}

\* invalidate_if_modified, the only way to change the text: an edit back to the
\* hashed text is dropped, an edit before the first hash too.
Modify(c) ==
  /\ report.content_sha256 \notin {None, c}
  /\ report' = IF report.status \in Revocable
                 THEN [report EXCEPT !.content = c, !.status = "INVALIDATED", !.approved_by = None]
                 ELSE [report EXCEPT !.content = c]
  /\ UNCHANGED approvals

MarkSubmitted ==
  /\ report.status = "APPROVED" /\ report.content = report.content_sha256
  /\ report' = [report EXCEPT !.status = "SUBMITTED", !.external_reference = TRUE]
  /\ UNCHANGED approvals

\* update_status looks at the two statuses only: it asks for no reference and
\* compares no hash.
UpdateStatus(s) ==
  /\ report.status \in IF s = "SUBMITTED" THEN {"APPROVED"}
                       ELSE {"SUBMITTED", "UNDER_REVIEW", "APPEAL_ELIGIBLE", "APPEALED"}
  /\ report' = [report EXCEPT !.status = s]
  /\ UNCHANGED approvals

Next ==
  \/ Prepare \/ RequestApproval \/ MarkSubmitted
  \/ \E a \in Actors : Approve(a)
  \/ \E c \in Contents : Modify(c)
  \/ \E s \in Outcomes : UpdateStatus(s)

Spec == Init /\ [][Next]_vars

-----------------------------------------------------------------------------
\* A report becomes SUBMITTED with exactly the text its last approval was given
\* for, under the name of who gave it, by whichever of mark_submitted and
\* update_status: the second one checks neither text nor hash and relies on every
\* edit of an approved text having withdrawn the approval.
SubmitsWhatWasApproved ==
  report.status # "SUBMITTED" /\ report'.status = "SUBMITTED"
    => /\ approvals # <<>>
       /\ Last(approvals) = [actor |-> report'.approved_by, content |-> report'.content]
=============================================================================
