------------------------ MODULE CandidateAutomation ------------------------
(***************************************************************************)
(* The approval of second-round invitations for one automation rule.       *)
(* Evaluating the rule for a candidate files a pending action; a manager   *)
(* decides on it in the application, through a link to that action, or     *)
(* through the one link of a digest e-mail that lists all pending actions; *)
(* an approved action is e-mailed to the candidate.                        *)
(*                                                                         *)
(* Every route is several database calls with no transaction around them:  *)
(* it decides from a row it read, then writes with a condition on the      *)
(* row's state.  A request may stop after any of them (a crash, or a write *)
(* that returns an error), and the e-mail provider may accept a message    *)
(* and still answer with an error.                                         *)
(***************************************************************************)
EXTENDS Integers, FiniteSets

CONSTANTS
    Candidates,
    Requests,    \* HTTP requests and digest runs in flight
    Links,       \* automation_action_approval_tokens rows
    Digests,     \* automation_digest_deliveries rows
    Slots,       \* (scope, recipient, delivery date) of a digest
    MaxVersion,  \* bound on automation_rules.rule_version
    None

ASSUME AutomationBounds == MaxVersion \in Nat \ {0}

\* an action is known by its idempotency key; a new report or interview of
\* the candidate changes the key as a new version of the rule does
Keys == Candidates \X (1..MaxVersion)

VARIABLES
    version, enabled,  \* the rule
    action,            \* automation_actions.state, "none" before the insert
    approved,          \* the rows whose approved_at is set
    mails,             \* scheduling e-mails the provider accepted for a row
    told,              \* verdicts that requests were told had been recorded
    link, linkOf,      \* state and action of an action-level link
    status,            \* automation_digest_deliveries.status
    slot, items,       \* ... slot and action_ids
    dtoken,            \* automation_digest_approval_tokens.state
    inbox,             \* the actions listed by a digest e-mail that arrived
    req                \* where each request stands

rule       == <<version, enabled>>
actions    == <<action, approved>>
links      == <<link, linkOf>>
deliveries == <<status, slot, items>>
digests    == <<deliveries, dtoken, inbox>>
vars       == <<rule, actions, mails, told, links, digests, req>>

ActionStates == {"none", "pending_approval", "approved", "sending", "sent", "failed", "rejected"}

\* ACTIVE_SENDABLE_STATES; no code writes queued or delivered
Active == {"pending_approval", "approved", "sending", "sent"}

Idle == [pc |-> "idle"]
----------------------------------------------------------------------------
At(r, pc) == req[r].pc = pc
Becomes(r, state) == req' = [req EXCEPT ![r] = state]
Moves(r, pc) == req' = [req EXCEPT ![r].pc = pc]
Finishes(r) == Becomes(r, Idle)
Tells(a, verdict) == told' = [told EXCEPT ![a] = @ \cup {verdict}]

Init ==
    /\ version = 1 /\ enabled = TRUE
    /\ action = [a \in Keys |-> "none"] /\ approved = {}
    /\ mails = [a \in Keys |-> 0]
    /\ told = [a \in Keys |-> {}]
    /\ link = [l \in Links |-> "none"] /\ linkOf = [l \in Links |-> None]
    /\ status = [d \in Digests |-> "none"]
    /\ slot = [d \in Digests |-> CHOOSE s \in Slots : TRUE]
    /\ items = [d \in Digests |-> {}]
    /\ dtoken = [d \in Digests |-> "none"]
    /\ inbox = [d \in Digests |-> {}]
    /\ req = [r \in Requests |-> Idle]
----------------------------------------------------------------------------
(* The rule, and the actions its evaluation files.                         *)

\* a changed configuration is a new version of the rule
PatchRule ==
    /\ \/ version < MaxVersion /\ version' = version + 1 /\ UNCHANGED enabled
       \/ enabled' = ~enabled /\ UNCHANGED version
    /\ UNCHANGED <<actions, mails, told, links, digests, req>>

\* the rule and the candidate's scores are read, and the criteria match
EvaluateRule(r) ==
    /\ At(r, "idle") /\ enabled
    /\ \E c \in Candidates : Becomes(r, [pc |-> "insert", a |-> <<c, version>>])
    /\ UNCHANGED <<rule, actions, mails, told, links, digests>>

\* without automation_actions_one_active_sendable_idx
AdmitsEachKey(a) == action[a] = "none"

\* the two unique indexes of automation_actions
IndexesAdmit(a) ==
    /\ action[a] = "none"
    /\ \A b \in Keys : b[1] = a[1] => action[b] \notin Active

\* a conflict answers with the row that is already there
CreatePendingAction(r) ==
    /\ At(r, "insert")
    /\ action' = IF IndexesAdmit(req[r].a)
                 THEN [action EXCEPT ![req[r].a] = "pending_approval"] ELSE action
    /\ Finishes(r)
    /\ UNCHANGED <<rule, approved, mails, told, links, digests>>
----------------------------------------------------------------------------
(* Writes on an action, each conditional on the state it expects.          *)

\* the update without its condition
WritesAnyway(a, from) == action[a] # "none"

InState(a, from) == action[a] = from

Rejects(a) ==
    action' = [action EXCEPT ![a] = "rejected"] /\ UNCHANGED approved

Approves(a) ==
    action' = [action EXCEPT ![a] = "approved"] /\ approved' = approved \cup {a}

\* POST /actions/:id/reject reads the row ...
ReadForReject(r) ==
    /\ At(r, "idle")
    /\ \E a \in Keys :
        /\ action[a] = "pending_approval"
        /\ Becomes(r, [pc |-> "reject", a |-> a])
    /\ UNCHANGED <<rule, actions, mails, told, links, digests>>

\* ... and updates it, as does the rejection of a digest item
Reject(r) ==
    /\ At(r, "reject")
    /\ \/ /\ InState(req[r].a, "pending_approval")
          /\ Rejects(req[r].a) /\ Tells(req[r].a, "rejected")
       \/ /\ ~InState(req[r].a, "pending_approval")     \* 409
          /\ UNCHANGED <<actions, told>>
    /\ Finishes(r)
    /\ UNCHANGED <<rule, mails, links, digests>>
----------------------------------------------------------------------------
(* Action-level links: the token is spent first, then the action decided.  *)

ReadForLink(r) ==
    /\ At(r, "idle")
    /\ \E a \in Keys :
        /\ action[a] = "pending_approval"
        /\ Becomes(r, [pc |-> "issue_link", a |-> a])
    /\ UNCHANGED <<rule, actions, mails, told, links, digests>>

IssueLink(r) ==
    /\ At(r, "issue_link")
    /\ \E l \in Links :
        /\ link[l] = "none"
        /\ link' = [link EXCEPT ![l] = "active"]
        /\ linkOf' = [linkOf EXCEPT ![l] = req[r].a]
    /\ Finishes(r)
    /\ UNCHANGED <<rule, actions, mails, told, digests>>

\* expires_at passes; every reader checks it
ExpireLink ==
    /\ \E l \in Links : link[l] = "active" /\ link' = [link EXCEPT ![l] = "expired"]
    /\ UNCHANGED <<rule, actions, mails, told, linkOf, digests, req>>

OpenLink(r) ==
    /\ At(r, "idle")
    /\ \E l \in Links, verdict \in {"approved", "rejected"} :
        /\ link[l] = "active"
        /\ action[linkOf[l]] = "pending_approval"
        /\ Becomes(r, [pc |-> "spend_link", a |-> linkOf[l], l |-> l, verdict |-> verdict])
    /\ UNCHANGED <<rule, actions, mails, told, links, digests>>

\* the update looks at the token's state alone: it may have expired since
SpendLink(r) ==
    /\ At(r, "spend_link")
    /\ \/ /\ link[req[r].l] \in {"active", "expired"}
          /\ link' = [link EXCEPT ![req[r].l] = IF req[r].verdict = "approved" THEN "used" ELSE "rejected"]
          /\ Moves(r, "decide")
       \/ /\ link[req[r].l] \notin {"active", "expired"}
          /\ Finishes(r) /\ UNCHANGED link
    /\ UNCHANGED <<rule, actions, mails, told, linkOf, digests>>

DecideByLink(r) ==
    /\ At(r, "decide")
    /\ \/ /\ InState(req[r].a, "pending_approval")
          /\ IF req[r].verdict = "approved" THEN Approves(req[r].a) ELSE Rejects(req[r].a)
          /\ Tells(req[r].a, req[r].verdict)
       \/ /\ ~InState(req[r].a, "pending_approval")
          /\ UNCHANGED <<actions, told>>
    /\ Finishes(r)
    /\ UNCHANGED <<rule, mails, links, digests>>
----------------------------------------------------------------------------
(* Sending the invitation of an approved action.                           *)

ReadForSend(r) ==
    /\ At(r, "idle")
    /\ \E a \in Keys :
        /\ action[a] = "approved"
        /\ Becomes(r, [pc |-> "claim_send", a |-> a, item |-> FALSE])
    /\ UNCHANGED <<rule, actions, mails, told, links, digests>>

\* a digest's request that loses the claim reads the row again, and calls
\* an action that has been sent meanwhile approved
ClaimSend(r) ==
    /\ At(r, "claim_send")
    /\ \/ /\ InState(req[r].a, "approved")
          /\ action' = [action EXCEPT ![req[r].a] = "sending"]
          /\ Moves(r, "mail") /\ UNCHANGED told
       \/ /\ ~InState(req[r].a, "approved")
          /\ IF req[r].item /\ action[req[r].a] = "sent" THEN Tells(req[r].a, "approved") ELSE UNCHANGED told
          /\ Finishes(r) /\ UNCHANGED action
    /\ UNCHANGED <<rule, approved, mails, links, digests>>

\* the link, the candidate's address or the role's title is missing, or
\* the provider refuses, or it accepts and the call fails all the same
MailCandidate(r) ==
    /\ At(r, "mail")
    /\ \E accepted \in BOOLEAN, answered \in BOOLEAN :
        /\ answered => accepted
        /\ mails' = IF accepted THEN [mails EXCEPT ![req[r].a] = @ + 1] ELSE mails
        /\ Moves(r, IF answered THEN "mark_sent" ELSE "mark_failed")
    /\ UNCHANGED <<rule, actions, told, links, digests>>

MarkSchedulingEmailSent(r) ==
    /\ At(r, "mark_sent")
    /\ action[req[r].a] = "sending"
    /\ action' = [action EXCEPT ![req[r].a] = "sent"]
    /\ Tells(req[r].a, "approved")
    /\ Finishes(r)
    /\ UNCHANGED <<rule, approved, mails, links, digests>>

MarkSchedulingEmailFailed(r) ==
    /\ At(r, "mark_failed")
    /\ action[req[r].a] = "sending"
    /\ action' = [action EXCEPT ![req[r].a] = "failed"]
    /\ Finishes(r)
    /\ UNCHANGED <<rule, approved, mails, told, links, digests>>
----------------------------------------------------------------------------
(* The digest: its delivery row, its token, the e-mail, and its items.     *)

\* a configured, manual or scheduled run collects the pending actions
CollectDigest(r) ==
    /\ At(r, "idle")
    /\ \E s \in Slots : LET pending == {a \in Keys : action[a] = "pending_approval"} IN
        /\ pending # {}
        /\ Becomes(r, [pc |-> "claim_slot", slot |-> s, listed |-> pending])
    /\ UNCHANGED <<rule, actions, mails, told, links, digests>>

\* the lookup without the index behind it
SlotNotSent(s) == \A d \in Digests : slot[d] = s => status[d] # "sent"

\* automation_digest_deliveries_one_active_sent_idx
SlotFree(s) == \A d \in Digests : slot[d] = s => status[d] \notin {"sending", "sent"}

ClaimSlot(r) ==
    /\ At(r, "claim_slot")
    /\ \/ /\ SlotFree(req[r].slot)
          /\ \E d \in Digests :
              /\ status[d] = "none"
              /\ status' = [status EXCEPT ![d] = "sending"]
              /\ slot' = [slot EXCEPT ![d] = req[r].slot]
              /\ Becomes(r, [pc |-> "token", d |-> d, listed |-> req[r].listed])
       \/ /\ ~SlotFree(req[r].slot)
          /\ Finishes(r) /\ UNCHANGED <<status, slot>>
    /\ UNCHANGED <<rule, actions, mails, told, links, items, dtoken, inbox>>

CreateDigestToken(r) ==
    /\ At(r, "token")
    /\ \E inserted \in BOOLEAN, answered \in BOOLEAN :
        /\ answered => inserted
        /\ dtoken' = IF inserted THEN [dtoken EXCEPT ![req[r].d] = "active"] ELSE dtoken
        /\ Moves(r, IF answered THEN "mail_digest" ELSE "fail_digest")
    /\ UNCHANGED <<rule, actions, mails, told, links, deliveries, inbox>>

MailDigest(r) ==
    /\ At(r, "mail_digest")
    /\ \E accepted \in BOOLEAN, answered \in BOOLEAN :
        /\ answered => accepted
        /\ inbox' = IF accepted THEN [inbox EXCEPT ![req[r].d] = req[r].listed] ELSE inbox
        /\ Moves(r, IF answered THEN "mark_digest_sent" ELSE "revoke")
    /\ UNCHANGED <<rule, actions, mails, told, links, deliveries, dtoken>>

RevokeDigestToken(r) ==
    /\ At(r, "revoke")
    /\ dtoken' = [dtoken EXCEPT ![req[r].d] = "revoked"]
    /\ Moves(r, "fail_digest")
    /\ UNCHANGED <<rule, actions, mails, told, links, deliveries, inbox>>

\* both final writes name the listed actions
EndsDigest(r, final) ==
    /\ status[req[r].d] = "sending"
    /\ status' = [status EXCEPT ![req[r].d] = final]
    /\ items' = [items EXCEPT ![req[r].d] = req[r].listed]
    /\ Finishes(r)
    /\ UNCHANGED <<rule, actions, mails, told, links, slot, dtoken, inbox>>

MarkDigestDeliveryFailed(r) == At(r, "fail_digest") /\ EndsDigest(r, "failed")
MarkDigestDeliverySent(r)   == At(r, "mark_digest_sent") /\ EndsDigest(r, "sent")

ExpireDigestToken ==
    /\ \E d \in Digests : dtoken[d] = "active" /\ dtoken' = [dtoken EXCEPT ![d] = "expired"]
    /\ UNCHANGED <<rule, actions, mails, told, links, deliveries, inbox, req>>

\* what loadDigestApprovalContextForItem lets through
DigestItem(d, a) == dtoken[d] = "active" /\ status[d] = "sent" /\ a \in items[d]

\* approve-send: the row as it was read decides what the request does next
ApproveDigestItem(r) ==
    /\ At(r, "idle")
    /\ \E d \in Digests, a \in Keys :
        /\ DigestItem(d, a)
        /\ \/ /\ action[a] = "sent"
              /\ Tells(a, "approved") /\ UNCHANGED req
           \/ /\ action[a] \in {"pending_approval", "approved"}
              /\ Becomes(r, [pc |-> IF action[a] = "approved" THEN "claim_send" ELSE "approve",
                             a |-> a, item |-> TRUE])
              /\ UNCHANGED told
    /\ UNCHANGED <<rule, actions, mails, links, digests>>

MarkDigestApprovalActionApproved(r) ==
    /\ At(r, "approve")
    /\ \/ /\ InState(req[r].a, "pending_approval")
          /\ Approves(req[r].a) /\ Moves(r, "claim_send")
       \/ /\ ~InState(req[r].a, "pending_approval")
          /\ Finishes(r) /\ UNCHANGED actions
    /\ UNCHANGED <<rule, mails, told, links, digests>>

RejectDigestItem(r) ==
    /\ At(r, "idle")
    /\ \E d \in Digests, a \in Keys :
        /\ DigestItem(d, a)
        /\ \/ /\ action[a] = "rejected"
              /\ Tells(a, "rejected") /\ UNCHANGED req
           \/ /\ action[a] = "pending_approval"
              /\ Becomes(r, [pc |-> "reject", a |-> a]) /\ UNCHANGED told
    /\ UNCHANGED <<rule, actions, mails, links, digests>>
----------------------------------------------------------------------------
\* the process stops, or the next write returns an error
Abandon(r) ==
    /\ ~At(r, "idle")
    /\ Finishes(r)
    /\ UNCHANGED <<rule, actions, mails, told, links, digests>>

Evaluating(r) == EvaluateRule(r) \/ CreatePendingAction(r)
Linking(r) == ReadForLink(r) \/ IssueLink(r) \/ OpenLink(r) \/ SpendLink(r) \/ DecideByLink(r)
Sending(r) ==
    \/ ReadForSend(r) \/ ClaimSend(r) \/ MailCandidate(r)
    \/ MarkSchedulingEmailSent(r) \/ MarkSchedulingEmailFailed(r)
Digesting(r) ==
    \/ CollectDigest(r) \/ ClaimSlot(r) \/ CreateDigestToken(r) \/ MailDigest(r)
    \/ RevokeDigestToken(r) \/ MarkDigestDeliveryFailed(r) \/ MarkDigestDeliverySent(r)
Deciding(r) ==
    \/ ReadForReject(r) \/ Reject(r)
    \/ ApproveDigestItem(r) \/ MarkDigestApprovalActionApproved(r) \/ RejectDigestItem(r)

Next ==
    \/ PatchRule \/ ExpireLink \/ ExpireDigestToken
    \/ \E r \in Requests :
        Evaluating(r) \/ Linking(r) \/ Sending(r) \/ Digesting(r) \/ Deciding(r) \/ Abandon(r)

Spec == Init /\ [][Next]_vars
----------------------------------------------------------------------------
(* What the approvals promise.                                             *)

(* Whoever decided, and by whatever route, an action has one verdict: two  *)
(* requests are never told opposite outcomes, a rejection that was         *)
(* confirmed stands and nothing is e-mailed for it, and an approval that   *)
(* was confirmed is on the row.                                            *)
OneVerdict ==
    \A a \in Keys :
        /\ Cardinality(told[a]) <= 1
        /\ "rejected" \in told[a] => action[a] = "rejected" /\ mails[a] = 0
        /\ "approved" \in told[a] => a \in approved /\ action[a] # "rejected"

(* A candidate is invited only by an approved action, at most once by      *)
(* each, and a second action can invite again only when every earlier one  *)
(* was recorded as failed -- however often the manager clicks, the digest  *)
(* is repeated, the rule is edited or requests are cut short.              *)
InvitedOnce ==
    /\ \A a \in Keys : mails[a] <= 1 /\ (mails[a] = 1 => a \in approved)
    /\ \A a, b \in Keys :
        a[1] = b[1] /\ a # b /\ mails[a] = 1 /\ mails[b] = 1 => "failed" \in {action[a], action[b]}

(* A recipient gets one digest for a slot unless one was recorded as       *)
(* failed; the link of every digest that is recorded as sent opens the     *)
(* very actions its e-mail listed, and the link of a failed digest whose   *)
(* e-mail arrived after all has been revoked, so that a repeated digest    *)
(* leaves the recipient one working link.                                  *)
OneLiveDigest ==
    /\ \A d, e \in Digests :
        /\ {inbox[d], inbox[e]} \cap {{}} = {}
        /\ slot[d] = slot[e] /\ "failed" \notin {status[d], status[e]}
        => d = e
    /\ \A d \in Digests :
        /\ status[d] = "sent" => inbox[d] = items[d] /\ items[d] # {} /\ dtoken[d] \in {"active", "expired"}
        /\ status[d] = "failed" /\ inbox[d] # {} => dtoken[d] = "revoked"
=============================================================================
