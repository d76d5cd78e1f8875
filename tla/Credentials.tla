----------------------------- MODULE Credentials -----------------------------
(***************************************************************************)
(* A profile's document on disk: what a client puts and deletes, the       *)
(* executions that renew its expired credential before a request, and the  *)
(* probes that renew it too and record the account's status.  No lock      *)
(* covers a document; each of them reads it, talks to the provider, and    *)
(* writes it later.                                                        *)
(*                                                                         *)
(* A document is the number of the put its configuration is from, and its  *)
(* credential: the account it signs in to and the generation of its        *)
(* tokens.  Generation 0 is what the client has.                           *)
(***************************************************************************)
EXTENDS Integers, Sequences

CONSTANTS Accounts,     \* the provider accounts a client signs in with
          Workers,      \* the requests and probes that run at one time
          MaxPuts,      \* puts of the profile
          MaxRenewals,  \* renewals of one account's credential
          MaxLosses     \* lost answers of the provider, failed probes, crashes

ASSUME CredentialsAssumption == {MaxPuts, MaxRenewals, MaxLosses} \subseteq Nat

VARIABLES
  document,   \* the profile on disk; config 0: there is none
  status,     \* the status the last probe recorded, in memory
  work,       \* what each worker is doing
  rotates,    \* a renewal invalidates the refresh token it was made with
  issued,     \* the last generation the provider issued to each account
  expired,    \* the access tokens up to this generation have expired
  puts,       \* the account of each put so far
  last,       \* what the client did last: a put, or 0 for a delete
  lost,       \* accounts whose last generation was lost, or never the client's
  losses

credentialVars == <<document, status, work, rotates, issued, expired, puts, last, lost, losses>>

(* over: written by a worker after another had changed the configuration. *)
NoDocument == [config |-> 0, account |-> "", token |-> 0, over |-> FALSE]
NoStatus == [account |-> "", late |-> FALSE]
Idle == [phase |-> "idle", kind |-> "", read |-> NoDocument, token |-> 0, over |-> FALSE]
Auth(doc) == <<doc.account, doc.token>>
Stale(doc) == doc.token <= expired[doc.account]

CredentialsInit ==
  /\ document = NoDocument /\ status = NoStatus
  /\ work = [w \in Workers |-> Idle]
  /\ rotates \in BOOLEAN
  /\ issued = [a \in Accounts |-> 0] /\ expired = [a \in Accounts |-> -1]
  /\ puts = <<>> /\ last = 0 /\ lost = {} /\ losses = 0

(* The credential of a document is renewed only when it has expired. *)
Reading(kind, doc) ==
  [phase |-> IF Stale(doc) THEN "renew" ELSE "probe", kind |-> kind, read |-> doc,
   token |-> doc.token, over |-> FALSE]
Busy(w, phase) == work[w].phase = phase
Loses == losses < MaxLosses /\ losses' = losses + 1
-----------------------------------------------------------------------------
(* The client's requests.  A put writes the whole document, then drops the *)
(* old status, then probes the new one.                                    *)
Overtaken(w) ==
  work[w].kind = "execute" \/ work[w].phase \in {"save", "status"}
Overtake(config) ==
  [v \in Workers |-> [work[v] EXCEPT !.over = @ \/ (config # document.config /\ Overtaken(v))]]

Put(w, account) ==
  /\ Busy(w, "idle") /\ Len(puts) < MaxPuts
  /\ puts' = Append(puts, account) /\ last' = Len(puts) + 1
  /\ document' = [config |-> Len(puts) + 1, account |-> account, token |-> 0, over |-> FALSE]
  /\ work' = [Overtake(Len(puts) + 1) EXCEPT ![w] = [Idle EXCEPT !.phase = "forget", !.kind = "put"]]
  /\ lost' = IF issued[account] > 0 THEN lost \cup {account} ELSE lost
  /\ UNCHANGED <<status, rotates, issued, expired, losses>>

Delete(w) ==
  /\ Busy(w, "idle") /\ document # NoDocument
  /\ document' = NoDocument /\ last' = 0
  /\ work' = [Overtake(0) EXCEPT ![w] = [Idle EXCEPT !.phase = "forget", !.kind = "delete"]]
  /\ UNCHANGED <<status, rotates, issued, expired, puts, lost, losses>>

RemoveProbe(w) ==
  /\ Busy(w, "forget")
  /\ status' = NoStatus
  /\ work' = [work EXCEPT ![w] = IF @.kind = "put" /\ document # NoDocument THEN Reading("probe", document) ELSE Idle]
  /\ UNCHANGED <<document, rotates, issued, expired, puts, last, lost, losses>>

(* An execution whose credential is good changes nothing. *)
Start(w, kind) ==
  /\ Busy(w, "idle") /\ document # NoDocument
  /\ kind = "execute" => Stale(document)
  /\ kind = "probe" => \A v \in Workers : work[v].kind # "probe"
  /\ work' = [work EXCEPT ![w] = Reading(kind, document)]
  /\ UNCHANGED <<document, status, rotates, issued, expired, puts, last, lost, losses>>
-----------------------------------------------------------------------------
(* The provider issues the next generation for a refresh token it still    *)
(* accepts.  Without its answer, or with the request dropped while it is   *)
(* answered, the new tokens are gone.                                      *)
Accepted(doc) == ~rotates \/ doc.token = issued[doc.account]

(* A failed renewal fails an execution; a failed probe is recorded. *)
FailedRenewal(w) ==
  work' = [work EXCEPT ![w] = IF @.kind = "execute" THEN Idle ELSE [@ EXCEPT !.phase = "commit", !.token = work[w].read.token]]

Renew(w, heard) ==
  LET doc == work[w].read
      new == issued[doc.account] + 1
  IN /\ Busy(w, "renew") /\ Accepted(doc) /\ new <= MaxRenewals
     /\ issued' = [issued EXCEPT ![doc.account] = new]
     /\ IF heard
        THEN /\ work' = [work EXCEPT ![w].token = new,
                                     ![w].phase = IF work[w].kind = "execute" THEN "write" ELSE "probe"]
             /\ UNCHANGED <<lost, losses>>
        ELSE FailedRenewal(w) /\ Loses /\ lost' = lost \cup {doc.account}
     /\ UNCHANGED <<document, status, rotates, expired, puts, last>>

RenewRefused(w) ==
  /\ Busy(w, "renew") /\ ~Accepted(work[w].read) /\ FailedRenewal(w)
  /\ UNCHANGED <<document, status, rotates, issued, expired, puts, last, lost, losses>>

(* The account is asked for with the renewed credential; when this fails   *)
(* the credential is not kept either.                                      *)
Probe(w, ok) ==
  /\ Busy(w, "probe")
  /\ IF ok THEN work' = [work EXCEPT ![w].phase = "commit"] /\ UNCHANGED <<lost, losses>>
     ELSE /\ FailedRenewal(w) /\ Loses
          /\ lost' = IF work[w].token # work[w].read.token THEN lost \cup {work[w].read.account} ELSE lost
  /\ UNCHANGED <<document, status, rotates, issued, expired, puts, last>>
-----------------------------------------------------------------------------
(* An execution writes back the document it has read. *)
WriteBack(w) ==
  /\ Busy(w, "write")
  /\ document' = [work[w].read EXCEPT !.token = work[w].token, !.over = @ \/ work[w].over]
  /\ work' = [Overtake(work[w].read.config) EXCEPT ![w] = Idle]
  /\ UNCHANGED <<status, rotates, issued, expired, puts, last, lost, losses>>

\* Mutant: the credential is compared without what it signs in to.
UnchangedBlindly(doc) == document.token = doc.token
\* The document still has the credential that was probed.
Unchanged(doc) == Auth(document) = Auth(doc)

\* Mutant: a renewed credential is not written.
RenewedNever(w) == FALSE
Renewed(w) == work[w].token # work[w].read.token

(* A probe writes into the document it finds, and only when that has the   *)
(* credential it probed; between this look and the write, and between the  *)
(* write and the status, another worker may act.                           *)
CommitAuth(w) ==
  /\ Busy(w, "commit")
  /\ work' = [work EXCEPT ![w] =
       IF document = NoDocument \/ ~Unchanged(@.read) THEN Idle
       ELSE [@ EXCEPT !.phase = IF Renewed(w) THEN "save" ELSE "status",
                        !.read = [document EXCEPT !.account = work[w].read.account]]]
  /\ UNCHANGED <<document, status, rotates, issued, expired, puts, last, lost, losses>>

SaveAuth(w) ==
  /\ Busy(w, "save")
  /\ document' = [work[w].read EXCEPT !.token = work[w].token, !.over = @ \/ work[w].over]
  /\ work' = [Overtake(work[w].read.config) EXCEPT ![w].phase = "status"]
  /\ UNCHANGED <<status, rotates, issued, expired, puts, last, lost, losses>>

UpsertProbe(w) ==
  /\ Busy(w, "status")
  /\ status' = [account |-> work[w].read.account, late |-> work[w].over]
  /\ work' = [work EXCEPT ![w] = Idle]
  /\ UNCHANGED <<document, rotates, issued, expired, puts, last, lost, losses>>
-----------------------------------------------------------------------------
Expire(account) ==
  /\ expired[account] < issued[account] /\ issued[account] < MaxRenewals
  /\ expired' = [expired EXCEPT ![account] = issued[account]]
  /\ UNCHANGED <<document, status, work, rotates, issued, puts, last, lost, losses>>

(* The agent dies; an execution is also dropped when its turn is cancelled. *)
Unsaved(w) == work[w].phase \in {"write", "probe", "commit", "save"} /\ work[w].token # work[w].read.token
LostWith(ws) == lost \cup {work[w].read.account : w \in {v \in ws : Unsaved(v)}}

Crash ==
  /\ Loses /\ work # [w \in Workers |-> Idle]
  /\ work' = [w \in Workers |-> Idle] /\ status' = NoStatus /\ lost' = LostWith(Workers)
  /\ UNCHANGED <<document, rotates, issued, expired, puts, last>>

Act(w) ==
  \/ \E account \in Accounts : Put(w, account)
  \/ Delete(w) \/ RemoveProbe(w)
  \/ Start(w, "execute") \/ Start(w, "probe")
  \/ \E heard \in BOOLEAN : Renew(w, heard) \/ Probe(w, heard)
  \/ RenewRefused(w) \/ WriteBack(w) \/ CommitAuth(w) \/ SaveAuth(w) \/ UpsertProbe(w)

CredentialsNext == (\E w \in Workers : Act(w)) \/ (\E account \in Accounts : Expire(account)) \/ Crash
CredentialsSpec == CredentialsInit /\ [][CredentialsNext]_credentialVars
-----------------------------------------------------------------------------
(* A configuration is never combined with another account's credential,    *)
(* whoever writes into the document in between.                            *)
KeysBelong == document # NoDocument => document.account = puts[document.config]

(* The client's last put or delete stands, unless an execution that had    *)
(* read the document before, or a probe between its look and its write,    *)
(* writes what it read.                                                    *)
PutLasts == document.over \/ document.config = last

(* A recorded status is of the account the profile signs in to, unless it  *)
(* was on its way when the client changed the profile.                     *)
StatusOwn ==
  \/ NoStatus = status \/ status.late \/ document = NoDocument \/ document.over
  \/ status.account = document.account
  \/ \E w \in Workers : Busy(w, "forget")

(* When nothing is under way, the stored credential is the one the         *)
(* provider accepts, unless its last renewal was lost on the way, in a     *)
(* crash or with a failed probe, or the client put an older one.           *)
TokenCurrent ==
  (rotates /\ document # NoDocument /\ document.account \notin lost /\ \A w \in Workers : Busy(w, "idle"))
    => document.token = issued[document.account]

ProfileHonest == KeysBelong /\ PutLasts /\ StatusOwn /\ TokenCurrent
=============================================================================
