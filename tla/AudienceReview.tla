---------------------------- MODULE AudienceReview ----------------------------
(***************************************************************************)
(* The audience requests of the campaigns API (campaigns.controller,       *)
(* audience-validation.service, audience-computation.service): an operator *)
(* computes a campaign's audience, looks at it, validates it, removes what *)
(* the validation complains about, or clears it.                           *)
(*                                                                         *)
(* Contacts live in the CRM and are fetched one by one, through a cache of *)
(* the CRM client that holds a copy for thirty seconds; one that cannot be *)
(* fetched counts as missing.  Nothing orders the requests on a campaign:  *)
(* two of them read and write the same rows.                               *)
(***************************************************************************)
EXTENDS Naturals, FiniteSets

CONSTANTS
    People,     \* contacts of the CRM that the campaign's definition selects
    SampleSize, \* sample_size of a validation before the computation
    MaxAsks,    \* requests
    MaxUpsets   \* failed calls and contacts changed in the CRM

ASSUME PeopleAssumption == IsFiniteSet(People)

(* A contact's address for the channel, and whether it is blocked.  Contacts *)
(* may have the same address; "broken" is not an e-mail address.             *)
Addresses == {"home", "broken"}
Person ==
    [address : {"home"}, blocked : BOOLEAN]
        \cup [address : {"broken", "none"}, blocked : {FALSE}]
Channels == {"email", "phone", "other"}

VARIABLES
    channel,    \* the campaign's channel type
    book,       \* the contacts as the CRM has them
    former,     \* the contacts as the client's cache may still have them
    audience,   \* how many rows of the campaign each contact has
    reviews,    \* what each request is doing
    asks, upsets

reviewVars == <<channel, book, former, audience, reviews, asks, upsets>>

Slots == 1 .. 2
NoReview == [pc |-> "free", op |-> "none", list |-> {}, issues |-> {}, verdict |-> "none",
             blind |-> FALSE, outdated |-> FALSE]

ReviewInit ==
    /\ channel \in Channels
    /\ book \in [People -> Person]
    /\ former = book
    /\ \E rows \in 0 .. 1 : audience = [p \in People |-> rows]
    /\ reviews = [s \in Slots |-> NoReview]
    /\ asks = 0 /\ upsets = 0

Upset == upsets < MaxUpsets /\ upsets' = upsets + 1
Doing(s, phase) == reviews[s].pc = phase
Busy(s) == ~Doing(s, "free")
Listed == {p \in People : audience[p] > 0}

(* What changes the rows under the other requests makes them outdated.       *)
Outdate(s, rest) ==
    reviews' = [t \in Slots |->
                  IF t = s THEN rest ELSE [reviews[t] EXCEPT !.outdated = Busy(t)]]
Proceed(s, rest) == reviews' = [reviews EXCEPT ![s] = rest]
Answered(s, verdict) == [NoReview EXCEPT !.verdict = verdict, !.blind = reviews[s].blind,
                                         !.outdated = reviews[s].outdated]

-------------------------------------------------------------------------------
(* validateContactForChannel, of a contact as the copies in c have it.       *)
Deliverable(c, p) ==
    /\ channel = "email" => c[p].address \in Addresses \ {"broken"}
    /\ channel = "phone" => c[p].address \in Addresses
    /\ channel /= "other"
    /\ ~c[p].blocked

(* What findDuplicates compares, whether or not the contact is deliverable.  *)
Keyed(c, found) == {p \in found : channel /= "other" /\ c[p].address /= "none"}
SameKey(c, p, q) == c[p].address = c[q].address

(* Mutant: every holder of a shared address is reported, the first included. *)
EveryHolder(c, found) ==
    {{p \in Keyed(c, found) : \E q \in Keyed(c, found) \ {p} : SameKey(c, p, q)}}

(* findDuplicates keeps the first holder of an address that it meets, and    *)
(* the rows come in no particular order.                                     *)
Duplicates(c, found) ==
    {dup \in SUBSET Keyed(c, found) :
        \A p \in Keyed(c, found) :
            Cardinality({q \in Keyed(c, found) \ dup : SameKey(c, p, q)}) = 1}

-------------------------------------------------------------------------------
(* Requests.                                                                 *)

FirstPc(op) ==
    CASE op \in {"clear", "compute"} -> "wipe"
      [] op \in {"validate", "remove"} -> "rows"
      [] op = "sample" -> "select"

(* A request arrives; it takes the first slot that is free.                  *)
Ask(op) ==
    /\ asks < MaxAsks /\ asks' = asks + 1
    /\ \E s \in Slots :
        /\ ~Busy(s) /\ \A t \in Slots : t < s => Busy(t)
        /\ Proceed(s, [NoReview EXCEPT !.pc = FirstPc(op), !.op = op])
    /\ UNCHANGED <<channel, book, former, audience, upsets>>

(* The count, the preview and the estimate change nothing.                   *)
Look ==
    /\ asks < MaxAsks /\ asks' = asks + 1
    /\ UNCHANGED <<channel, book, former, audience, reviews, upsets>>

(* clearAudience, of the request of that name and of computeAudience.        *)
Wipe(s) ==
    /\ Doing(s, "wipe")
    /\ audience' = [p \in People |-> 0]
    /\ Outdate(s, IF reviews[s].op = "clear" THEN Answered(s, "none")
                                             ELSE [reviews[s] EXCEPT !.pc = "select"])
    /\ UNCHANGED <<channel, book, former, asks, upsets>>

(* The definition selects the contacts: all of them to compute the audience, *)
(* any few to validate a sample.                                             *)
Select(s) ==
    /\ Doing(s, "select")
    /\ \E list \in SUBSET People :
        /\ IF reviews[s].op = "compute" THEN list = People
           ELSE Cardinality(list) = IF Cardinality(People) < SampleSize
                                    THEN Cardinality(People) ELSE SampleSize
        /\ Proceed(s, [reviews[s] EXCEPT !.pc = "fetch", !.list = list])
    /\ UNCHANGED <<channel, book, former, audience, asks, upsets>>

(* validateAudience reads the rows; none of them is an empty result.         *)
ReadRows(s) ==
    /\ Doing(s, "rows")
    /\ Proceed(s, IF Listed = {} THEN Answered(s, "invalid")
                  ELSE [reviews[s] EXCEPT !.pc = "fetch", !.list = Listed])
    /\ UNCHANGED <<channel, book, former, audience, asks, upsets>>

(* What each request makes of the contacts that were found, as c has them.   *)
Judged(r, c, found) ==
    CASE r.op = "compute" ->
            {[r EXCEPT !.pc = "fill", !.list = {p \in found : Deliverable(c, p)}]}
      [] r.op = "sample" ->
            {[NoReview EXCEPT !.verdict = IF \E p \in found : Deliverable(c, p)
                                          THEN "promising" ELSE "invalid",
                              !.blind = r.blind, !.outdated = r.outdated]}
      [] OTHER ->
            {LET issues == dup \cup (r.list \ {p \in found : Deliverable(c, p)}) IN
                IF r.op = "remove" /\ issues /= {}
                THEN [r EXCEPT !.pc = "delete", !.issues = issues]
                ELSE [NoReview EXCEPT !.verdict = IF issues = {} THEN "valid" ELSE "invalid",
                                      !.blind = r.blind, !.outdated = r.outdated] :
             dup \in Duplicates(c, found)}

(* findByIds: what cannot be fetched is left out, whatever the reason.       *)
Fetch(s) ==
    /\ Doing(s, "fetch")
    /\ \E c \in {book, former}, found \in SUBSET reviews[s].list :
        /\ IF found = reviews[s].list THEN UNCHANGED upsets ELSE Upset
        /\ \E r \in Judged([reviews[s] EXCEPT !.blind = found /= reviews[s].list,
                                              !.outdated = @ \/ former /= book], c, found) :
            Proceed(s, r)
    /\ UNCHANGED <<channel, book, former, audience, asks>>

(* populateCampaignContacts inserts the rows.                                *)
Fill(s) ==
    /\ Doing(s, "fill")
    /\ audience' = [p \in People |-> audience[p] + IF p \in reviews[s].list THEN 1 ELSE 0]
    /\ Outdate(s, Answered(s, "none"))
    /\ UNCHANGED <<channel, book, former, asks, upsets>>

(* removeInvalidContacts deletes every row of a contact with an issue.       *)
Delete(s) ==
    /\ Doing(s, "delete")
    /\ audience' = [p \in People |-> IF p \in reviews[s].issues THEN 0 ELSE audience[p]]
    /\ Outdate(s, Answered(s, "none"))
    /\ UNCHANGED <<channel, book, former, asks, upsets>>

(* A database call fails, or the campaign is gone: the request is an error.  *)
Break(s) ==
    /\ Busy(s) /\ Upset
    /\ Proceed(s, NoReview)
    /\ UNCHANGED <<channel, book, former, audience, asks>>

-------------------------------------------------------------------------------
(* The CRM: a contact is changed, and the copies of it expire.               *)

ChangeContact ==
    /\ former = book /\ Upset
    /\ \E p \in People, person \in Person : book' = [book EXCEPT ![p] = person]
    /\ reviews' = [s \in Slots |-> [reviews[s] EXCEPT !.outdated = Busy(s)]]
    /\ UNCHANGED <<channel, former, audience, asks>>

ExpireCopies ==
    /\ former /= book
    /\ former' = book
    /\ UNCHANGED <<channel, book, audience, reviews, asks, upsets>>

ReviewNext ==
    \/ \E op \in {"compute", "clear", "validate", "remove", "sample"} : Ask(op)
    \/ Look \/ ChangeContact \/ ExpireCopies
    \/ \E s \in Slots :
        \/ Wipe(s) \/ Select(s) \/ ReadRows(s) \/ Fetch(s) \/ Fill(s) \/ Delete(s)
        \/ Break(s)

ReviewSpec == ReviewInit /\ [][ReviewNext]_reviewVars

-------------------------------------------------------------------------------
Reached(p) == Deliverable(book, p) /\ p \in Listed
Undisturbed(s) == ~reviews[s].blind /\ ~reviews[s].outdated

(* Two contacts of the audience that share an address, one not deliverable.  *)
Hindered(p) ==
    \E q \in Listed : SameKey(book, p, q) /\ ~Deliverable(book, q)

(* Removing the invalid contacts of an audience reaches nobody less: every   *)
(* address that a deliverable contact had keeps one, unless a contact that   *)
(* is not deliverable was met first and made the good one its duplicate.     *)
RemovalKeepsReach(s) ==
    \A p \in Listed : Reached(p) /\ ~Hindered(p) =>
        \E q \in Listed : SameKey(book, p, q) /\ Deliverable(book, q) /\ audience'[q] > 0

(* It leaves an audience the validation has nothing against.                 *)
RemovalTidies(s) ==
    \A p \in People : audience'[p] > 0 =>
        /\ Deliverable(book, p)
        /\ \A q \in People \ {p} : audience'[q] > 0 => ~SameKey(book, p, q)

(* Removal says so of each removal that no failed fetch, other request or    *)
(* change in the CRM disturbed between its reading and its deletion.         *)
RemovalIsSound ==
    \A s \in Slots : Doing(s, "delete") /\ reviews'[s].pc = "free" /\ audience' /= audience
                     /\ Undisturbed(s) =>
        RemovalKeepsReach(s) /\ RemovalTidies(s)

(* An audience is reported valid only if it is, even when contacts could not *)
(* be fetched; a sample is promising only if somebody can be reached.        *)
VerdictsAreTrue ==
    \A s \in Slots : Busy(s) /\ ~reviews[s].outdated /\ former = book =>
        /\ reviews'[s].verdict = "valid" =>
            \A p \in Listed : /\ Deliverable(book, p)
                              /\ \A q \in Listed \ {p} : ~SameKey(book, p, q)
        /\ reviews'[s].verdict = "promising" => \E p \in People : Deliverable(book, p)

(* The requests on an audience do what they say.                             *)
ReviewsAreSound == [][RemovalIsSound /\ VerdictsAreTrue]_reviewVars
===============================================================================
