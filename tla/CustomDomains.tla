---------------------------- MODULE CustomDomains -----------------------------
(***************************************************************************)
(* CustomDomainsService and the links on a domain: verify, switch on or    *)
(* off and remove the domain, create a link on it.  Every change reads the *)
(* domain, awaits, and saves the whole record it has read.                 *)
(***************************************************************************)
EXTENDS Naturals

CONSTANTS
    Callers,        \* slots of requests in progress
    MaxCalls,       \* bound: requests that are started
    NoDomain

\* What a row says of its domain, as far as links depend on it.
Domains == [verified : BOOLEAN, active : BOOLEAN]

ASSUME NoDomainAssumption == NoDomain \notin Domains

VARIABLES
    domain,         \* the row of the domain, or NoDomain
    link,           \* the link under one slug: "none", "bound" to the domain or "free"
    task,           \* what each request is doing
    undone,         \* history: a change was overwritten by an older, unverified copy
    calls           \* requests started so far

domainVars == <<domain, link, task, undone, calls>>

Registered == [verified |-> FALSE, active |-> FALSE]

Waiting == [op |-> "none", pc |-> "idle", copy |-> NoDomain]

DomainOps == {"verify", "enable", "disable", "delete", "link"}

StartCall(c, op) ==
    /\ task[c] = Waiting
    /\ calls < MaxCalls
    /\ calls' = calls + 1
    /\ task' = [task EXCEPT ![c] = [Waiting EXCEPT !.op = op, !.pc = "read"]]
    /\ UNCHANGED <<domain, link, undone>>

EndCall(c) == task' = [task EXCEPT ![c] = Waiting]

\* findById: a domain that is not there is a 404.
Read(c, op, pc) ==
    /\ task[c].op = op
    /\ task[c].pc = "read"
    /\ IF domain = NoDomain THEN EndCall(c)
       ELSE task' = [task EXCEPT ![c].pc = pc, ![c].copy = domain]
    /\ UNCHANGED <<domain, link, undone, calls>>

\* The TXT and CNAME records, as they are at the time.
CheckDns(c) ==
    /\ task[c].pc = "dns"
    /\ \/ EndCall(c)
       \/ task' = [task EXCEPT ![c].pc = "save",
                               ![c].copy = [verified |-> TRUE, active |-> TRUE]]
    /\ UNCHANGED <<domain, link, undone, calls>>

SwitchOf(c) ==
    CASE task[c].op = "enable" -> [task[c].copy EXCEPT !.active = TRUE]
      [] task[c].op = "disable" -> [task[c].copy EXCEPT !.active = FALSE]
      [] OTHER -> task[c].copy

\* The whole record, inserted again when it was removed meanwhile.
SaveDomain(c) ==
    /\ task[c].pc = "save"
    /\ domain' = SwitchOf(c)
    /\ undone' = (undone \/ (~domain'.verified /\ domain # task[c].copy))
    /\ EndCall(c)
    /\ UNCHANGED <<link, calls>>

\* ON DELETE SET NULL: the links stay and lose their domain.
RemoveDomain(c) ==
    /\ task[c].pc = "remove"
    /\ domain' = NoDomain
    /\ link' = IF link = "bound" THEN "free" ELSE link
    /\ EndCall(c)
    /\ UNCHANGED <<undone, calls>>

\* Mutant: links can be created before the domain is verified.
AnyDomain(c) == TRUE

\* create(): a verified domain and a free slug ...
IsVerified(c) == task[c].copy.verified

CheckSlug(c) ==
    /\ task[c].pc = "slug"
    /\ IF IsVerified(c) /\ link # "bound"
       THEN task' = [task EXCEPT ![c].pc = "insert"]
       ELSE EndCall(c)
    /\ UNCHANGED <<domain, link, undone, calls>>

\* ... and the row, which the foreign key and the unique slug can refuse.
InsertLink(c) ==
    /\ task[c].pc = "insert"
    /\ link' = IF domain # NoDomain /\ link # "bound" THEN "bound" ELSE link
    /\ EndCall(c)
    /\ UNCHANGED <<domain, undone, calls>>

DomainInit ==
    /\ domain = Registered
    /\ link = "none"
    /\ task = [c \in Callers |-> Waiting]
    /\ undone = FALSE
    /\ calls = 0

DomainStep(c) ==
    \/ \E op \in DomainOps : StartCall(c, op)
    \/ Read(c, "verify", "dns") \/ CheckDns(c)
    \/ Read(c, "enable", "save") \/ Read(c, "disable", "save") \/ SaveDomain(c)
    \/ Read(c, "delete", "remove") \/ RemoveDomain(c)
    \/ Read(c, "link", "slug") \/ CheckSlug(c) \/ InsertLink(c)

DomainSpec == DomainInit /\ [][\E c \in Callers : DomainStep(c)]_domainVars

-------------------------------------------------------------------------------
(* A link on a custom domain belongs to a domain that exists and is         *)
(* verified, whatever requests overlap, unless an older copy of the domain  *)
(* has overwritten its verification or its removal.                         *)
LinksOnVerifiedDomains ==
    link = "bound" => domain # NoDomain /\ (domain.verified \/ undone)
===============================================================================
