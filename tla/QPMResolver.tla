----------------------------- MODULE QPMResolver -----------------------------
(***************************************************************************)
(* How a client finds a QPM (backends/qfw_qiskit: qpm_resolver.py, with    *)
(* the entry point of qfw_lookup_service.py, the providers of              *)
(* qpm_selection.py and the reservation set of reservation_set.py).        *)
(*                                                                         *)
(* The resolver asks one directory after the other, so services may        *)
(* register and leave between two answers; it then chooses among what it   *)
(* saw, asks the directory for the service's latest generation, and        *)
(* connects.  The directories themselves are external.  Bit masks are sets *)
(* of names: {} stands for 0 and for -1, Unset for a property no record    *)
(* declares.                                                               *)
(***************************************************************************)
EXTENDS Naturals, FiniteSets, Sequences, SequencesExt

CONSTANTS
    Properties,    \* service |-> [provider, type, flag]: what it declares
    Selections,    \* requests: [service, provider, type, fallback], where Unset
                   \* leaves a field open
    ScopeOrders,   \* scope orders an environment may configure
    ReservedSets,  \* sequences of [service, id]: values of QFW_RESERVATIONS
    SimulatorProviders,
    MaxSites,      \* bound: site directory endpoints
    MaxWaits,      \* timeout: rounds of an unanswered search
    MaxChanges,    \* bound: registrations that change during a search
    Unset

VARIABLES
    conf,      \* [local, sites, order]: what the environment says
    search,    \* the running search: [kind, request, id]
    reg,       \* directory |-> service |-> [live, gen]
    rpc,       \* "query", "check", "connect" or "over"
    asking,    \* position of the directory to ask next
    seen,      \* sequence of candidates of this round
    waited,    \* rounds that found nothing
    pick,      \* the chosen candidate
    verdict,   \* "none", "connected", or why the search failed
    changes

qrvars == <<conf, search, reg, rpc, asking, seen, waited, pick, verdict, changes>>

Services == DOMAIN Properties
SiteNames == <<"site-0", "site-1", "site-2">>
AllDirectories == {"local"} \cup {SiteNames[i] : i \in 1 .. MaxSites}
NoPick == [dir |-> "none", scope |-> "none", prio |-> 0, service |-> Unset, gen |-> 0]

-----------------------------------------------------------------------------
(* from_environment: which directories are asked, and in which order.      *)

Allowed(names, order) == \E n \in names : n \in Range(order)

\* The directory the process is bound to is the allocation's own one, unless
\* only site endpoints are configured: then it is the first of them.  The
\* other site endpoints get a client that only knows resolve_services.
DirectoryList(c) ==
    LET bound == c.local \/ c.sites = 0
        local == [name |-> "local", scope |-> "allocation-local", prio |-> 100,
                  reports |-> TRUE]
        site(i) == [name |-> SiteNames[i], scope |-> "site", prio |-> 50,
                    reports |-> ~bound /\ i = 1]
    IN SelectSeq((IF bound THEN <<local>> ELSE <<>>)
                    \o [i \in 1 .. c.sites |-> site(i)],
                 LAMBDA d : Allowed({d.scope, d.name}, c.order))

\* _scope_order: the scope's place in the order, else the directory's.
ScopeRank(c, order) ==
    IF Allowed({c.scope}, order) THEN CHOOSE i \in DOMAIN order : order[i] = c.scope
    ELSE IF Allowed({c.dir}, order) THEN CHOOSE i \in DOMAIN order : order[i] = c.dir
    ELSE Len(order) + 1

-----------------------------------------------------------------------------
(* What a request asks for.                                                *)

\* parse_qfw_reservations and select_qpm_reservation: every service is named
\* once, and the caller names one unless there is only one.
ReservationFor(set, service) ==
    LET match == SelectSeq(set, LAMBDA r : service \in {Unset, r.service}) IN
    IF /\ \A i, j \in DOMAIN set : set[i].service = set[j].service => i = j
       /\ Len(match) = 1
    THEN match[1] ELSE [service |-> Unset, id |-> 0]

\* _connect_qpm: with a reservation set the reserved service is searched for,
\* otherwise whatever the request selects.
SearchFor(set, request) ==
    IF set = <<>> THEN [kind |-> "open", request |-> request, id |-> 0]
    ELSE LET r == ReservationFor(set, request.service) IN
         [kind |-> IF r.id = 0 THEN "refused" ELSE "reserved", id |-> r.id,
          request |-> [service |-> r.service, provider |-> Unset, type |-> {},
                       fallback |-> FALSE]]

\* _candidate_bits_match and _bits_match
BitsMatch(record, asked) == asked = {} \/ record = Unset \/ asked \subseteq record

\* _matches_request
Matches(s, request) ==
    /\ request.service \in {Unset, s}
    /\ BitsMatch(Properties[s].type, request.type)

\* _candidate_is_simulator: the flag decides, then the provider and the type.
IsSimulator(s) ==
    IF Properties[s].flag # Unset THEN Properties[s].flag
    ELSE \/ Properties[s].provider \in SimulatorProviders
         \/ Properties[s].type # Unset /\ "simulator" \in Properties[s].type

\* _request_requires_hardware, _simulator_fallback_allowed
FallbackNeeded(request) ==
    /\ "hardware" \in request.type
    /\ ~request.fallback
    /\ request.provider \notin SimulatorProviders
    /\ "simulator" \notin request.type

-----------------------------------------------------------------------------
(* _select_candidate                                                       *)

\* _selection_sort_key with the priority first
BeforeByPriority(a, b) ==
    \/ a.prio > b.prio
    \/ a.prio = b.prio /\ ScopeRank(a, conf.order) < ScopeRank(b, conf.order)

\* _selection_sort_key: the sort is stable, so discovery order comes last.
Before(a, b) ==
    \/ ScopeRank(a, conf.order) < ScopeRank(b, conf.order)
    \/ ScopeRank(a, conf.order) = ScopeRank(b, conf.order) /\ a.prio > b.prio

\* The first of the ordered candidates: the first seen with none before it.
FirstOf(cands) ==
    cands[CHOOSE i \in DOMAIN cands :
             /\ \A k \in DOMAIN cands : ~Before(cands[k], cands[i])
             /\ \A k \in DOMAIN cands :
                   (\A l \in DOMAIN cands : ~Before(cands[l], cands[k])) => i <= k]

\* _reject_ambiguous_resolution compares ranks with the first one's.
Tied(cands, first) ==
    SelectSeq(cands, LAMBDA c : /\ ScopeRank(c, conf.order) = ScopeRank(first, conf.order)
                                /\ c.prio = first.prio)

\* _reject_duplicate_service_ids that looks within one directory only
DuplicatesByDirectory(cands) ==
    \E i, j \in DOMAIN cands : i # j /\ cands[i].service = cands[j].service
                                    /\ cands[i].dir = cands[j].dir

\* _reject_duplicate_service_ids
Duplicates(cands) ==
    \E i, j \in DOMAIN cands : i # j /\ cands[i].service = cands[j].service

\* _apply_simulator_fallback_policy
Eligible(cands, request) ==
    IF FallbackNeeded(request)
    THEN SelectSeq(cands, LAMBDA c : ~IsSimulator(c.service)) ELSE cands

\* What a search makes of the candidates it saw: [verdict, pick].
Decide(cands, s) ==
    LET refuse(why) == [verdict |-> why, pick |-> NoPick]
        eligible == Eligible(cands, s.request)
        offered == IF s.request.provider = Unset THEN eligible
                   ELSE SelectSeq(eligible, LAMBDA c :
                            Properties[c.service].provider = s.request.provider)
    IN IF s.kind = "reserved"
       THEN IF Len(cands) = 1 THEN [verdict |-> "none", pick |-> cands[1]]
            ELSE refuse("ambiguous")
       ELSE IF Duplicates(cands) THEN refuse("ambiguous")
       ELSE IF eligible = <<>> THEN refuse("fallback policy")
       ELSE IF offered = <<>> THEN refuse("provider policy")
       ELSE IF Len(Tied(offered, FirstOf(offered))) > 1 THEN refuse("ambiguous")
       ELSE [verdict |-> "none", pick |-> FirstOf(offered)]

-----------------------------------------------------------------------------
ResolverInit ==
    /\ conf \in [local : BOOLEAN, sites : 0 .. MaxSites, order : ScopeOrders]
    /\ \E set \in ReservedSets, r \in Selections : search = SearchFor(set, r)
    /\ \E here \in SUBSET (AllDirectories \X Services) :
        reg = [d \in AllDirectories |-> [s \in Services |->
                  [live |-> <<d, s>> \in here, gen |-> 1]]]
    /\ rpc = IF search.kind = "refused" THEN "over" ELSE "query"
    /\ verdict = IF search.kind = "refused" THEN "no reservation" ELSE "none"
    /\ asking = 1 /\ seen = <<>> /\ waited = 0 /\ pick = NoPick /\ changes = 0

\* _collect_candidates, one directory: its records that match, in some order.
Query ==
    LET dirs == DirectoryList(conf)
        d == dirs[asking]
        found == SetToSeq({s \in Services : reg[d.name][s].live
                                            /\ Matches(s, search.request)})
    IN /\ rpc = "query" /\ asking <= Len(dirs)
       /\ seen' = seen \o [i \in 1 .. Len(found) |->
            [dir |-> d.name, scope |-> d.scope, prio |-> d.prio,
             service |-> found[i], gen |-> reg[d.name][found[i]].gen]]
       /\ asking' = asking + 1
       /\ UNCHANGED <<conf, search, reg, rpc, waited, pick, verdict, changes>>

\* The end of a round: nothing found means another round, until the timeout.
\* The generation is checked for a reservation and by connect; _connect_qpm
\* leaves it to the lifecycle binding.
Round ==
    /\ rpc = "query" /\ asking > Len(DirectoryList(conf))
    /\ asking' = 1 /\ seen' = seen
    /\ IF seen # <<>>
       THEN LET d == Decide(seen, search) IN
            /\ verdict' = d.verdict /\ pick' = d.pick /\ waited' = waited
            /\ IF d.verdict # "none" THEN rpc' = "over"
               ELSE \/ rpc' = "check"
                    \/ search.kind = "open" /\ rpc' = "connect"
       ELSE /\ waited' = waited + 1 /\ pick' = pick
            /\ IF waited + 1 < MaxWaits THEN UNCHANGED <<rpc, verdict>>
               ELSE rpc' = "over" /\ verdict' = "unavailable"
    /\ UNCHANGED <<conf, search, reg, changes>>

\* _reject_stale_generation: only a client that reports generations is asked.
Check ==
    LET reports == \E i \in DOMAIN DirectoryList(conf) :
                       LET d == DirectoryList(conf)[i] IN d.name = pick.dir /\ d.reports
    IN /\ rpc = "check"
       /\ IF reports /\ reg[pick.dir][pick.service].gen > pick.gen
          THEN rpc' = "over" /\ verdict' = "stale"
          ELSE rpc' = "connect" /\ UNCHANGED verdict
       /\ UNCHANGED <<conf, search, reg, asking, seen, waited, pick, changes>>

\* connect_to_binding
ConnectToBinding ==
    /\ rpc = "connect" /\ rpc' = "over" /\ verdict' = "connected"
    /\ UNCHANGED <<conf, search, reg, asking, seen, waited, pick, changes>>

\* A QPM registers, as a new runtime of a known service, or leaves.
Registration(d, s) ==
    /\ rpc # "over" /\ changes < MaxChanges /\ changes' = changes + 1
    /\ reg' = [reg EXCEPT ![d][s] =
                  IF @.live THEN [@ EXCEPT !.live = FALSE]
                  ELSE [live |-> TRUE, gen |-> @.gen + 1]]
    /\ UNCHANGED <<conf, search, rpc, asking, seen, waited, pick, verdict>>

ResolverNext ==
    \/ Query \/ Round \/ Check \/ ConnectToBinding
    \/ \E d \in AllDirectories, s \in Services : Registration(d, s)

ResolverSpec == ResolverInit /\ [][ResolverNext]_qrvars

-----------------------------------------------------------------------------
\* A connection is to the one best candidate: no simulator stands in for
\* hardware unasked, and no eligible candidate of a scope that comes earlier,
\* or of the same scope and as high a priority, was seen.
BestEligible ==
    verdict = "connected" /\ search.kind = "open" =>
        /\ FallbackNeeded(search.request) => ~IsSimulator(pick.service)
        /\ \A i \in DOMAIN seen :
            LET c == seen[i]
                mine == ScopeRank(pick, conf.order)
                other == ScopeRank(c, conf.order)
            IN \/ c = pick
               \/ FallbackNeeded(search.request) /\ IsSimulator(c.service)
               \/ search.request.provider \notin {Unset, Properties[c.service].provider}
               \/ other > mine
               \/ other = mine /\ c.prio < pick.prio

\* While the directories stand still, a service that is connected to is found
\* in one of the directories the environment allows and in no other of them.
OneLocation ==
    verdict = "connected" /\ changes = 0 =>
        \A i \in DOMAIN DirectoryList(conf) :
            LET d == DirectoryList(conf)[i].name IN
            reg[d][pick.service].live <=> d = pick.dir

\* Every connection can be justified by what the directories held.
ConnectionJustified ==
    BestEligible /\ OneLocation
=============================================================================
