--------------------------- MODULE BacklineMatcher ---------------------------
(***************************************************************************)
(* The matcher of the Backline QPM (services/svc_backline_qpm/matcher.py): *)
(* a controller, coprocessors with decoders and a transport for a resource *)
(* intent, out of what is not busy.  BacklinePlacement takes it as Match.  *)
(***************************************************************************)
EXTENDS BacklinePlacement, SequencesExt

CONSTANTS
    Decoders,       \* inventory: sequence of [id, code, hardware, p50]
    TransportOrder  \* the transports, as sorted() orders them

Fits(want, value) == want \in {Unstated, value}

\* The coprocessors with a decoder for one role, by position in the inventory.
Decoding(want, intent) ==
    {o \in (DOMAIN Coprocessors) \X (DOMAIN Decoders) :
        LET decoder == Decoders[o[2]] IN
        /\ decoder.code = intent.code
        /\ Fits(want.kind, decoder.hardware)
        /\ want.decoder \in {Unstated, decoder.code, decoder.id}
        /\ Coprocessors[o[1]].hardware = decoder.hardware}

\* The latency limit: a decoder whose round trip was never measured is out.
Prompt(d, limit) ==
    limit = Unstated \/ (Decoders[d].p50 # Unstated /\ Decoders[d].p50 <= limit)

\* _match_on: what one role may be given on a transport
Options(want, intent, transport) ==
    {o \in Decoding(want, intent) :
        transport \in Coprocessors[o[1]].transports /\ Prompt(o[2], intent.limit)}

\* next(...) of a list in inventory order; <<0, 0>> when it is empty
FirstOption(S) ==
    IF S = {} THEN <<0, 0>>
    ELSE CHOOSE o \in S : \A p \in S : o[1] < p[1] \/ (o[1] = p[1] /\ o[2] <= p[2])

\* The greedy choice, one role after the other, of coprocessors not taken.
Choose(intent, transport, busy) ==
    FoldLeft(LAMBDA chosen, want :
                 Append(chosen, FirstOption(
                     {o \in Options(want, intent, transport) :
                         /\ Coprocessors[o[1]].id \notin busy
                         /\ \A i \in DOMAIN chosen : chosen[i][1] # o[1]})),
             <<>>, intent.wanted)

\* _match_on: the placement on one transport
MatchOn(intent, transport, busy) ==
    LET free == {i \in DOMAIN Controllers :
                    /\ Fits(intent.kind, Controllers[i].hardware)
                    /\ transport \in Controllers[i].transports
                    /\ Controllers[i].id \notin busy}
        ctrl == CHOOSE i \in free : \A j \in free : i <= j
        chosen == Choose(intent, transport, busy \cup {Controllers[ctrl].id})
    IN IF free = {} \/ <<0, 0>> \in Range(chosen) THEN Rejected
       ELSE [controller |-> ctrl, coprocessors |-> chosen,
             transport |-> transport, code |-> intent.code]

\* match: the transport asked for, or the first one that fits.  The reasons of
\* a rejection and the checks of the intent's shape are left out.
MatchInventory(intent, busy) ==
    LET tries == IF intent.transport # Unstated THEN <<intent.transport>> ELSE TransportOrder
        fits == {i \in DOMAIN tries : MatchOn(intent, tries[i], busy) # Rejected}
    IN IF fits = {} THEN Rejected
       ELSE MatchOn(intent, tries[CHOOSE i \in fits : \A j \in fits : i <= j], busy)
=============================================================================
