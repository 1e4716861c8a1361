------------------------------ MODULE MCClients ------------------------------
(***************************************************************************)
(* The parts around the QPM services, each on its own: the scene says      *)
(* which one moves, the others stay in one of their initial states.        *)
(***************************************************************************)
EXTENDS LifecycleBinding, QiskitPrimitives, PulserConnection,
        QPMResolver, BacklineMatcher, ProviderCredentials, BraketTranscode,
        IqmPlacement, PauliMeasurement

CONSTANTS r1, r2

VARIABLE scene

-----------------------------------------------------------------------------
\* The first run has two pubs of one shot count around one of another.
PubsOf ==
    (r1 :> <<[shots |-> 1, size |-> 2], [shots |-> 2, size |-> 1],
             [shots |-> 1, size |-> 1]>>)
    @@ (r2 :> <<[shots |-> 1, size |-> 1]>>)

-----------------------------------------------------------------------------
\* A device and a simulator, and what applications ask the resolver for.
ServiceProperties ==
    [hw |-> [provider |-> "iqm", type |-> {"hardware"}, flag |-> Unset],
     sim |-> [provider |-> "qb", type |-> Unset, flag |-> Unset]]
Wish(s, p, t, f) == [service |-> s, provider |-> p, type |-> t, fallback |-> f]
Wishes ==
    {Wish(Unset, Unset, {"hardware"}, FALSE), Wish(Unset, Unset, {"hardware"}, TRUE),
     Wish(Unset, "iqm", {}, FALSE), Wish("sim", Unset, {"hardware"}, FALSE)}
Orders ==
    {<<"site", "allocation-local">>, <<"allocation-local", "site">>, <<"site-1", "site">>}
Reserved ==
    {<<>>, <<[service |-> "hw", id |-> 7]>>,
     <<[service |-> "hw", id |-> 7], [service |-> "sim", id |-> 8]>>}

-----------------------------------------------------------------------------
\* Two controllers, three coprocessors, two decoders and three intents.
Entry(i, h, t) == [id |-> i, hardware |-> h, transports |-> t]
ControllerSeq ==
    <<Entry("k1", "cpu", {"memcpy"}), Entry("k2", "cpu", {"memcpy", "rdma"})>>
CoprocessorSeq ==
    <<Entry("p1", "cpu", {"memcpy"}), Entry("p2", "gpu", {"rdma"}),
      Entry("p3", "cpu", {"rdma"})>>
DecoderSeq ==
    <<[id |-> "d1", code |-> "steane", hardware |-> "cpu", p50 |-> Unstated],
      [id |-> "d2", code |-> "steane", hardware |-> "gpu", p50 |-> 2]>>
TransportSeq == <<"memcpy", "rdma">>
AnyDecoder == [kind |-> Unstated, decoder |-> Unstated]
Intent(k, t, l, w) ==
    [code |-> "steane", kind |-> k, transport |-> t, limit |-> l, wanted |-> w]
IntentSet ==
    {Intent(Unstated, Unstated, Unstated, <<AnyDecoder>>),
     Intent(Unstated, "rdma", Unstated, <<AnyDecoder, AnyDecoder>>),
     Intent("cpu", Unstated, 2, <<AnyDecoder>>)}

-----------------------------------------------------------------------------
\* One device with an alias and a vendor's name, its database or provider given
\* in every way; Alice has two entries, Bob one, and a handle of Bob's in one
\* database is Alice's in the other.
Config(d, r) ==
    [qpus |-> <<[id |-> "q1", maker |-> "iqm", pdev |-> "v1", aliases |-> {"a1"},
                 db |-> d, ref |-> r],
                [id |-> "q2", maker |-> "ibm", pdev |-> "v2", aliases |-> {},
                 db |-> "main", ref |-> NotGiven]>>,
     providers |->
        [keys |-> [type |-> "file", db |-> NotGiven, path |-> "other"],
         ents |-> [type |-> "entitlement", db |-> "main", path |-> NotGiven],
         open |-> [type |-> "no-secret", db |-> NotGiven, path |-> NotGiven]]]
ConfigSet ==
    {Config("main", NotGiven), Config("main", "keys")}
        \cup {Config(NotGiven, r) : r \in {"keys", "ents", "open", "undefined"}}
On(key) == [enabled |-> TRUE, key |-> key]
Databases ==
    [main |-> [alice |-> [enabled |-> TRUE, devices |-> [q1 |-> On(1), v1 |-> On(2)]],
               bob |-> [enabled |-> TRUE, devices |-> [v1 |-> On(3)]]],
     other |-> [alice |-> [enabled |-> TRUE, devices |-> [q1 |-> On(4)]]]]
HandleOwners == [main |-> [h1 |-> "bob"], other |-> [h1 |-> "alice"]]
AskOf(u, h, n, d, m, q) ==
    [user |-> u, handle |-> h, hint |-> n, device |-> d, maker |-> m, required |-> q]
AskSet ==
    {AskOf("alice", NotGiven, NotGiven, "a1", NotGiven, TRUE),
     AskOf("bob", NotGiven, "alice", "q1", "ibm", TRUE),
     AskOf("alice", "h1", NotGiven, NotGiven, "iqm", TRUE),
     AskOf("bob", NotGiven, NotGiven, "q1", NotGiven, FALSE)}
ServiceAsk == AskOf("alice", NotGiven, NotGiven, NotGiven, "iqm", TRUE)

-----------------------------------------------------------------------------
Operation(n, qs, bs) == [name |-> n, qubits |-> qs, bits |-> bs]
OperationSet ==
    {Operation("x", <<0>>, <<>>), Operation("x", <<2>>, <<>>),
     Operation("coin", <<1>>, <<>>), Operation("cx", <<1, 2>>, <<>>),
     Operation("x", <<1>>, <<0>>), Operation("ms", <<0, 1>>, <<>>),
     Operation("barrier", <<0, 2>>, <<>>)}
        \cup {Operation("measure", <<q>>, <<b>>) : q \in 0 .. 2, b \in 0 .. 2}

-----------------------------------------------------------------------------
\* Circuits of one or two registers; layouts as a list, by index and by qubit;
\* devices whose active qubits are all, the last two, or one.
CircuitSet ==
    [regs : {<<1>>, <<2>>, <<1, 1>>}, native : BOOLEAN, simple : BOOLEAN, text : BOOLEAN]
MappingSet ==
    {[kind |-> "none", to |-> <<>>], [kind |-> "list", to |-> <<"QB3", "QB1">>],
     [kind |-> "list", to |-> <<"QB2">>],
     [kind |-> "index", to |-> (0 :> "QB3" @@ 1 :> "QB2")],
     [kind |-> "index", to |-> (0 :> "QB2")],
     [kind |-> "ref",
      to |-> (<<1, 0>> :> "QB3" @@ <<2, 0>> :> "QB1" @@ <<1, 1>> :> "QB2")]}
DeviceSet ==
    [active : {<<"QB1", "QB2", "QB3">>, <<"QB2", "QB3">>, <<"QB1">>}, full : BOOLEAN]

-----------------------------------------------------------------------------
\* Observables that share terms, on one parameter point and on another.
ObservablesAt ==
    <<[point |-> 1, terms |-> {<<"X", "X", "I">>, <<"Z", "Z", "I">>, <<"I", "X", "Y">>}],
      [point |-> 1, terms |-> {<<"I", "I", "I">>, <<"I", "Z", "Y">>, <<"Z", "Z", "I">>}],
      [point |-> 2, terms |-> {<<"I", "I", "Z">>, <<"I", "Y", "Z">>, <<"X", "X", "I">>}]>>

-----------------------------------------------------------------------------
\* A component that does not move starts in one state of its several.
IdleResolver ==
    /\ conf = [local |-> TRUE, sites |-> 0, order |-> <<"site-1", "site">>]
    /\ search = SearchFor(<<>>, Wish(Unset, "iqm", {}, FALSE))
    /\ reg = [d \in AllDirectories |-> [s \in Services |-> [live |-> FALSE, gen |-> 1]]]
IdleCredentials ==
    /\ config = Config("main", NotGiven)
    /\ ask = [r \in Held |-> AskOf("bob", NotGiven, NotGiven, "q1", NotGiven, FALSE)]
IdlePlacement ==
    input = [circuit |-> [regs |-> <<1>>, native |-> TRUE, simple |-> TRUE, text |-> TRUE],
             mapping |-> [kind |-> "none", to |-> <<>>],
             device |-> [active |-> <<"QB1">>, full |-> TRUE], client |-> FALSE]

MCInit ==
    /\ scene \in {"binding", "primitives", "connection", "resolver",
                  "backline", "credentials", "braket", "iqm", "pauli"}
    /\ \/ scene = "resolver" /\ ResolverInit
       \/ scene # "resolver" /\ IdleResolver /\ ResolverInit
    /\ \/ scene = "credentials" /\ CredentialsInit
       \/ scene # "credentials" /\ IdleCredentials /\ CredentialsInit
    /\ \/ scene = "iqm" /\ PlacementInit
       \/ scene # "iqm" /\ IdlePlacement /\ PlacementInit
    /\ \/ scene = "pauli" /\ PauliInit
       \/ scene # "pauli" /\ grouping = TRUE /\ PauliInit
    /\ BindingInit /\ PrimitivesInit /\ ConnectionInit /\ BacklineInit /\ BraketInit

MCNext ==
    /\ UNCHANGED scene
    /\ \/ /\ scene = "binding" /\ BindingNext
          /\ UNCHANGED <<qvars, bvars, qrvars, blvars, pcvars, brvars, iqmvars, plvars>>
       \/ /\ scene = "primitives" /\ PrimitivesNext
          /\ UNCHANGED <<lvars, bvars, qrvars, blvars, pcvars, brvars, iqmvars, plvars>>
       \/ /\ scene = "connection" /\ ConnectionNext
          /\ UNCHANGED <<lvars, qvars, qrvars, blvars, pcvars, brvars, iqmvars, plvars>>
       \/ /\ scene = "resolver" /\ ResolverNext
          /\ UNCHANGED <<lvars, qvars, bvars, blvars, pcvars, brvars, iqmvars, plvars>>
       \/ /\ scene = "backline" /\ BacklineNext
          /\ UNCHANGED <<lvars, qvars, bvars, qrvars, pcvars, brvars, iqmvars, plvars>>
       \/ /\ scene = "credentials" /\ CredentialsNext
          /\ UNCHANGED <<lvars, qvars, bvars, qrvars, blvars, brvars, iqmvars, plvars>>
       \/ /\ scene = "braket" /\ BraketNext
          /\ UNCHANGED <<lvars, qvars, bvars, qrvars, blvars, pcvars, iqmvars, plvars>>
       \/ /\ scene = "iqm" /\ PlacementNext
          /\ UNCHANGED <<lvars, qvars, bvars, qrvars, blvars, pcvars, brvars, plvars>>
       \/ /\ scene = "pauli" /\ PauliNext
          /\ UNCHANGED <<lvars, qvars, bvars, qrvars, blvars, pcvars, brvars, iqmvars>>

MCSpec ==
    MCInit /\ [][MCNext]_<<scene, lvars, qvars, bvars, qrvars, blvars,
                          pcvars, brvars, iqmvars, plvars>>
=============================================================================
