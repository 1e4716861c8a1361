---------------------------- MODULE IqmPlacement ----------------------------
(***************************************************************************)
(* On which physical qubits a circuit for an IQM device ends up            *)
(* (services/util/iqm_transcode.py): build_iqm_circuit tries up to four    *)
(* translations, each with its own way of naming the qubits, and takes the *)
(* first that does not fail.  The transpiler, which may lay a circuit out  *)
(* as it likes, and the serializer are IQM's own libraries.                *)
(***************************************************************************)
EXTENDS Naturals, FiniteSets, Sequences, SequencesExt

CONSTANTS
    Circuits,   \* [regs, native, simple, text]: the sizes of its registers;
                \* native operations only; gates of the manual translation
                \* only; OpenQASM 2 text, or QPY that can be written as such
    Mappings,   \* [kind, to]: "none"; "list", to a sequence of names;
                \* "index" or "ref", a dict by index or by register reference
    Devices,    \* [active, full]: sequence of active qubits; the gate loci known
    NoPlace

VARIABLES
    input,    \* [circuit, mapping, device, client]
    tier,     \* the translation to be tried next, or "done", "failed"
    by,       \* the translation that succeeded
    place,    \* logical qubit, by its index in the circuit |-> physical qubit
    chosen    \* where the transpiler put the logical qubits

iqmvars == <<input, tier, by, place, chosen>>

Size(c) == FoldLeft(LAMBDA n, size : n + size, 0, c.regs)
Logical(c) == 0 .. Size(c) - 1

\* logical index |-> <<register, index in it>>
RefOf(c, l) ==
    LET before(r) == FoldLeft(LAMBDA n, size : n + size, 0, SubSeq(c.regs, 1, r - 1))
        r == CHOOSE k \in DOMAIN c.regs : before(k) <= l /\ l < before(k) + c.regs[k]
    IN <<r, l - before(r)>>

Get(f, k) == IF k \in DOMAIN f THEN f[k] ELSE NoPlace

PlacementInit ==
    /\ input \in [circuit : Circuits, mapping : Mappings, device : Devices, client : BOOLEAN]
    /\ tier = IF input.client THEN "client" ELSE "serialize"
    /\ by = NoPlace /\ place = <<>> /\ chosen = <<>>

\* logical_to_physical_qubits: <<FALSE>> when the device is too small.  A dict
\* is asked by index only.
LogicalToPhysical(c, m, d) ==
    CASE m.kind = "list" -> <<TRUE, [l \in 0 .. Len(m.to) - 1 |-> m.to[l + 1]]>>
      [] m.kind = "index" -> <<TRUE, [l \in Logical(c) |-> Get(m.to, l)]>>
      [] m.kind = "ref" -> <<TRUE, [l \in Logical(c) |-> NoPlace]>>
      [] OTHER -> IF Size(c) > Len(d.active) THEN <<FALSE>>
                  ELSE <<TRUE, [l \in Logical(c) |-> d.active[l + 1]]>>

DeviceNames(d) == [i \in 0 .. Len(d.active) - 1 |-> d.active[i + 1]]

PlaceAs(t, p) ==
    /\ tier' = "done" /\ by' = t
    /\ place' = [l \in Logical(input.circuit) |-> Get(p, l)]

FallTo(t) ==
    /\ tier' = t
    /\ UNCHANGED <<by, place, chosen>>

\* Seeded fault: a restricted transpile is named with the device's own indices.
IndexToNameDevice(c, m, d) == DeviceNames(d)

\* transpile_qiskit_to_iqm: the map from an index of the transpiled circuit to
\* a qubit; with a mapping, the circuit is numbered onto the restricted set.
IndexToName(c, m, d) ==
    IF m.kind = "none" THEN DeviceNames(d) ELSE LogicalToPhysical(c, m, d)[2]

\* the qubits the transpiler was given, in the order it numbers them
Restricted(c, m, d) ==
    IF m.kind = "none" THEN DeviceNames(d) ELSE LogicalToPhysical(c, m, d)[2]

\* The transpiler takes distinct, active qubits, and enough of them.
CanTranspile(c, m, d) ==
    LET given == Restricted(c, m, d) IN
    /\ Range(given) \subseteq Range(d.active)
    /\ IsInjective(given)
    /\ Size(c) <= Cardinality(DOMAIN given)

Transpile(t) ==
    LET c == input.circuit
        given == Restricted(c, input.mapping, input.device)
        names == IndexToName(c, input.mapping, input.device)
    IN /\ CanTranspile(c, input.mapping, input.device)
       /\ \E layout \in [Logical(c) -> DOMAIN given] :
             /\ IsInjective(layout)
             /\ chosen' = [l \in Logical(c) |-> given[layout[l]]]
             /\ PlaceAs(t, [l \in Logical(c) |-> Get(names, layout[l])])
       /\ UNCHANGED input

\* A caller with a client transpiles first; the client gives the architecture,
\* or fails to.
TranspileWithClient ==
    /\ tier = "client"
    /\ \/ Transpile("client")
       \/ FallTo("serialize") /\ UNCHANGED input

\* serialize_qiskit_to_iqm: native circuits as they are
Serialize ==
    LET c == input.circuit
        names == LogicalToPhysical(c, input.mapping, input.device)
    IN /\ tier = "serialize"
       /\ IF c.native /\ names[1] /\ Logical(c) \subseteq DOMAIN names[2]
          THEN PlaceAs("serialize", names[2]) /\ UNCHANGED chosen
          ELSE FallTo(IF input.client THEN "manual" ELSE "architecture")
       /\ UNCHANGED input

\* architecture_backend: only an architecture with its gate loci will do.
TranspileFromArchitecture ==
    /\ tier = "architecture"
    /\ \/ input.device.full /\ Transpile("architecture")
       \/ /\ ~input.device.full \/ ~CanTranspile(input.circuit, input.mapping, input.device)
          /\ FallTo("manual") /\ UNCHANGED input

\* Seeded fault: the registers are numbered from the last one.
ManualPlaceBackwards(c, m, d, l) == d.active[Size(c) - l]

\* build_manual_iqm_circuit: a dict is asked for the reference, then for the
\* index within the register.
ManualPlace(c, m, d, l) ==
    LET ref == RefOf(c, l) IN
    CASE m.kind = "list" -> m.to[l + 1]
      [] m.kind = "index" -> Get(m.to, ref[2])
      [] m.kind = "ref" -> Get(m.to, ref)
      [] OTHER -> d.active[l + 1]

Manual ==
    LET c == input.circuit
        m == input.mapping
        d == input.device
    IN /\ tier = "manual"
       /\ IF /\ c.text /\ c.simple
             /\ Size(c) <= Len(d.active)
             /\ m.kind = "list" => Size(c) <= Len(m.to)
          THEN /\ PlaceAs("manual", [l \in Logical(c) |-> ManualPlace(c, m, d, l)])
               /\ UNCHANGED chosen
          ELSE FallTo("failed")
       /\ UNCHANGED input

PlacementNext == TranspileWithClient \/ Serialize \/ TranspileFromArchitecture \/ Manual

PlacementSpec == PlacementInit /\ [][PlacementNext]_iqmvars

-----------------------------------------------------------------------------
\* The qubits that a transpiled circuit is submitted on are the ones the
\* transpiler chose, by name and not by number (transpile_qiskit_to_iqm:
\* "Naming the qubits is the part that goes wrong quietly").
NamedAsTranspiled ==
    by \in {"client", "architecture"} => place = chosen

\* Without a client, a native circuit keeps the layout its caller chose, and a
\* circuit of one register has the same layout by whichever translation that
\* does not transpile it (build_iqm_circuit: "a caller that laid its own circuit
\* out on chosen qubits keeps that layout").  A mapping by reference is read by
\* the manual translation only, and one by index it reads per register.
LayoutKept ==
    LET c == input.circuit
        m == input.mapping
        names == LogicalToPhysical(c, m, input.device)
    IN /\ (tier = "done" /\ ~input.client /\ c.native /\ names[1]
            /\ Logical(c) \subseteq DOMAIN names[2]) => by = "serialize"
       /\ (by \in {"serialize", "manual"} /\ m.kind # "ref"
            /\ (Len(c.regs) = 1 \/ m.kind # "index")) =>
              place = [l \in Logical(c) |-> names[2][l]]

\* A circuit runs on the qubits that were chosen for it, by whichever way it
\* was translated.
QubitsKept ==
    NamedAsTranspiled /\ LayoutKept
=============================================================================
