--------------------------- MODULE BraketTranscode ---------------------------
(***************************************************************************)
(* The counts of a circuit that runs on Amazon Braket                      *)
(* (services/util/braket_transcode.py).                                    *)
(*                                                                         *)
(* to_braket_qasm3 drops the idle qubits of a circuit, numbers the others  *)
(* anew, keeps its gates in order and measures each measured qubit once at *)
(* the end; remap_counts turns the keys that come back into the classical  *)
(* bits of the circuit.  Gates act on bits here: what they do to amplitudes*)
(* is not the transcoder's business, which qubit and which bit they touch  *)
(* is.  "coin" stands for every gate with more than one outcome.           *)
(***************************************************************************)
EXTENDS Naturals, Integers, FiniteSets, Sequences, SequencesExt

CONSTANTS
    BraketQubits,  \* number of qubits of a circuit, from 0
    BraketBits,    \* number of classical bits of a circuit, from 0
    Ops,           \* instructions: [name, qubits, bits]
    AcceptedGates, \* accepted_operation_names of the device
    Expressible,   \* gates that _decompose can express in accepted ones
    MaxOps         \* bound: instructions of a circuit

VARIABLES
    circ,     \* the circuit, a sequence of instructions
    submitted, \* "building", "rejected" or "sent"
    program,  \* [ops, measured]: gates on the trimmed qubits, qubits measured
    measurement \* the map: a sequence of <<trimmed qubit, bit>>

brvars == <<circ, submitted, program, measurement>>

BraketInit ==
    /\ circ = <<>> /\ submitted = "building"
    /\ program = [ops |-> <<>>, measured |-> {}] /\ measurement = <<>>

IsMeasure(op) == op.name = "measure"
IsGate(op) == op.name \notin {"measure", "barrier"}

QubitsOf(c) == UNION {Range(c[i].qubits) : i \in DOMAIN c}

\* A gate that follows a measurement of one of its qubits: the results have the
\* final values only.
MeasuredEarly(c) ==
    \E i, j \in DOMAIN c :
        /\ i < j /\ IsMeasure(c[i]) /\ IsGate(c[j])
        /\ Range(c[i].qubits) \cap Range(c[j].qubits) # {}

ReadsBits(c) == \E i \in DOMAIN c : IsGate(c[i]) /\ c[i].bits # <<>>

Unaccepted(c) == {c[i].name : i \in {j \in DOMAIN c : IsGate(c[j])}} \ AcceptedGates

\* the place of q among the qubits of S, from 0: dag.remove_qubits and sorted()
Rank(S, q) == Cardinality({p \in S : p < q})

Trim(c, op) == [op EXCEPT !.qubits = [k \in DOMAIN op.qubits |-> Rank(QubitsOf(c), op.qubits[k])]]

Trimmed(c) == [i \in DOMAIN c |-> Trim(c, c[i])]

AddOp(op) ==
    /\ submitted = "building" /\ Len(circ) < MaxOps
    /\ circ' = Append(circ, op)
    /\ UNCHANGED <<submitted, program, measurement>>

\* to_braket_qasm3; _decompose replaces gates by others on the same qubits.
Reject ==
    /\ submitted = "building" /\ circ # <<>>
    /\ MeasuredEarly(circ) \/ ~(Unaccepted(circ) \subseteq Expressible) \/ ReadsBits(circ)
    /\ submitted' = "rejected"
    /\ UNCHANGED <<circ, program, measurement>>

Send ==
    /\ submitted = "building" /\ circ # <<>>
    /\ ~MeasuredEarly(circ) /\ Unaccepted(circ) \subseteq Expressible /\ ~ReadsBits(circ)
    /\ submitted' = "sent"
    /\ LET trimmed == Trimmed(circ)
           measures == SelectSeq(trimmed, IsMeasure)
       IN /\ program' = [ops |-> SelectSeq(trimmed, LAMBDA op : ~IsMeasure(op)),
                         measured |-> {measures[i].qubits[1] : i \in DOMAIN measures}]
          /\ measurement' = [i \in DOMAIN measures |->
                                <<measures[i].qubits[1], measures[i].bits[1]>>]
    /\ UNCHANGED circ

BraketNext == (\E op \in Ops : AddOp(op)) \/ Reject \/ Send

BraketSpec == BraketInit /\ [][BraketNext]_brvars

-----------------------------------------------------------------------------
\* The device, and what comes back from it.  A shot is the outcome of its coins.

Flip(b) == 1 - b

ApplyGate(v, op, shot) ==
    CASE op.name = "x" -> [v EXCEPT ![op.qubits[1]] = Flip(@)]
      [] op.name = "coin" -> [v EXCEPT ![op.qubits[1]] = shot]
      [] op.name = "cx" -> IF v[op.qubits[1]] = 0 THEN v
                           ELSE [v EXCEPT ![op.qubits[2]] = Flip(@)]
      [] OTHER -> v

Zeros(n) == [q \in 0 .. n - 1 |-> 0]

\* the qubits after the program's gates
FinalQubits(shot) ==
    FoldLeft(LAMBDA v, op : ApplyGate(v, op, shot), Zeros(BraketQubits), program.ops)

\* the library's key: measured qubits, the highest leftmost; position from 0
KeyBit(shot, position) ==
    LET m == program.measured
        q == CHOOSE p \in m : Cardinality(m) - 1 - Rank(m, p) = position
    IN FinalQubits(shot)[q]

\* Seeded fault: the lowest qubit is taken to be leftmost.
PositionFromLowest(m, q) == Rank(m, q)

\* remap_counts: where a qubit's bit stands in a key
Position(m, q) == Cardinality(m) - 1 - Rank(m, q)

\* remap_counts: classical bit |-> value, the last pair for a bit decides
RemapKey(shot) ==
    LET m == {measurement[i][1] : i \in DOMAIN measurement} IN
    FoldLeft(LAMBDA out, pair : [out EXCEPT ![pair[2]] = KeyBit(shot, Position(m, pair[1]))],
             Zeros(BraketBits), measurement)

\* The circuit as it was written, run one instruction after the other.
Reference(shot) ==
    FoldLeft(LAMBDA s, op :
                 IF IsMeasure(op)
                 THEN [s EXCEPT !.bits[op.bits[1]] = s.qubits[op.qubits[1]]]
                 ELSE [s EXCEPT !.qubits = ApplyGate(s.qubits, op, shot)],
             [qubits |-> Zeros(BraketQubits), bits |-> Zeros(BraketBits)], circ).bits

\* Every shot of a program that is sent gives, once its key is remapped, the
\* classical bits that the circuit would have: with idle qubits dropped, with
\* qubits measured out of order, twice, or into a bit already written, and with
\* bits that nothing is measured into (to_braket_qasm3, remap_counts).
BitsPreserved ==
    (submitted = "sent" /\ measurement # <<>>) =>
        \A shot \in {0, 1} : RemapKey(shot) = Reference(shot)
=============================================================================
