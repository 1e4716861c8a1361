-------------------------- MODULE PauliMeasurement --------------------------
(***************************************************************************)
(* How the estimator measures its observables                              *)
(* (backends/qfw_qiskit/qfw_estimator.py: _preprocess_pub,                 *)
(* _bind_and_add_measurements, _create_measurement_circuits,               *)
(* _measurement_circuit, _calc_expval_map, _postprocess_pub).              *)
(*                                                                         *)
(* The Pauli terms wanted at one set of parameter values are split into    *)
(* groups that commute qubit by qubit; one circuit measures a group, each  *)
(* qubit in the group's basis and into a register that leaves the other    *)
(* qubits out; each term is read from the bits of that register.  Which    *)
(* groups there are is Qiskit's choice, so it is arbitrary here.           *)
(***************************************************************************)
EXTENDS Naturals, FiniteSets, Sequences, SequencesExt

CONSTANTS
    PauliQubits,   \* number of qubits, from 1
    Points,        \* indices of the bindings array
    WantedAt       \* element of the pub's shape |-> [point, terms]: the parameter
                   \* values and the Pauli terms broadcast to it

VARIABLES
    grouping,  \* the option abelian_grouping
    todo,      \* point |-> terms still to be put into a circuit
    measures,  \* circuits: [point, terms, basis, indices]
    expval     \* <<point, term>> |-> the circuits that wrote its entry

plvars == <<grouping, todo, measures, expval>>

\* _preprocess_pub: the terms that any element of the pub needs at a point
TermsAt(p) == UNION {WantedAt[i].terms : i \in {j \in DOMAIN WantedAt : WantedAt[j].point = p}}

PauliInit ==
    /\ grouping \in BOOLEAN
    /\ todo = [p \in Points |-> TermsAt(p)]
    /\ measures = {}
    /\ expval = [pt \in {<<p, t>> \in Points \X UNION {TermsAt(q) : q \in Points} :
                            t \in TermsAt(p)} |-> {}]

Support(t) == {q \in 1 .. PauliQubits : t[q] # "I"}

\* qubit-wise commuting: the letters of two terms agree where both have one
Commute(t, u) == \A q \in Support(t) \cap Support(u) : t[q] = u[q]

\* Seeded fault: groups of terms that only commute as a whole.
GroupsLoose(terms) ==
    {g \in (SUBSET terms) \ {{}} :
        \A t, u \in g : Cardinality({q \in Support(t) \cap Support(u) : t[q] # u[q]}) \in {0, 2}}

\* group_commuting(qubit_wise=True), or one term for each circuit
Groups(terms) ==
    IF grouping THEN {g \in (SUBSET terms) \ {{}} : \A t, u \in g : Commute(t, u)}
    ELSE {{t} : t \in terms}

\* The logical or of the group's x and z bits: Y where they differ.
HasX(l) == l \in {"X", "Y"}
HasZ(l) == l \in {"Z", "Y"}
BasisOf(g) ==
    [q \in 1 .. PauliQubits |->
        LET x == \E t \in g : HasX(t[q])
            z == \E t \in g : HasZ(t[q])
        IN IF x /\ z THEN "Y" ELSE IF x THEN "X" ELSE IF z THEN "Z" ELSE "I"]

\* _measurement_circuit: the qubits measured, in order; the first one when the
\* basis is the identity everywhere
IndicesOf(basis) ==
    IF Support(basis) = {} THEN <<1>>
    ELSE SetToSortSeq(Support(basis), LAMBDA a, b : a < b)

\* One circuit of _create_measurement_circuits.
CreateCircuit(p) ==
    /\ \E g \in Groups(todo[p]) :
          /\ todo' = [todo EXCEPT ![p] = @ \ g]
          /\ measures' = measures \cup {[point |-> p, terms |-> g, basis |-> BasisOf(g),
                                         indices |-> IndicesOf(BasisOf(g))]}
    /\ UNCHANGED <<grouping, expval>>

\* _calc_expval_map, when the circuits of every point are there and have run
CalcExpval ==
    /\ \A p \in Points : todo[p] = {}
    /\ expval' = [pt \in DOMAIN expval |->
                     {c \in measures : c.point = pt[1] /\ pt[2] \in c.terms}]
    /\ UNCHANGED <<grouping, todo, measures>>

PauliNext == (\E p \in Points : CreateCircuit(p)) \/ CalcExpval

PauliSpec == PauliInit /\ [][PauliNext]_plvars

-----------------------------------------------------------------------------
\* Seeded fault: a term is read at its own qubits and not at the register's bits.
ReadBitsUnindexed(c, t) == Support(t)

\* meas_paulis: the bits of the register a term's value is the parity of
ReadBits(c, t) == {k \in DOMAIN c.indices : t[c.indices[k]] # "I"}

\* Each entry that _postprocess_pub reads was written, from one circuit, at the
\* parameter values it is for; and the bits it was read from are those of the
\* term's own qubits, all of them, each measured in the term's own basis.
EstimatesOwnTerm ==
    \A pt \in DOMAIN expval : \A c \in expval[pt] :
        /\ expval[pt] = {c} /\ c.point = pt[1]
        /\ ReadBits(c, pt[2]) \subseteq DOMAIN c.indices
        /\ {c.indices[k] : k \in ReadBits(c, pt[2])} = Support(pt[2])
        /\ \A q \in Support(pt[2]) : c.basis[q] = pt[2][q]
=============================================================================
