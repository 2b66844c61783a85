------------------------ MODULE IndexerTables_proofs ------------------------
(***************************************************************************)
(* Proofs about the transaction tables of Indexer, for an index that       *)
(* starts on an empty database: the tables hold exactly the transactions   *)
(* of the chain being served, so what the readers find in them is what the *)
(* chain says.                                                             *)
(*                                                                         *)
(* Part 1 is about tables alone: `Consistent` is what makes them right for *)
(* whatever transactions they hold, and inserting or reverting keeps it.   *)
(* Part 2 is TablesInv, the invariant of the index.  Module                *)
(* IndexerReaders_proofs draws the conclusions.                            *)
(***************************************************************************)
EXTENDS Indexer_proofs

(***************************************************************************)
(* Part 1: tables.                                                         *)
(***************************************************************************)

TxRecord  == [id : Nat, hash : DOMAIN Inputs, block : Nat, index : Nat]
OutRecord == [id : Nat \ {0}, tx : Nat, n : Nat, value : Nat, spent_by : Nat]
InRecord  == [id : Nat \ {0}, tx : Nat, n : Nat, output : Nat]

\* A value of db has these seven tables.
Shape(d) ==
    d = [txs |-> d.txs, outputs |-> d.outputs, inputs |-> d.inputs,
         addresses_outputs |-> d.addresses_outputs,
         addresses_txs |-> d.addresses_txs,
         block_fees |-> d.block_fees, spans |-> d.spans]

\* A transaction has one id.
TxsKeyed(d) ==
    /\ d.txs \subseteq TxRecord /\ IsFiniteSet(d.txs)
    /\ \A t, u \in d.txs : t.id = u.id => t = u
    /\ \A t, u \in d.txs : t.hash = u.hash => t = u

\* The outputs are those of the transactions, each once.
OutputsKeyed(d) ==
    /\ d.outputs \subseteq OutRecord /\ IsFiniteSet(d.outputs)
    /\ \A o, p \in d.outputs : o.id = p.id => o = p
    /\ \A o, p \in d.outputs : o.tx = p.tx /\ o.n = p.n => o = p
    /\ \A o \in d.outputs : \E t \in d.txs :
          /\ t.id = o.tx
          /\ o.n \in DOMAIN Outputs[t.hash]
          /\ o.value = Outputs[t.hash][o.n].value
    /\ \A t \in d.txs : \A n \in DOMAIN Outputs[t.hash] :
          \E o \in d.outputs : o.tx = t.id /\ o.n = n

\* Input row i names the output that `prev` stands for.
Names(d, i, prev) ==
    IF prev = NullInput THEN i.output = 0
    ELSE \E o \in d.outputs : \E u \in d.txs :
             /\ o.id = i.output
             /\ u.id = o.tx
             /\ prev = [tx |-> u.hash, n |-> o.n]

\* The inputs are those of the transactions, and name the outputs they spend.
InputsKeyed(d) ==
    /\ d.inputs \subseteq InRecord /\ IsFiniteSet(d.inputs)
    /\ \A i, j \in d.inputs : i.id = j.id => i = j
    /\ \A i \in d.inputs : \E t \in d.txs :
          /\ t.id = i.tx
          /\ i.n \in DOMAIN Inputs[t.hash]
          /\ Names(d, i, Inputs[t.hash][i.n])
    /\ \A t \in d.txs : \A n \in DOMAIN Inputs[t.hash] :
          \E i \in d.inputs : i.tx = t.id /\ i.n = n

\* An output is marked by the one input that names it.
Marked(d) ==
    /\ \A o \in d.outputs : \A i \in d.inputs :
          i.output = o.id => i.id = o.spent_by
    /\ \A o \in d.outputs : o.spent_by # 0 =>
          \E i \in d.inputs : i.output = o.id /\ i.id = o.spent_by

\* The outputs are related to the addresses they pay.
Related(d) ==
    /\ d.addresses_outputs \subseteq Addresses \X Nat
    /\ \A r \in d.addresses_outputs : \E o \in d.outputs : o.id = r[2]
    /\ \A o \in d.outputs : \A t \in d.txs : t.id = o.tx =>
          \A a \in Addresses :
              <<a, o.id>> \in d.addresses_outputs
                  <=> a \in Outputs[t.hash][o.n].addrs

\* A transaction pays an address or spends what paid it.
Touches(h, a) ==
    \/ \E n \in DOMAIN Outputs[h] : a \in Outputs[h][n].addrs
    \/ \E k \in DOMAIN Inputs[h] :
          /\ Inputs[h][k] # NullInput
          /\ a \in Outputs[Inputs[h][k].tx][Inputs[h][k].n].addrs

\* The transactions are related to the addresses they touch.
Recorded(d) ==
    /\ d.addresses_txs \subseteq Addresses \X Nat
    /\ \A r \in d.addresses_txs : \E t \in d.txs : t.id = r[2]
    /\ \A t \in d.txs : \A a \in Addresses :
          <<a, t.id>> \in d.addresses_txs <=> Touches(t.hash, a)

Consistent(d) ==
    /\ Shape(d)
    /\ TxsKeyed(d)
    /\ OutputsKeyed(d)
    /\ InputsKeyed(d)
    /\ Marked(d)
    /\ Related(d)
    /\ Recorded(d)

\* The outputs `t` spends are those of transactions in the tables, are not
\* spent, and none is spent twice.
Spendable(d, t) ==
    \A k \in DOMAIN Inputs[t] : Inputs[t][k] # NullInput =>
        /\ \E u \in d.txs : u.hash = Inputs[t][k].tx
        /\ Inputs[t][k].n \in DOMAIN Outputs[Inputs[t][k].tx]
        /\ \A u \in d.txs : ~Spends(u.hash, Inputs[t][k].tx, Inputs[t][k].n)
        /\ \A l \in DOMAIN Inputs[t] : Inputs[t][l] = Inputs[t][k] => l = k

\* A new row of any table takes an id above all others.
LEMMA FreshAbove ==
    ASSUME NEW rs, IsFiniteSet(rs), \A r \in rs : r.id \in Nat
    PROVE  /\ FreshId(rs) \in Nat \ {0}
           /\ \A r \in rs : r.id < FreshId(rs)
<1>1. CASE rs = {}
  BY <1>1 DEF FreshId
<1>2. CASE rs # {}
  <2> DEFINE ids == {r.id : r \in rs}
             f == [r \in rs |-> r.id]
  <2>1. f \in Surjection(rs, ids)
    BY DEF Surjection
  <2>2. IsFiniteSet(ids)
    BY <2>1, FS_Surjection
  <2>3. ids \in SUBSET Nat /\ ids # {}
    BY <1>2
  <2>4. PICK m \in ids : \A n \in ids : n <= m
    BY <2>2, <2>3, LargestNatural
  <2>5. \E r \in rs : \A q \in rs : q.id <= r.id
    BY <2>4
  <2> DEFINE top == CHOOSE r \in rs : \A q \in rs : q.id <= r.id
  <2>6. top \in rs /\ \A q \in rs : q.id <= top.id
    BY <2>5
  <2>7. FreshId(rs) = top.id + 1
    BY <1>2 DEF FreshId
  <2> HIDE DEF top
  <2> QED BY <2>6, <2>7
<1> QED BY <1>1, <1>2

\* The parts of a transaction.
LEMMA TxFacts ==
    ASSUME NEW t \in DOMAIN Inputs
    PROVE  /\ Len(Inputs[t]) \in Nat /\ DOMAIN Inputs[t] = 1..Len(Inputs[t])
           /\ Len(Outputs[t]) \in Nat /\ DOMAIN Outputs[t] = 1..Len(Outputs[t])
           /\ \A k \in DOMAIN Inputs[t] : Inputs[t][k] # NullInput =>
                 Inputs[t][k] \in [tx : DOMAIN Inputs, n : Nat]
           /\ \A n \in DOMAIN Outputs[t] : /\ Outputs[t][n].addrs \subseteq Addresses
                                           /\ Outputs[t][n].value \in Nat
           /\ \A k \in DOMAIN Inputs[t] : k \in Nat
           /\ \A n \in DOMAIN Outputs[t] : n \in Nat
<1>1. /\ Inputs[t] \in Seq([tx : DOMAIN Inputs, n : Nat] \cup {NullInput})
      /\ Outputs[t] \in Seq([addrs : SUBSET Addresses, value : Nat])
  BY LedgerTypeAssumption DEF LedgerTypeAssumption
<1>2. /\ Len(Inputs[t]) \in Nat /\ DOMAIN Inputs[t] = 1..Len(Inputs[t])
      /\ Len(Outputs[t]) \in Nat /\ DOMAIN Outputs[t] = 1..Len(Outputs[t])
  BY <1>1, LenProperties
<1>3. \A k \in 1..Len(Inputs[t]) :
          Inputs[t][k] \in [tx : DOMAIN Inputs, n : Nat] \cup {NullInput}
  BY <1>1, ElementOfSeq
<1>4. \A n \in 1..Len(Outputs[t]) :
          Outputs[t][n] \in [addrs : SUBSET Addresses, value : Nat]
  BY <1>1, ElementOfSeq
<1> QED BY <1>2, <1>3, <1>4

\* The lookup of an output finds it.
LEMMA FindOutputFacts ==
    ASSUME NEW d, TxsKeyed(d), OutputsKeyed(d),
           NEW u \in d.txs, NEW n \in DOMAIN Outputs[u.hash]
    PROVE  \E o \in d.outputs :
              /\ o.tx = u.id /\ o.n = n
              /\ FindOutput(d, [tx |-> u.hash, n |-> n]) = {o}
<1> DEFINE prev == [tx |-> u.hash, n |-> n]
           named == {t \in d.txs : t.hash = prev.tx}
           first == CHOOSE t \in named : \A v \in named : t.id <= v.id
<1>1. named = {u} /\ u.id \in Nat
  BY DEF TxsKeyed, TxRecord
<1>2. first = u
  BY <1>1
<1>3. PICK o \in d.outputs : o.tx = u.id /\ o.n = n
  BY DEF OutputsKeyed
<1>4. {p \in d.outputs : p.tx = u.id /\ p.n = n} = {o}
  BY <1>3 DEF OutputsKeyed
<1>5. FindOutput(d, prev) = {p \in d.outputs : p.tx = first.id /\ p.n = prev.n}
  BY <1>1 DEF FindOutput
<1> HIDE DEF first
<1> QED BY <1>2, <1>3, <1>4, <1>5

\* The output an input of a transaction to be inserted spends.
LEMMA SpentIdFacts ==
    ASSUME NEW d, TxsKeyed(d), OutputsKeyed(d), InputsKeyed(d), Marked(d),
           NEW t \in DOMAIN Inputs, Spendable(d, t), NEW k \in DOMAIN Inputs[t]
    PROVE  LET prev == Inputs[t][k] IN
           /\ prev = NullInput => SpentId(d, prev) = 0
           /\ prev # NullInput =>
                 \E o \in d.outputs : \E u \in d.txs :
                    /\ SpentId(d, prev) = o.id
                    /\ u.id = o.tx
                    /\ prev = [tx |-> u.hash, n |-> o.n]
                    /\ o.spent_by = 0
<1> DEFINE prev == Inputs[t][k]
<1>1. CASE prev = NullInput
  BY <1>1 DEF SpentId
<1>2. CASE prev # NullInput
  <2>1. prev \in [tx : DOMAIN Inputs, n : Nat]
    BY <1>2, TxFacts
  <2>2. PICK u \in d.txs : u.hash = prev.tx
    BY <1>2 DEF Spendable
  <2>3. prev = [tx |-> u.hash, n |-> prev.n] /\ prev.n \in DOMAIN Outputs[u.hash]
    BY <1>2, <2>1, <2>2 DEF Spendable
  <2>4. PICK o \in d.outputs : /\ o.tx = u.id /\ o.n = prev.n
                               /\ FindOutput(d, prev) = {o}
    <3> HIDE DEF prev
    <3> QED BY <2>3, FindOutputFacts
  <2>5. SpentId(d, prev) = o.id
    BY <1>2, <2>4 DEF SpentId
  <2>6. o.spent_by = 0
    <3> SUFFICES ASSUME o.spent_by # 0 PROVE FALSE
      OBVIOUS
    <3>1. PICK i \in d.inputs : i.output = o.id
      BY DEF Marked
    <3>2. PICK s \in d.txs : /\ s.id = i.tx /\ i.n \in DOMAIN Inputs[s.hash]
                             /\ Names(d, i, Inputs[s.hash][i.n])
      BY DEF InputsKeyed
    <3>3. i.output # 0
      BY <3>1 DEF OutputsKeyed, OutRecord
    <3>4. PICK p \in d.outputs, v \in d.txs :
             /\ p.id = i.output /\ v.id = p.tx
             /\ Inputs[s.hash][i.n] = [tx |-> v.hash, n |-> p.n]
      BY <3>2, <3>3 DEF Names
    <3>5. p = o /\ v = u
      BY <2>4, <3>1, <3>4 DEF OutputsKeyed, TxsKeyed
    <3>6. Spends(s.hash, prev.tx, prev.n)
      BY <2>2, <2>4, <3>2, <3>4, <3>5 DEF Spends
    <3> QED BY <1>2, <3>6 DEF Spendable
  <2>7. /\ SpentId(d, prev) = o.id /\ u.id = o.tx /\ o.spent_by = 0
        /\ prev = [tx |-> u.hash, n |-> o.n]
    BY <2>3, <2>4, <2>5, <2>6
  <2> QED BY <1>2, <2>7
<1> QED BY <1>1, <1>2

\* The rows of the inputs of a transaction.
LEMMA InputRowsFacts ==
    ASSUME NEW d, TxsKeyed(d), OutputsKeyed(d), InputsKeyed(d), Marked(d),
           NEW t \in DOMAIN Inputs, Spendable(d, t), NEW tx_id \in Nat
    PROVE  LET ins == InputRows(d, tx_id, t) IN
           /\ ins \subseteq InRecord /\ IsFiniteSet(ins)
           /\ \A i \in ins : /\ i.tx = tx_id /\ i.n \in DOMAIN Inputs[t]
                             /\ i.output = SpentId(d, Inputs[t][i.n])
           /\ \A n \in DOMAIN Inputs[t] : \E i \in ins : i.n = n
           /\ \A i, j \in ins : i.id = j.id => i = j
           /\ \A i \in ins : \A j \in d.inputs : i.id # j.id
           /\ \A i, j \in ins : i.output = j.output /\ i.output # 0 => i = j
<1> DEFINE f == FreshId(d.inputs)
           D == DOMAIN Inputs[t]
           row(n) == [id |-> f + n - 1, tx |-> tx_id, n |-> n,
                      output |-> SpentId(d, Inputs[t][n])]
           ins == InputRows(d, tx_id, t)
<1>1. ins = {row(n) : n \in D}
  BY DEF InputRows
<1>2. f \in Nat \ {0} /\ \A j \in d.inputs : j.id < f /\ j.id \in Nat
  BY FreshAbove DEF InputsKeyed, InRecord
<1>3. D = 1..Len(Inputs[t]) /\ Len(Inputs[t]) \in Nat
  BY TxFacts
<1>4. \A n \in D : SpentId(d, Inputs[t][n]) \in Nat
  BY SpentIdFacts DEF OutputsKeyed, OutRecord
<1>5. \A n, m \in D : /\ n \in Nat /\ f + n - 1 \in Nat \ {0} /\ f <= f + n - 1
                      /\ f + n - 1 = f + m - 1 => n = m
  BY <1>2, <1>3
<1>6. IsFiniteSet(ins)
  <2>1. IsFiniteSet(D)
    BY <1>3, FS_Interval
  <2>2. [n \in D |-> row(n)] \in Surjection(D, ins)
    BY <1>1 DEF Surjection
  <2> QED BY <2>1, <2>2, FS_Surjection
<1>7. ASSUME NEW n \in D, NEW m \in D,
             SpentId(d, Inputs[t][n]) = SpentId(d, Inputs[t][m]),
             SpentId(d, Inputs[t][n]) # 0
      PROVE  n = m
  <2>1. Inputs[t][n] # NullInput /\ Inputs[t][m] # NullInput
    BY <1>7, SpentIdFacts
  <2>2. PICK o \in d.outputs, u \in d.txs :
           /\ SpentId(d, Inputs[t][n]) = o.id /\ u.id = o.tx
           /\ Inputs[t][n] = [tx |-> u.hash, n |-> o.n]
    BY <2>1, SpentIdFacts
  <2>3. PICK p \in d.outputs, v \in d.txs :
           /\ SpentId(d, Inputs[t][m]) = p.id /\ v.id = p.tx
           /\ Inputs[t][m] = [tx |-> v.hash, n |-> p.n]
    BY <2>1, SpentIdFacts
  <2>4. o.id = p.id
    BY <1>7, <2>2, <2>3
  <2>5. o = p
    BY <2>4 DEF OutputsKeyed
  <2>6. u = v
    BY <2>2, <2>3, <2>5 DEF TxsKeyed
  <2> QED BY <2>1, <2>2, <2>3, <2>5, <2>6 DEF Spendable
<1> HIDE DEF f, D, ins
<1>8. ins \subseteq InRecord
  BY <1>1, <1>4, <1>5 DEF InRecord
<1>9. \A i, j \in ins : i.id = j.id => i = j
  BY <1>1, <1>5
<1>10. \A i \in ins : \A j \in d.inputs : i.id # j.id
  BY <1>1, <1>2, <1>5
<1>11. \A i, j \in ins : i.output = j.output /\ i.output # 0 => i = j
  BY <1>1, <1>7
<1>12. \A i \in ins : i.tx = tx_id /\ i.n \in D /\ i.output = SpentId(d, Inputs[t][i.n])
  BY <1>1
<1>13. ASSUME NEW n \in D PROVE \E i \in ins : i.n = n
  <2>1. row(n) \in ins /\ row(n).n = n
    BY <1>1
  <2> QED BY <2>1
<1> QED BY <1>6, <1>8, <1>9, <1>10, <1>11, <1>12, <1>13 DEF ins, D

\* The rows of its outputs.
LEMMA OutputRowsFacts ==
    ASSUME NEW d, OutputsKeyed(d), NEW t \in DOMAIN Inputs, NEW tx_id \in Nat
    PROVE  LET outs == OutputRows(d, tx_id, t) IN
           /\ outs \subseteq OutRecord /\ IsFiniteSet(outs)
           /\ \A o \in outs : /\ o.tx = tx_id /\ o.n \in DOMAIN Outputs[t]
                              /\ o.value = Outputs[t][o.n].value
                              /\ o.spent_by = 0
           /\ \A n \in DOMAIN Outputs[t] : \E o \in outs : o.n = n
           /\ \A o, p \in outs : o.id = p.id => o = p
           /\ \A o, p \in outs : o.n = p.n => o = p
           /\ \A o \in outs : \A p \in d.outputs : o.id # p.id
<1> DEFINE f == FreshId(d.outputs)
           D == DOMAIN Outputs[t]
           row(n) == [id |-> f + n - 1, tx |-> tx_id, n |-> n,
                      value |-> Outputs[t][n].value, spent_by |-> 0]
           outs == OutputRows(d, tx_id, t)
<1>1. outs = {row(n) : n \in D}
  BY DEF OutputRows
<1>2. f \in Nat \ {0} /\ \A p \in d.outputs : p.id < f /\ p.id \in Nat
  BY FreshAbove DEF OutputsKeyed, OutRecord
<1>3. /\ D = 1..Len(Outputs[t]) /\ Len(Outputs[t]) \in Nat
      /\ \A n \in D : Outputs[t][n].value \in Nat
  BY TxFacts
<1>4. \A n, m \in D : /\ n \in Nat /\ f + n - 1 \in Nat \ {0} /\ f <= f + n - 1
                      /\ f + n - 1 = f + m - 1 => n = m
  BY <1>2, <1>3
<1>5. IsFiniteSet(outs)
  <2>1. IsFiniteSet(D)
    BY <1>3, FS_Interval
  <2>2. [n \in D |-> row(n)] \in Surjection(D, outs)
    BY <1>1 DEF Surjection
  <2> QED BY <2>1, <2>2, FS_Surjection
<1>6. \A n \in D : row(n) \in OutRecord
  BY <1>3, <1>4 DEF OutRecord
<1> HIDE DEF f, D, outs
<1>7. outs \subseteq OutRecord
  BY <1>1, <1>6
<1>8. \A o, p \in outs : o.id = p.id => o = p
  BY <1>1, <1>4
<1>9. \A o, p \in outs : o.n = p.n => o = p
  BY <1>1
<1>10. \A o \in outs : \A p \in d.outputs : o.id # p.id
  BY <1>1, <1>2, <1>4
<1>11. \A o \in outs : /\ o.tx = tx_id /\ o.n \in D
                       /\ o.value = Outputs[t][o.n].value /\ o.spent_by = 0
  BY <1>1
<1>12. ASSUME NEW n \in D PROVE \E o \in outs : o.n = n
  <2>1. row(n) \in outs /\ row(n).n = n
    BY <1>1
  <2> QED BY <2>1
<1> QED BY <1>5, <1>7, <1>8, <1>9, <1>10, <1>11, <1>12 DEF outs, D

\* An output after the inputs of a transaction were inserted.
LEMMA SpentFacts ==
    ASSUME NEW o \in OutRecord, NEW ins \in SUBSET InRecord,
           \A i, j \in ins : i.output = j.output /\ i.output # 0 => i = j
    PROVE  LET p == Spent(o, ins) IN
           /\ p \in OutRecord
           /\ p.id = o.id /\ p.tx = o.tx /\ p.n = o.n /\ p.value = o.value
           /\ \A i \in ins : i.output = o.id => p.spent_by = i.id
           /\ (\A i \in ins : i.output # o.id) => p = o
<1>1. CASE \A i \in ins : i.output # o.id
  BY <1>1 DEF Spent
<1>2. ASSUME NEW i \in ins, i.output = o.id
      PROVE  Spent(o, ins) = [o EXCEPT !.spent_by = i.id]
  <2>1. {j \in ins : j.output = o.id} = {i}
    BY <1>2 DEF OutRecord
  <2>2. i.id <= i.id
    BY DEF InRecord
  <2>3. (CHOOSE j \in {i} : \A k \in {i} : k.id <= j.id) = i
    BY <2>2
  <2> QED BY <2>1, <2>3 DEF Spent
<1>3. ASSUME NEW i \in ins, i.output = o.id
      PROVE  LET p == Spent(o, ins) IN
             /\ p \in OutRecord /\ p.spent_by = i.id
             /\ p.id = o.id /\ p.tx = o.tx /\ p.n = o.n /\ p.value = o.value
  BY <1>2, <1>3 DEF OutRecord, InRecord
<1> QED BY <1>1, <1>3

\* The addresses Transaction::insert collects are those the transaction touches.
LEMMA TouchedFacts ==
    ASSUME NEW d, TxsKeyed(d), OutputsKeyed(d), InputsKeyed(d), Marked(d),
           Related(d), NEW t \in DOMAIN Inputs, Spendable(d, t),
           NEW tx_id \in Nat
    PROVE  LET ins  == InputRows(d, tx_id, t)
               outs == OutputRows(d, tx_id, t)
               pays == UNION {Outputs[t][o.n].addrs \X {o.id} : o \in outs}
               touched == (UNION {AddressesOf(d, i.output) : i \in ins})
                              \cup {r[1] : r \in pays}
           IN  /\ touched \subseteq Addresses
               /\ \A a \in Addresses : a \in touched <=> Touches(t, a)
<1> DEFINE ins  == InputRows(d, tx_id, t)
           outs == OutputRows(d, tx_id, t)
           pays == UNION {Outputs[t][o.n].addrs \X {o.id} : o \in outs}
           spending == UNION {AddressesOf(d, i.output) : i \in ins}
           paid == {r[1] : r \in pays}
<1>1. /\ \A i \in ins : /\ i.n \in DOMAIN Inputs[t]
                        /\ i.output = SpentId(d, Inputs[t][i.n])
      /\ \A n \in DOMAIN Inputs[t] : \E i \in ins : i.n = n
  BY InputRowsFacts
<1>2. /\ \A o \in outs : o.n \in DOMAIN Outputs[t]
      /\ \A n \in DOMAIN Outputs[t] : \E o \in outs : o.n = n
  BY OutputRowsFacts
<1>3. \A n \in DOMAIN Outputs[t] : Outputs[t][n].addrs \subseteq Addresses
  BY TxFacts
<1> HIDE DEF ins, outs
<1>4. \A a : a \in paid <=> \E n \in DOMAIN Outputs[t] : a \in Outputs[t][n].addrs
  <2>1. ASSUME NEW a \in paid
        PROVE  \E n \in DOMAIN Outputs[t] : a \in Outputs[t][n].addrs
    <3>1. PICK r \in pays : a = r[1]
      OBVIOUS
    <3>2. PICK o \in outs : r \in Outputs[t][o.n].addrs \X {o.id}
      OBVIOUS
    <3> QED BY <1>2, <3>1, <3>2
  <2>2. ASSUME NEW a, NEW n \in DOMAIN Outputs[t], a \in Outputs[t][n].addrs
        PROVE  a \in paid
    <3>1. PICK o \in outs : o.n = n
      BY <1>2
    <3>2. <<a, o.id>> \in Outputs[t][o.n].addrs \X {o.id}
      BY <2>2, <3>1
    <3>3. <<a, o.id>> \in pays
      BY <3>2
    <3>4. <<a, o.id>>[1] = a
      OBVIOUS
    <3> QED BY <3>3, <3>4
  <2> QED BY <2>1, <2>2
<1>5. ASSUME NEW n \in DOMAIN Inputs[t], NEW a \in Addresses
      PROVE  a \in AddressesOf(d, SpentId(d, Inputs[t][n]))
                 <=> /\ Inputs[t][n] # NullInput
                     /\ a \in Outputs[Inputs[t][n].tx][Inputs[t][n].n].addrs
  <2>1. CASE Inputs[t][n] = NullInput
    <3>1. SpentId(d, Inputs[t][n]) = 0
      BY <2>1, SpentIdFacts
    <3>2. \A o \in d.outputs : o.id # 0
      BY DEF OutputsKeyed, OutRecord
    <3>3. <<a, 0>>[2] = 0
      OBVIOUS
    <3>4. <<a, 0>> \notin d.addresses_outputs
      BY <3>2, <3>3 DEF Related
    <3> QED BY <2>1, <3>1, <3>4 DEF AddressesOf
  <2>2. CASE Inputs[t][n] # NullInput
    <3>1. PICK o \in d.outputs, u \in d.txs :
             /\ SpentId(d, Inputs[t][n]) = o.id /\ u.id = o.tx
             /\ Inputs[t][n] = [tx |-> u.hash, n |-> o.n]
      BY <2>2, SpentIdFacts
    <3>2. <<a, o.id>> \in d.addresses_outputs <=> a \in Outputs[u.hash][o.n].addrs
      BY <3>1 DEF Related
    <3> QED BY <2>2, <3>1, <3>2 DEF AddressesOf
  <2> QED BY <2>1, <2>2
<1>6. ASSUME NEW a \in Addresses
      PROVE  a \in spending <=>
                \E k \in DOMAIN Inputs[t] :
                   /\ Inputs[t][k] # NullInput
                   /\ a \in Outputs[Inputs[t][k].tx][Inputs[t][k].n].addrs
  <2>1. a \in spending <=> \E i \in ins : a \in AddressesOf(d, i.output)
    OBVIOUS
  <2> HIDE DEF spending
  <2> QED BY <1>1, <1>5, <2>1
<1>7. spending \subseteq Addresses /\ paid \subseteq Addresses
  BY <1>3, <1>4 DEF AddressesOf
<1> HIDE DEF spending, paid
<1>8. \A a \in Addresses : a \in spending \cup paid <=> Touches(t, a)
  BY <1>4, <1>6 DEF Touches
<1>9. spending \cup paid \subseteq Addresses
  BY <1>7
<1> QED BY <1>8, <1>9 DEF spending, paid, ins, outs

\* What Transaction::insert makes of each table.
LEMMA InsertTxFields ==
    ASSUME NEW d, Shape(d), NEW tx_id, NEW block_id, NEW index, NEW t
    PROVE  LET e    == InsertTx(d, tx_id, block_id, index, t)
               ins  == InputRows(d, tx_id, t)
               outs == OutputRows(d, tx_id, t)
               pays == UNION {Outputs[t][o.n].addrs \X {o.id} : o \in outs}
               touched == (UNION {AddressesOf(d, i.output) : i \in ins})
                              \cup {r[1] : r \in pays}
           IN  /\ Shape(e)
               /\ e.txs = d.txs \cup {[id |-> tx_id, hash |-> t,
                                       block |-> block_id, index |-> index]}
               /\ e.inputs = d.inputs \cup ins
               /\ e.outputs = {Spent(o, ins) : o \in d.outputs} \cup outs
               /\ e.addresses_outputs = d.addresses_outputs \cup pays
               /\ e.addresses_txs = d.addresses_txs \cup (touched \X {tx_id})
               /\ e.block_fees = d.block_fees
               /\ e.spans = d.spans
<1> DEFINE ins  == InputRows(d, tx_id, t)
           outs == OutputRows(d, tx_id, t)
           pays == UNION {Outputs[t][o.n].addrs \X {o.id} : o \in outs}
           touched == (UNION {AddressesOf(d, i.output) : i \in ins})
                          \cup {r[1] : r \in pays}
           row == [id |-> tx_id, hash |-> t, block |-> block_id, index |-> index]
           spent == {Spent(o, ins) : o \in d.outputs}
           related == touched \X {tx_id}
<1>1. InsertTx(d, tx_id, block_id, index, t) =
         [d EXCEPT !.txs = @ \cup {row}, !.inputs = @ \cup ins,
                   !.outputs = spent \cup outs,
                   !.addresses_outputs = @ \cup pays,
                   !.addresses_txs = @ \cup related]
  BY DEF InsertTx
<1>2. d = [txs |-> d.txs, outputs |-> d.outputs, inputs |-> d.inputs,
           addresses_outputs |-> d.addresses_outputs,
           addresses_txs |-> d.addresses_txs,
           block_fees |-> d.block_fees, spans |-> d.spans]
  BY DEF Shape
<1> HIDE DEF ins, outs, pays, touched, row, spent, related
<1>3. InsertTx(d, tx_id, block_id, index, t) =
         [txs |-> d.txs \cup {row}, outputs |-> spent \cup outs,
          inputs |-> d.inputs \cup ins,
          addresses_outputs |-> d.addresses_outputs \cup pays,
          addresses_txs |-> d.addresses_txs \cup related,
          block_fees |-> d.block_fees, spans |-> d.spans]
  BY <1>1, <1>2
<1>4. LET e == InsertTx(d, tx_id, block_id, index, t) IN
      /\ Shape(e) /\ e.txs = d.txs \cup {row} /\ e.outputs = spent \cup outs
      /\ e.inputs = d.inputs \cup ins
      /\ e.addresses_outputs = d.addresses_outputs \cup pays
      /\ e.addresses_txs = d.addresses_txs \cup related
      /\ e.block_fees = d.block_fees /\ e.spans = d.spans
  BY <1>3 DEF Shape
<1> QED BY <1>4 DEF ins, outs, pays, touched, row, spent, related

\* Inserting a transaction that spends what the tables say is unspent.
LEMMA InsertTxConsistent ==
    ASSUME NEW d, Consistent(d), NEW tx_id \in Nat, NEW block_id \in Nat,
           NEW index \in Nat, NEW t \in DOMAIN Inputs, Spendable(d, t),
           \A u \in d.txs : u.id # tx_id /\ u.hash # t
    PROVE  Consistent(InsertTx(d, tx_id, block_id, index, t))
<1> DEFINE e    == InsertTx(d, tx_id, block_id, index, t)
           ins  == InputRows(d, tx_id, t)
           outs == OutputRows(d, tx_id, t)
           pays == UNION {Outputs[t][o.n].addrs \X {o.id} : o \in outs}
           touched == (UNION {AddressesOf(d, i.output) : i \in ins})
                          \cup {r[1] : r \in pays}
           row  == [id |-> tx_id, hash |-> t, block |-> block_id, index |-> index]
           old  == {Spent(o, ins) : o \in d.outputs}
<1>1. /\ Shape(d) /\ TxsKeyed(d) /\ OutputsKeyed(d) /\ InputsKeyed(d)
      /\ Marked(d) /\ Related(d) /\ Recorded(d)
  BY DEF Consistent
<1>2. /\ Shape(e)
      /\ e.txs = d.txs \cup {row}
      /\ e.inputs = d.inputs \cup ins
      /\ e.outputs = old \cup outs
      /\ e.addresses_outputs = d.addresses_outputs \cup pays
      /\ e.addresses_txs = d.addresses_txs \cup (touched \X {tx_id})
  BY <1>1, InsertTxFields
<1>3. /\ ins \subseteq InRecord /\ IsFiniteSet(ins)
      /\ \A i \in ins : /\ i.tx = tx_id /\ i.n \in DOMAIN Inputs[t]
                        /\ i.output = SpentId(d, Inputs[t][i.n])
      /\ \A n \in DOMAIN Inputs[t] : \E i \in ins : i.n = n
      /\ \A i, j \in ins : i.id = j.id => i = j
      /\ \A i \in ins : \A j \in d.inputs : i.id # j.id
      /\ \A i, j \in ins : i.output = j.output /\ i.output # 0 => i = j
  BY <1>1, InputRowsFacts
<1>4. /\ outs \subseteq OutRecord /\ IsFiniteSet(outs)
      /\ \A o \in outs : /\ o.tx = tx_id /\ o.n \in DOMAIN Outputs[t]
                         /\ o.value = Outputs[t][o.n].value
                         /\ o.spent_by = 0
      /\ \A n \in DOMAIN Outputs[t] : \E o \in outs : o.n = n
      /\ \A o, p \in outs : o.id = p.id => o = p
      /\ \A o, p \in outs : o.n = p.n => o = p
      /\ \A o \in outs : \A p \in d.outputs : o.id # p.id
  BY <1>1, OutputRowsFacts
<1>5. /\ touched \subseteq Addresses
      /\ \A a \in Addresses : a \in touched <=> Touches(t, a)
  BY <1>1, TouchedFacts
<1>6. /\ row \in TxRecord /\ row.id = tx_id /\ row.hash = t
      /\ \A u \in d.txs : u.id # tx_id /\ u.hash # t
  BY DEF TxRecord
<1>7. ASSUME NEW i \in ins
      PROVE  /\ Inputs[t][i.n] = NullInput => i.output = 0
             /\ Inputs[t][i.n] # NullInput =>
                   \E o \in d.outputs : \E u \in d.txs :
                      /\ i.output = o.id /\ u.id = o.tx /\ o.spent_by = 0
                      /\ Inputs[t][i.n] = [tx |-> u.hash, n |-> o.n]
  <2>1. i.n \in DOMAIN Inputs[t] /\ i.output = SpentId(d, Inputs[t][i.n])
    BY <1>3
  <2> QED BY <1>1, <2>1, SpentIdFacts
<1>8. \A n \in DOMAIN Outputs[t] : Outputs[t][n].addrs \subseteq Addresses
  BY TxFacts
<1> HIDE DEF e, ins, outs, touched, row
<1>9. ASSUME NEW o \in d.outputs
      PROVE  LET p == Spent(o, ins) IN
             /\ p \in OutRecord /\ o \in OutRecord
             /\ p.id = o.id /\ p.tx = o.tx /\ p.n = o.n /\ p.value = o.value
             /\ \A i \in ins : i.output = o.id => p.spent_by = i.id
             /\ (\A i \in ins : i.output # o.id) => p = o
  <2>1. o \in OutRecord
    BY <1>1 DEF OutputsKeyed
  <2> QED BY <1>3, <2>1, SpentFacts
<1>10. /\ \A p \in old : \E o \in d.outputs : p = Spent(o, ins)
       /\ \A o \in d.outputs : Spent(o, ins) \in old
       /\ IsFiniteSet(old)
  <2>1. [o \in d.outputs |-> Spent(o, ins)] \in Surjection(d.outputs, old)
    BY DEF Surjection
  <2>2. IsFiniteSet(old)
    BY <1>1, <2>1, FS_Surjection DEF OutputsKeyed
  <2> QED BY <2>2
<1> HIDE DEF old
<1>11. TxsKeyed(e)
  <2>1. IsFiniteSet(e.txs)
    BY <1>1, <1>2, FS_AddElement DEF TxsKeyed
  <2>2. \A u \in e.txs : u \in d.txs \/ u = row
    BY <1>2
  <2>3. e.txs \subseteq TxRecord
    BY <1>1, <1>6, <2>2 DEF TxsKeyed
  <2> QED BY <1>1, <1>6, <2>1, <2>2, <2>3 DEF TxsKeyed
<1>12. OutputsKeyed(e)
  <2>1. e.outputs \subseteq OutRecord /\ IsFiniteSet(e.outputs)
    <3>1. old \subseteq OutRecord
      BY <1>9, <1>10
    <3>2. IsFiniteSet(old \cup outs)
      BY <1>4, <1>10, FS_Union
    <3> QED BY <1>2, <1>4, <3>1, <3>2
  <2>2. \A o, p \in e.outputs : o.id = p.id => o = p
    <3>1. \A o, p \in old : o.id = p.id => o = p
      BY <1>1, <1>9, <1>10 DEF OutputsKeyed
    <3>2. \A o \in old : \A p \in outs : o.id # p.id
      BY <1>4, <1>9, <1>10
    <3> QED BY <1>2, <1>4, <3>1, <3>2
  <2>3. \A o \in d.outputs : o.tx # tx_id
    BY <1>1, <1>6 DEF OutputsKeyed
  <2>4. \A o, p \in e.outputs : o.tx = p.tx /\ o.n = p.n => o = p
    <3>1. \A o, p \in old : o.tx = p.tx /\ o.n = p.n => o = p
      BY <1>1, <1>9, <1>10 DEF OutputsKeyed
    <3>2. \A o \in old : \A p \in outs : o.tx # p.tx
      BY <1>4, <1>9, <1>10, <2>3
    <3> QED BY <1>2, <1>4, <3>1, <3>2
  <2>5. ASSUME NEW o \in e.outputs
        PROVE  \E u \in e.txs : /\ u.id = o.tx
                                /\ o.n \in DOMAIN Outputs[u.hash]
                                /\ o.value = Outputs[u.hash][o.n].value
    <3>1. CASE o \in outs
      BY <1>2, <1>4, <1>6, <3>1
    <3>2. CASE o \in old
      <4>1. PICK p \in d.outputs : o = Spent(p, ins)
        BY <1>10, <3>2
      <4>2. o.tx = p.tx /\ o.n = p.n /\ o.value = p.value
        BY <1>9, <4>1
      <4>3. PICK u \in d.txs : /\ u.id = p.tx
                               /\ p.n \in DOMAIN Outputs[u.hash]
                               /\ p.value = Outputs[u.hash][p.n].value
        BY <1>1 DEF OutputsKeyed
      <4> QED BY <1>2, <4>2, <4>3
    <3> QED BY <1>2, <3>1, <3>2
  <2>6. ASSUME NEW u \in e.txs, NEW n \in DOMAIN Outputs[u.hash]
        PROVE  \E o \in e.outputs : o.tx = u.id /\ o.n = n
    <3>1. CASE u = row
      BY <1>2, <1>4, <1>6, <3>1
    <3>2. CASE u \in d.txs
      <4>1. PICK o \in d.outputs : o.tx = u.id /\ o.n = n
        BY <1>1, <3>2 DEF OutputsKeyed
      <4> QED BY <1>2, <1>9, <1>10, <4>1
    <3> QED BY <1>2, <3>1, <3>2
  <2> QED BY <2>1, <2>2, <2>4, <2>5, <2>6 DEF OutputsKeyed
<1>13. ASSUME NEW i, NEW prev,
              \/ prev = NullInput /\ i.output = 0
              \/ /\ prev # NullInput
                 /\ \E o \in d.outputs : \E u \in d.txs :
                       /\ o.id = i.output /\ u.id = o.tx
                       /\ prev = [tx |-> u.hash, n |-> o.n]
       PROVE  Names(e, i, prev)
  <2>1. CASE prev = NullInput
    BY <1>13, <2>1 DEF Names
  <2>2. CASE prev # NullInput
    <3>1. PICK o \in d.outputs, u \in d.txs :
             o.id = i.output /\ u.id = o.tx /\ prev = [tx |-> u.hash, n |-> o.n]
      BY <1>13, <2>2
    <3>2. /\ Spent(o, ins) \in e.outputs /\ u \in e.txs
          /\ Spent(o, ins).id = o.id /\ Spent(o, ins).tx = o.tx
          /\ Spent(o, ins).n = o.n
      BY <1>2, <1>9, <1>10
    <3> QED BY <2>2, <3>1, <3>2 DEF Names
  <2> QED BY <2>1, <2>2
<1>14. InputsKeyed(e)
  <2>1. e.inputs \subseteq InRecord /\ IsFiniteSet(e.inputs)
    <3>1. d.inputs \subseteq InRecord /\ IsFiniteSet(d.inputs)
      BY <1>1 DEF InputsKeyed
    <3>2. IsFiniteSet(d.inputs \cup ins)
      BY <1>3, <3>1, FS_Union
    <3> QED BY <1>2, <1>3, <3>1, <3>2
  <2>2. \A i, j \in e.inputs : i.id = j.id => i = j
    BY <1>1, <1>2, <1>3 DEF InputsKeyed
  <2>3. ASSUME NEW i \in e.inputs
        PROVE  \E u \in e.txs : /\ u.id = i.tx
                                /\ i.n \in DOMAIN Inputs[u.hash]
                                /\ Names(e, i, Inputs[u.hash][i.n])
    <3>1. CASE i \in ins
      <4>1. Names(e, i, Inputs[t][i.n])
        BY <1>7, <1>13, <3>1
      <4> QED BY <1>2, <1>3, <1>6, <3>1, <4>1
    <3>2. CASE i \in d.inputs
      <4>1. PICK u \in d.txs : /\ u.id = i.tx /\ i.n \in DOMAIN Inputs[u.hash]
                               /\ Names(d, i, Inputs[u.hash][i.n])
        BY <1>1, <3>2 DEF InputsKeyed
      <4>2. Names(e, i, Inputs[u.hash][i.n])
        <5>1. CASE Inputs[u.hash][i.n] = NullInput
          <6>1. i.output = 0
            BY <4>1, <5>1 DEF Names
          <6> QED BY <5>1, <6>1 DEF Names
        <5>2. CASE Inputs[u.hash][i.n] # NullInput
          <6>1. \E o \in d.outputs : \E v \in d.txs :
                   /\ o.id = i.output /\ v.id = o.tx
                   /\ Inputs[u.hash][i.n] = [tx |-> v.hash, n |-> o.n]
            BY <4>1, <5>2 DEF Names
          <6> QED BY <1>13, <5>2, <6>1
        <5> QED BY <5>1, <5>2
      <4> QED BY <1>2, <4>1, <4>2
    <3> QED BY <1>2, <3>1, <3>2
  <2>4. ASSUME NEW u \in e.txs, NEW n \in DOMAIN Inputs[u.hash]
        PROVE  \E i \in e.inputs : i.tx = u.id /\ i.n = n
    <3>1. CASE u = row
      BY <1>2, <1>3, <1>6, <3>1
    <3>2. CASE u \in d.txs
      BY <1>1, <1>2, <3>2 DEF InputsKeyed
    <3> QED BY <1>2, <3>1, <3>2
  <2> QED BY <2>1, <2>2, <2>3, <2>4 DEF InputsKeyed
<1>15. Marked(e)
  <2>1. \A i \in d.inputs : i.output # 0 => \E o \in d.outputs : o.id = i.output
    BY <1>1 DEF InputsKeyed, Names
  <2>2. \A i \in ins : i.output # 0 =>
           \E o \in d.outputs : o.id = i.output /\ o.spent_by = 0
    BY <1>7
  <2>3. ASSUME NEW p \in e.outputs, NEW i \in e.inputs, i.output = p.id
        PROVE  i.id = p.spent_by
    <3>1. CASE p \in outs
      <4>1. p.id # 0
        BY <1>4, <3>1 DEF OutRecord
      <4>2. \E o \in d.outputs : o.id = p.id
        BY <1>2, <2>1, <2>2, <2>3, <4>1
      <4> QED BY <1>4, <3>1, <4>2
    <3>2. CASE p \in old
      <4>1. PICK o \in d.outputs : p = Spent(o, ins)
        BY <1>10, <3>2
      <4>2. p.id = o.id /\ o.id # 0
        BY <1>9, <4>1 DEF OutRecord
      <4>3. CASE i \in ins
        BY <1>9, <2>3, <4>1, <4>2, <4>3
      <4>4. CASE i \in d.inputs
        <5>1. i.id = o.spent_by /\ i.id # 0
          BY <1>1, <2>3, <4>2, <4>4 DEF Marked, InputsKeyed, InRecord
        <5>2. \A j \in ins : j.output # o.id
          <6> SUFFICES ASSUME NEW j \in ins, j.output = o.id PROVE FALSE
            OBVIOUS
          <6>1. PICK q \in d.outputs : q.id = o.id /\ q.spent_by = 0
            BY <2>2, <4>2
          <6>2. q = o
            BY <1>1, <6>1 DEF OutputsKeyed
          <6> QED BY <5>1, <6>1, <6>2
        <5> QED BY <1>9, <4>1, <5>1, <5>2
      <4> QED BY <1>2, <4>3, <4>4
    <3> QED BY <1>2, <3>1, <3>2
  <2>4. ASSUME NEW p \in e.outputs, p.spent_by # 0
        PROVE  \E i \in e.inputs : i.output = p.id /\ i.id = p.spent_by
    <3>1. p \in old
      BY <1>2, <1>4, <2>4
    <3>2. PICK o \in d.outputs : p = Spent(o, ins)
      BY <1>10, <3>1
    <3>3. CASE \E i \in ins : i.output = o.id
      BY <1>2, <1>9, <3>2, <3>3
    <3>4. CASE \A i \in ins : i.output # o.id
      <4>1. p = o
        BY <1>9, <3>2, <3>4
      <4> QED BY <1>1, <1>2, <2>4, <4>1 DEF Marked
    <3> QED BY <3>3, <3>4
  <2> QED BY <2>3, <2>4 DEF Marked
<1>16. Related(e)
  <2>1. ASSUME NEW r \in pays
        PROVE  \E o \in outs : r \in Outputs[t][o.n].addrs \X {o.id}
    BY <2>1
  <2>2. \A o \in outs : \A a \in Outputs[t][o.n].addrs : <<a, o.id>> \in pays
    <3> SUFFICES ASSUME NEW o \in outs, NEW a \in Outputs[t][o.n].addrs
                 PROVE  <<a, o.id>> \in pays
      OBVIOUS
    <3>1. <<a, o.id>> \in Outputs[t][o.n].addrs \X {o.id}
      OBVIOUS
    <3> QED BY <3>1
  <2> HIDE DEF pays
  <2>3. pays \subseteq Addresses \X Nat
    <3> SUFFICES ASSUME NEW r \in pays PROVE r \in Addresses \X Nat
      OBVIOUS
    <3>1. PICK o \in outs : r \in Outputs[t][o.n].addrs \X {o.id}
      BY <2>1
    <3>2. Outputs[t][o.n].addrs \subseteq Addresses /\ o.id \in Nat
      BY <1>4, <1>8 DEF OutRecord
    <3> QED BY <3>1, <3>2
  <2>4. ASSUME NEW r \in e.addresses_outputs
        PROVE  \E o \in e.outputs : o.id = r[2]
    <3>1. CASE r \in pays
      <4>1. PICK o \in outs : r \in Outputs[t][o.n].addrs \X {o.id}
        BY <2>1, <3>1
      <4> QED BY <1>2, <4>1
    <3>2. CASE r \in d.addresses_outputs
      <4>1. PICK o \in d.outputs : o.id = r[2]
        BY <1>1, <3>2 DEF Related
      <4> QED BY <1>2, <1>9, <1>10, <4>1
    <3> QED BY <1>2, <3>1, <3>2
  <2>5. ASSUME NEW p \in e.outputs, NEW u \in e.txs, u.id = p.tx,
               NEW a \in Addresses
        PROVE  <<a, p.id>> \in e.addresses_outputs
                   <=> a \in Outputs[u.hash][p.n].addrs
    <3>0. <<a, p.id>>[1] = a /\ <<a, p.id>>[2] = p.id
      OBVIOUS
    <3>1. CASE p \in outs
      <4>1. u = row
        BY <1>2, <1>4, <1>6, <2>5, <3>1
      <4>2. <<a, p.id>> \notin d.addresses_outputs
        BY <1>1, <1>4, <3>0, <3>1 DEF Related
      <4>3. <<a, p.id>> \in pays => a \in Outputs[t][p.n].addrs
        <5> SUFFICES ASSUME <<a, p.id>> \in pays
                     PROVE  a \in Outputs[t][p.n].addrs
          OBVIOUS
        <5>1. PICK o \in outs : <<a, p.id>> \in Outputs[t][o.n].addrs \X {o.id}
          BY <2>1
        <5>2. p.id = o.id /\ a \in Outputs[t][o.n].addrs
          BY <5>1
        <5>3. o = p
          BY <1>4, <3>1, <5>2
        <5> QED BY <5>2, <5>3
      <4> QED BY <1>2, <1>6, <2>2, <3>1, <4>1, <4>2, <4>3
    <3>2. CASE p \in old
      <4>1. PICK o \in d.outputs : p = Spent(o, ins)
        BY <1>10, <3>2
      <4>2. p.id = o.id /\ p.tx = o.tx /\ p.n = o.n
        BY <1>9, <4>1
      <4>3. u \in d.txs
        BY <1>1, <1>2, <1>6, <2>5, <4>2 DEF OutputsKeyed
      <4>4. <<a, o.id>> \in d.addresses_outputs <=> a \in Outputs[u.hash][o.n].addrs
        BY <1>1, <2>5, <4>2, <4>3 DEF Related
      <4>5. <<a, o.id>> \notin pays
        <5> SUFFICES ASSUME <<a, o.id>> \in pays PROVE FALSE
          OBVIOUS
        <5>1. PICK q \in outs : <<a, o.id>> \in Outputs[t][q.n].addrs \X {q.id}
          BY <2>1
        <5>2. o.id = q.id
          BY <5>1
        <5> QED BY <1>4, <5>2
      <4> QED BY <1>2, <4>2, <4>4, <4>5
    <3> QED BY <1>2, <3>1, <3>2
  <2>6. e.addresses_outputs \subseteq Addresses \X Nat
    BY <1>1, <1>2, <2>3 DEF Related
  <2> QED BY <2>4, <2>5, <2>6 DEF Related
<1>17. Recorded(e)
  <2>1. e.addresses_txs \subseteq Addresses \X Nat
    BY <1>1, <1>2, <1>5 DEF Recorded
  <2>2. ASSUME NEW r \in e.addresses_txs PROVE \E u \in e.txs : u.id = r[2]
    <3>1. CASE r \in d.addresses_txs
      BY <1>1, <1>2, <3>1 DEF Recorded
    <3>2. CASE r \in touched \X {tx_id}
      <4>1. r[2] = tx_id
        BY <3>2
      <4> QED BY <1>2, <1>6, <4>1
    <3> QED BY <1>2, <3>1, <3>2
  <2>3. ASSUME NEW u \in e.txs, NEW a \in Addresses
        PROVE  <<a, u.id>> \in e.addresses_txs <=> Touches(u.hash, a)
    <3>0. <<a, u.id>>[1] = a /\ <<a, u.id>>[2] = u.id
      OBVIOUS
    <3>1. CASE u = row
      <4>1. <<a, tx_id>> \notin d.addresses_txs
        BY <1>1, <1>6, <3>0, <3>1 DEF Recorded
      <4>2. <<a, tx_id>> \in touched \X {tx_id} <=> a \in touched
        OBVIOUS
      <4> QED BY <1>2, <1>5, <1>6, <3>1, <4>1, <4>2
    <3>2. CASE u \in d.txs
      <4>1. <<a, u.id>> \notin touched \X {tx_id}
        BY <1>6, <3>2
      <4> QED BY <1>1, <1>2, <3>2, <4>1 DEF Recorded
    <3> QED BY <1>2, <3>1, <3>2
  <2> QED BY <2>1, <2>2, <2>3 DEF Recorded
<1>18. Consistent(e)
  BY <1>2, <1>11, <1>12, <1>14, <1>15, <1>16, <1>17 DEF Consistent
<1> QED BY <1>18 DEF e

\* What revert_tx leaves of each table.
LEMMA RevertTxFields ==
    ASSUME NEW d, Shape(d), NEW ids
    PROVE  LET e     == RevertTx(d, ids)
               made  == {o.id : o \in {x \in d.outputs : x.tx \in ids}}
               spent == {i.output : i \in {x \in d.inputs : x.tx \in ids}}
           IN  /\ Shape(e)
               /\ e.txs = d.txs
               /\ e.outputs = Unspend({o \in d.outputs : o.id \notin made}, spent)
               /\ e.inputs = {i \in d.inputs : i.tx \notin ids}
               /\ e.addresses_outputs =
                     {r \in d.addresses_outputs : r[2] \notin made}
               /\ e.addresses_txs = {r \in d.addresses_txs : r[2] \notin ids}
               /\ e.block_fees = d.block_fees
               /\ e.spans = d.spans
<1> DEFINE made  == {o.id : o \in {x \in d.outputs : x.tx \in ids}}
           spent == {i.output : i \in {x \in d.inputs : x.tx \in ids}}
           kept  == Unspend({o \in d.outputs : o.id \notin made}, spent)
           pays  == {r \in d.addresses_outputs : r[2] \notin made}
           ins   == {i \in d.inputs : i.tx \notin ids}
           known == {r \in d.addresses_txs : r[2] \notin ids}
<1>1. RevertTx(d, ids) = [d EXCEPT !.outputs = kept, !.addresses_outputs = pays,
                                   !.inputs = ins, !.addresses_txs = known]
  BY DEF RevertTx
<1>2. d = [txs |-> d.txs, outputs |-> d.outputs, inputs |-> d.inputs,
           addresses_outputs |-> d.addresses_outputs,
           addresses_txs |-> d.addresses_txs,
           block_fees |-> d.block_fees, spans |-> d.spans]
  BY DEF Shape
<1> HIDE DEF made, spent, kept, pays, ins, known
<1>3. RevertTx(d, ids) =
         [txs |-> d.txs, outputs |-> kept, inputs |-> ins,
          addresses_outputs |-> pays, addresses_txs |-> known,
          block_fees |-> d.block_fees, spans |-> d.spans]
  BY <1>1, <1>2
<1>4. LET e == RevertTx(d, ids) IN
      /\ Shape(e) /\ e.txs = d.txs /\ e.outputs = kept /\ e.inputs = ins
      /\ e.addresses_outputs = pays /\ e.addresses_txs = known
      /\ e.block_fees = d.block_fees /\ e.spans = d.spans
  BY <1>3 DEF Shape
<1> QED BY <1>4 DEF made, spent, kept, pays, ins, known

\* Reverting transactions that no other transaction spends.
LEMMA RevertConsistent ==
    ASSUME NEW d, Consistent(d), NEW ids, NEW e, Shape(e),
           LET undone == RevertTx(d, ids) IN
               /\ e.outputs = undone.outputs
               /\ e.inputs = undone.inputs
               /\ e.addresses_outputs = undone.addresses_outputs
               /\ e.addresses_txs = undone.addresses_txs,
           e.txs = {t \in d.txs : t.id \notin ids},
           \A t \in e.txs : \A k \in DOMAIN Inputs[t.hash] :
              Inputs[t.hash][k] # NullInput =>
                  \E u \in e.txs : u.hash = Inputs[t.hash][k].tx
    PROVE  Consistent(e)
<1> DEFINE made  == {o.id : o \in {x \in d.outputs : x.tx \in ids}}
           spent == {i.output : i \in {x \in d.inputs : x.tx \in ids}}
           Kept(o) == IF o.id \in spent THEN [o EXCEPT !.spent_by = 0] ELSE o
           keep  == {o \in d.outputs : o.id \notin made}
<1>1. /\ Shape(d) /\ TxsKeyed(d) /\ OutputsKeyed(d) /\ InputsKeyed(d)
      /\ Marked(d) /\ Related(d) /\ Recorded(d)
  BY DEF Consistent
<1>2. /\ e.outputs = {Kept(o) : o \in keep}
      /\ e.inputs = {i \in d.inputs : i.tx \notin ids}
      /\ e.addresses_outputs = {r \in d.addresses_outputs : r[2] \notin made}
      /\ e.addresses_txs = {r \in d.addresses_txs : r[2] \notin ids}
  BY <1>1, RevertTxFields DEF Unspend
<1>3. \A o \in d.outputs : o \in OutRecord /\ (o.id \in made <=> o.tx \in ids)
  BY <1>1 DEF OutputsKeyed
<1>4. \A o \in d.outputs : /\ Kept(o) \in OutRecord
                           /\ Kept(o).id = o.id /\ Kept(o).tx = o.tx
                           /\ Kept(o).n = o.n /\ Kept(o).value = o.value
  BY <1>3 DEF OutRecord
<1>5. IsFiniteSet(e.outputs)
  <2>1. IsFiniteSet(keep)
    BY <1>1, FS_Subset DEF OutputsKeyed
  <2>2. [o \in keep |-> Kept(o)] \in Surjection(keep, e.outputs)
    BY <1>2 DEF Surjection
  <2> QED BY <2>1, <2>2, FS_Surjection
<1>6. \A i \in d.inputs : i.tx \in ids => i.output \in spent
  OBVIOUS
<1>7. \A h \in spent : \E i \in d.inputs : i.tx \in ids /\ i.output = h
  OBVIOUS
<1>8. \A o \in d.outputs : Kept(o) = IF o.id \in spent
                                     THEN [o EXCEPT !.spent_by = 0] ELSE o
  OBVIOUS
<1>9. \A o \in keep : o \in d.outputs /\ o.tx \notin ids
  BY <1>3
<1>10. \A o \in d.outputs : o.tx \notin ids => o \in keep
  BY <1>3
<1> HIDE DEF made, spent, Kept, keep
<1>11. TxsKeyed(e)
  <2>1. IsFiniteSet(e.txs)
    BY <1>1, FS_Subset DEF TxsKeyed
  <2> QED BY <1>1, <2>1 DEF TxsKeyed
<1>12. OutputsKeyed(e)
  <2>1. e.outputs \subseteq OutRecord
    BY <1>2, <1>4, <1>9
  <2>2. \A o, p \in e.outputs : o.id = p.id => o = p
    BY <1>1, <1>2, <1>4, <1>9 DEF OutputsKeyed
  <2>3. \A o, p \in e.outputs : o.tx = p.tx /\ o.n = p.n => o = p
    BY <1>1, <1>2, <1>4, <1>9 DEF OutputsKeyed
  <2>4. ASSUME NEW p \in e.outputs
        PROVE  \E t \in e.txs : /\ t.id = p.tx
                                /\ p.n \in DOMAIN Outputs[t.hash]
                                /\ p.value = Outputs[t.hash][p.n].value
    <3>1. PICK o \in keep : p = Kept(o)
      BY <1>2
    <3>2. PICK t \in d.txs : /\ t.id = o.tx
                             /\ o.n \in DOMAIN Outputs[t.hash]
                             /\ o.value = Outputs[t.hash][o.n].value
      BY <1>1, <1>9, <3>1 DEF OutputsKeyed
    <3> QED BY <1>4, <1>9, <3>1, <3>2
  <2>5. ASSUME NEW t \in e.txs, NEW n \in DOMAIN Outputs[t.hash]
        PROVE  \E o \in e.outputs : o.tx = t.id /\ o.n = n
    <3>1. PICK o \in d.outputs : o.tx = t.id /\ o.n = n
      BY <1>1 DEF OutputsKeyed
    <3> QED BY <1>2, <1>4, <1>10, <3>1
  <2> QED BY <1>5, <2>1, <2>2, <2>3, <2>4, <2>5 DEF OutputsKeyed
<1>13. InputsKeyed(e)
  <2>1. e.inputs \subseteq InRecord /\ IsFiniteSet(e.inputs)
    BY <1>1, <1>2, FS_Subset DEF InputsKeyed
  <2>2. \A i, j \in e.inputs : i.id = j.id => i = j
    BY <1>1, <1>2 DEF InputsKeyed
  <2>3. ASSUME NEW i \in e.inputs
        PROVE  \E t \in e.txs : /\ t.id = i.tx
                                /\ i.n \in DOMAIN Inputs[t.hash]
                                /\ Names(e, i, Inputs[t.hash][i.n])
    <3>1. PICK t \in d.txs : /\ t.id = i.tx /\ i.n \in DOMAIN Inputs[t.hash]
                             /\ Names(d, i, Inputs[t.hash][i.n])
      BY <1>1, <1>2 DEF InputsKeyed
    <3>2. t \in e.txs
      BY <1>2, <3>1
    <3>3. Names(e, i, Inputs[t.hash][i.n])
      <4>1. CASE Inputs[t.hash][i.n] = NullInput
        BY <3>1, <4>1 DEF Names
      <4>2. CASE Inputs[t.hash][i.n] # NullInput
        <5>1. PICK o \in d.outputs, v \in d.txs :
                 /\ o.id = i.output /\ v.id = o.tx
                 /\ Inputs[t.hash][i.n] = [tx |-> v.hash, n |-> o.n]
          BY <3>1, <4>2 DEF Names
        <5>2. PICK u \in e.txs : u.hash = Inputs[t.hash][i.n].tx
          BY <3>1, <3>2, <4>2
        <5>3. u = v
          BY <1>1, <5>1, <5>2 DEF TxsKeyed
        <5>4. Kept(o) \in e.outputs
          BY <1>2, <1>10, <5>1, <5>2, <5>3
        <5> QED BY <1>4, <4>2, <5>1, <5>2, <5>3, <5>4 DEF Names
      <4> QED BY <4>1, <4>2
    <3> QED BY <3>1, <3>2, <3>3
  <2>4. \A t \in e.txs : \A n \in DOMAIN Inputs[t.hash] :
           \E i \in e.inputs : i.tx = t.id /\ i.n = n
    BY <1>1, <1>2 DEF InputsKeyed
  <2> QED BY <2>1, <2>2, <2>3, <2>4 DEF InputsKeyed
<1>14. Marked(e)
  <2>1. ASSUME NEW p \in e.outputs, NEW i \in e.inputs, i.output = p.id
        PROVE  i.id = p.spent_by
    <3>1. PICK o \in keep : p = Kept(o)
      BY <1>2
    <3>2. o \in d.outputs /\ i \in d.inputs /\ i.tx \notin ids /\ i.output = o.id
      BY <1>2, <1>4, <1>9, <2>1, <3>1
    <3>3. i.id = o.spent_by
      BY <1>1, <3>2 DEF Marked
    <3>4. o.id \notin spent
      <4> SUFFICES ASSUME o.id \in spent PROVE FALSE
        OBVIOUS
      <4>1. PICK j \in d.inputs : j.tx \in ids /\ j.output = o.id
        BY <1>7
      <4>2. j.id = i.id
        BY <1>1, <3>2, <3>3, <4>1 DEF Marked
      <4>3. j = i
        BY <1>1, <3>2, <4>2 DEF InputsKeyed
      <4> QED BY <3>2, <4>1, <4>3
    <3> QED BY <1>8, <3>1, <3>2, <3>3, <3>4
  <2>2. ASSUME NEW p \in e.outputs, p.spent_by # 0
        PROVE  \E i \in e.inputs : i.output = p.id /\ i.id = p.spent_by
    <3>1. PICK o \in keep : p = Kept(o)
      BY <1>2
    <3>2. o \in d.outputs /\ o \in OutRecord
      BY <1>3, <1>9, <3>1
    <3>3. o.id \notin spent
      <4> SUFFICES ASSUME o.id \in spent PROVE FALSE
        OBVIOUS
      <4>1. p = [o EXCEPT !.spent_by = 0]
        BY <1>8, <3>1, <3>2
      <4>2. p.spent_by = 0
        BY <3>2, <4>1 DEF OutRecord
      <4> QED BY <2>2, <4>2
    <3>4. p = o
      BY <1>8, <3>1, <3>2, <3>3
    <3>5. PICK i \in d.inputs : i.output = o.id /\ i.id = o.spent_by
      BY <1>1, <2>2, <3>2, <3>4 DEF Marked
    <3> QED BY <1>2, <1>6, <3>3, <3>4, <3>5
  <2> QED BY <2>1, <2>2 DEF Marked
<1>15. \A h : h \in made <=> \E o \in d.outputs : o.tx \in ids /\ o.id = h
  BY DEF made
<1>16. Related(e)
  <2>1. e.addresses_outputs \subseteq Addresses \X Nat
    BY <1>1, <1>2 DEF Related
  <2>2. ASSUME NEW r \in e.addresses_outputs PROVE \E p \in e.outputs : p.id = r[2]
    <3>1. PICK o \in d.outputs : o.id = r[2]
      BY <1>1, <1>2 DEF Related
    <3>2. o \in keep
      BY <1>2, <1>3, <1>10, <3>1
    <3> QED BY <1>2, <1>4, <3>1, <3>2
  <2>3. ASSUME NEW p \in e.outputs, NEW t \in e.txs, t.id = p.tx,
               NEW a \in Addresses
        PROVE  <<a, p.id>> \in e.addresses_outputs
                   <=> a \in Outputs[t.hash][p.n].addrs
    <3>1. PICK o \in keep : p = Kept(o)
      BY <1>2
    <3>2. o \in d.outputs /\ p.id = o.id /\ p.n = o.n /\ p.tx = o.tx
      BY <1>4, <1>9, <3>1
    <3>3. o.id \notin made
      BY <1>3, <1>9, <3>1
    <3>4. <<a, o.id>>[2] = o.id
      OBVIOUS
    <3>5. <<a, o.id>> \in d.addresses_outputs
              <=> a \in Outputs[t.hash][o.n].addrs
      BY <1>1, <2>3, <3>2 DEF Related
    <3> QED BY <1>2, <3>2, <3>3, <3>4, <3>5
  <2> QED BY <2>1, <2>2, <2>3 DEF Related
<1>17. Recorded(e)
  <2>1. e.addresses_txs \subseteq Addresses \X Nat
    BY <1>1, <1>2 DEF Recorded
  <2>2. ASSUME NEW r \in e.addresses_txs PROVE \E t \in e.txs : t.id = r[2]
    BY <1>1, <1>2 DEF Recorded
  <2>3. ASSUME NEW t \in e.txs, NEW a \in Addresses
        PROVE  <<a, t.id>> \in e.addresses_txs <=> Touches(t.hash, a)
    <3>1. <<a, t.id>>[2] = t.id
      OBVIOUS
    <3> QED BY <1>1, <1>2, <3>1 DEF Recorded
  <2> QED BY <2>1, <2>2, <2>3 DEF Recorded
<1> QED BY <1>11, <1>12, <1>13, <1>14, <1>16, <1>17 DEF Consistent

\* Counting up to k reaches every number.
LEMMA CountingUp ==
    ASSUME NEW k \in Nat, NEW S, 0 \in S,
           \A i \in 1..k : i - 1 \in S => i \in S
    PROVE  0..k \subseteq S
<1> DEFINE Good == {m \in 0..k : 0..m \subseteq S}
<1>1. Good \in SUBSET Nat /\ 0 \in Good
  OBVIOUS
<1>2. IsFiniteSet(Good)
  <2>1. IsFiniteSet(0..k) /\ Good \subseteq 0..k
    BY FS_Interval
  <2> QED BY <2>1, FS_Subset
<1>3. PICK m \in Good : \A n \in Good : n <= m
  BY <1>1, <1>2, LargestNatural
<1>4. CASE m = k
  BY <1>4
<1>5. CASE m # k
  <2>1. m + 1 \in 1..k /\ (m + 1) - 1 \in S
    BY <1>5
  <2>2. m + 1 \in S
    BY <2>1
  <2>3. m + 1 \in Good
    BY <2>1, <2>2
  <2> QED BY <1>3, <2>3
<1> QED BY <1>4, <1>5

\* The tables once the row of the block is there.
Opened(d, block_id, b, first) ==
    [d EXCEPT !.spans =
        [id \in DOMAIN @ \cup {block_id} |->
            IF id = block_id THEN [first |-> first, count |-> Len(BlockTxs[b])]
            ELSE @[id]]]

\* after[i]: the tables when i transactions of the block are inserted.
Filled(after, d, block_id, b, first, k) ==
    /\ after[0] = Opened(d, block_id, b, first)
    /\ \A i \in 1..k :
          after[i] = InsertTx(after[i - 1], first + i - 1, block_id, i - 1,
                              BlockTxs[b][i])
    /\ InsertTxs(d, block_id, b, first, k) = after[k]

\* Block::insert goes through the transactions one by one.
LEMMA InsertTxsSteps ==
    ASSUME NEW d, NEW block_id, NEW b, NEW first, NEW k \in Nat
    PROVE  \E after : Filled(after, d, block_id, b, first, k)
<1> DEFINE opened == Opened(d, block_id, b, first)
           Then(e, i) == InsertTx(e, first + i - 1, block_id, i - 1, BlockTxs[b][i])
           Steps(f, m) == /\ f[0] = opened
                          /\ \A i \in 1..m : f[i] = Then(f[i - 1], i)
           S == {m \in 0..k : \E f : Steps(f, m)}
           Built(f) == f = [i \in 0..k |->
                               IF i = 0 THEN opened ELSE Then(f[i - 1], i)]
           after == CHOOSE f : Built(f)
<1>1. InsertTxs(d, block_id, b, first, k) = after[k]
  BY DEF InsertTxs, Opened
<1> HIDE DEF opened, Then, after
<1>2. 0 \in S
  <2>1. [i \in {0} |-> opened][0] = opened
    OBVIOUS
  <2>2. Steps([i \in {0} |-> opened], 0)
    BY <2>1
  <2> HIDE DEF Steps
  <2> QED BY <2>2
<1>3. ASSUME NEW i \in 1..k, i - 1 \in S PROVE i \in S
  <2>1. PICK f : Steps(f, i - 1)
    BY <1>3
  <2> DEFINE g == [j \in 0..i |-> IF j = i THEN Then(f[i - 1], i) ELSE f[j]]
  <2>2. g[0] = opened
    BY <2>1
  <2>3. ASSUME NEW j \in 1..i PROVE g[j] = Then(g[j - 1], j)
    <3>1. g[j - 1] = f[j - 1]
      OBVIOUS
    <3>2. CASE j = i
      BY <3>1, <3>2
    <3>3. CASE j # i
      <4>1. j \in 1..(i - 1) /\ g[j] = f[j]
        BY <3>3
      <4> QED BY <2>1, <3>1, <4>1
    <3> QED BY <3>2, <3>3
  <2> HIDE DEF g
  <2>4. Steps(g, i)
    BY <2>2, <2>3
  <2> QED BY <2>4
<1>4. PICK f : Steps(f, k)
  <2>1. k \in S
    <3> HIDE DEF S
    <3> QED BY <1>2, <1>3, CountingUp
  <2> HIDE DEF Steps
  <2> QED BY <2>1
<1> DEFINE g == [i \in 0..k |-> f[i]]
<1>5. Built(g)
  <2>1. \A i \in 0..k : i # 0 => i \in 1..k /\ i - 1 \in 0..k
    OBVIOUS
  <2>2. \A i \in 0..k : f[i] = IF i = 0 THEN opened ELSE Then(g[i - 1], i)
    BY <1>4, <2>1
  <2> QED BY <2>2
<1>6. Built(after)
  BY <1>5 DEF after
<1>7. Steps(after, k)
  <2>1. /\ after[0] = opened
        /\ \A i \in 1..k : after[i] = Then(after[i - 1], i)
    BY <1>6
  <2> QED BY <2>1
<1>8. Filled(after, d, block_id, b, first, k)
  BY <1>1, <1>7 DEF opened, Then, Filled
<1> QED BY <1>8

(***************************************************************************)
(* Part 2: the inductive invariant.                                        *)
(***************************************************************************)

\* The rows of the first k transactions of the block of row r.
TxsOf(r, first, k) ==
    {[id |-> first + i - 1, hash |-> BlockTxs[r.hash][i], block |-> r.id,
      index |-> i - 1] : i \in 1..k}

\* The tables hold the transactions of the blocks of rs and no others.
Held(d, rs) ==
    /\ Consistent(d)
    /\ DOMAIN d.spans = {r.id : r \in rs}
    /\ \A r \in rs : /\ d.spans[r.id].first \in Nat
                     /\ d.spans[r.id].count = Len(BlockTxs[r.hash])
    /\ d.txs = UNION {TxsOf(r, d.spans[r.id].first, Len(BlockTxs[r.hash])) :
                      r \in rs}

\* The transaction ids in use are below the next one.
Above(d, id) == id \in Nat /\ \A t \in d.txs : t.id < id

\* The transactions of a block.
LEMMA BlockTxsFacts ==
    ASSUME NEW b \in Blocks
    PROVE  /\ Len(BlockTxs[b]) \in Nat \ {0}
           /\ DOMAIN BlockTxs[b] = 1..Len(BlockTxs[b])
           /\ \A j \in 1..Len(BlockTxs[b]) : BlockTxs[b][j] \in DOMAIN Inputs
<1>1. BlockTxs[b] \in Seq(DOMAIN Inputs) /\ BlockTxs[b] # <<>>
  BY LedgerTypeAssumption DEF LedgerTypeAssumption
<1> QED BY <1>1, EmptySeq, LenProperties, ElementOfSeq

\* What is earlier than a transaction of a block.
LEMMA EarlierFacts ==
    ASSUME NEW b \in Blocks, NEW j \in Nat
    PROVE  /\ \A t : t \in Earlier(b, 1) <=>
                 \E i \in 1..(Len(Lineage[b]) - 1) :
                    \E m \in 1..Len(BlockTxs[Lineage[b][i]]) :
                       t = BlockTxs[Lineage[b][i]][m]
           /\ \A t : t \in Earlier(b, j) <=>
                 \/ t \in Earlier(b, 1)
                 \/ \E m \in 1..(j - 1) : t = BlockTxs[b][m]
<1> DEFINE below == 1..(Len(Lineage[b]) - 1)
           past == UNION {Range(BlockTxs[Lineage[b][i]]) : i \in below}
           In(t, i) == \E m \in 1..Len(BlockTxs[Lineage[b][i]]) :
                           t = BlockTxs[Lineage[b][i]][m]
<1>1. \A i \in below : Lineage[b][i] \in Blocks
  BY LineageFacts
<1>2. \A i \in below : \A t : t \in Range(BlockTxs[Lineage[b][i]]) <=> In(t, i)
  BY <1>1, BlockTxsFacts DEF Range
<1>3. \A t : t \in past <=> \E i \in below : In(t, i)
  <2>1. \A t : t \in past <=>
            \E i \in below : t \in Range(BlockTxs[Lineage[b][i]])
    OBVIOUS
  <2> HIDE DEF past, below, In
  <2> QED BY <1>2, <2>1
<1>4. \A n \in Nat : Earlier(b, n) = past \cup {BlockTxs[b][i] : i \in 1..(n - 1)}
  BY DEF Earlier
<1>5. Earlier(b, 1) = past
  BY <1>4
<1>6. \A t : t \in Earlier(b, j) <=> \/ t \in past
                                     \/ \E m \in 1..(j - 1) : t = BlockTxs[b][m]
  BY <1>4
<1> HIDE DEF past
<1> QED BY <1>3, <1>5, <1>6

\* What the node has validated is what inserting needs.
LEMMA LedgerSpendable ==
    ASSUME NEW b \in Blocks, NEW j \in 1..Len(BlockTxs[b]), NEW d,
           \A t : t \in Earlier(b, j) <=> \E u \in d.txs : u.hash = t
    PROVE  /\ BlockTxs[b][j] \in DOMAIN Inputs
           /\ Spendable(d, BlockTxs[b][j])
           /\ \A u \in d.txs : u.hash # BlockTxs[b][j]
<1> DEFINE t == BlockTxs[b][j]
<1>1. /\ t \notin Earlier(b, j)
      /\ \A k \in DOMAIN Inputs[t] :
            Inputs[t][k] # NullInput =>
                /\ Inputs[t][k].tx \in Earlier(b, j)
                /\ Inputs[t][k].n \in DOMAIN Outputs[Inputs[t][k].tx]
                /\ \A s \in Earlier(b, j) :
                      ~Spends(s, Inputs[t][k].tx, Inputs[t][k].n)
                /\ \A l \in DOMAIN Inputs[t] : Inputs[t][l] = Inputs[t][k] => l = k
  BY BlockTxsFacts, LedgerAssumption DEF LedgerAssumption
<1>2. t \in DOMAIN Inputs
  BY BlockTxsFacts
<1> HIDE DEF t
<1>3. Spendable(d, t)
  BY <1>1 DEF Spendable
<1>4. \A u \in d.txs : u.hash # t
  BY <1>1
<1> QED BY <1>2, <1>3, <1>4 DEF t

\* The rows of the transactions of a block.
LEMMA TxsOfFacts ==
    ASSUME NEW r \in Row, NEW first \in Nat, NEW k \in 0..Len(BlockTxs[r.hash])
    PROVE  /\ TxsOf(r, first, 0) = {}
           /\ \A t \in TxsOf(r, first, k) :
                 /\ t \in TxRecord
                 /\ t.block = r.id
                 /\ t.index + 1 \in 1..k
                 /\ t.id = first + t.index
                 /\ t.hash = BlockTxs[r.hash][t.index + 1]
<1> DEFINE row(i) == [id |-> first + i - 1, hash |-> BlockTxs[r.hash][i],
                      block |-> r.id, index |-> i - 1]
<1>1. r.hash \in Blocks /\ r.id \in Nat
  BY DEF Row
<1>2. k \in Nat /\ \A i \in 1..k : /\ BlockTxs[r.hash][i] \in DOMAIN Inputs
                                   /\ i - 1 \in Nat /\ first + i - 1 \in Nat
                                   /\ first + i - 1 = first + (i - 1)
                                   /\ (i - 1) + 1 = i
  BY <1>1, BlockTxsFacts
<1>3. \A m \in Nat : TxsOf(r, first, m) = {row(i) : i \in 1..m}
  BY DEF TxsOf
<1>4. TxsOf(r, first, 0) = {}
  BY <1>3
<1>5. \A t \in TxsOf(r, first, k) : /\ t \in TxRecord
                                    /\ t.block = r.id
                                    /\ t.index + 1 \in 1..k
                                    /\ t.id = first + t.index
                                    /\ t.hash = BlockTxs[r.hash][t.index + 1]
  <2> SUFFICES ASSUME NEW t \in TxsOf(r, first, k)
               PROVE  /\ t \in TxRecord
                      /\ t.block = r.id
                      /\ t.index + 1 \in 1..k
                      /\ t.id = first + t.index
                      /\ t.hash = BlockTxs[r.hash][t.index + 1]
    OBVIOUS
  <2>1. PICK i \in 1..k : t = row(i)
    BY <1>2, <1>3
  <2>2. /\ BlockTxs[r.hash][i] \in DOMAIN Inputs /\ i - 1 \in Nat
        /\ first + i - 1 \in Nat
        /\ first + i - 1 = first + (i - 1) /\ (i - 1) + 1 = i
    BY <1>2
  <2> QED BY <1>1, <2>1, <2>2 DEF TxRecord
<1> QED BY <1>4, <1>5

LEMMA TxsOfHas ==
    ASSUME NEW r, NEW first, NEW k, NEW i \in 1..k
    PROVE  \E t \in TxsOf(r, first, k) : /\ t.id = first + i - 1
                                         /\ t.hash = BlockTxs[r.hash][i]
<1> DEFINE row == [id |-> first + i - 1, hash |-> BlockTxs[r.hash][i],
                   block |-> r.id, index |-> i - 1]
<1>1. row \in TxsOf(r, first, k)
  BY DEF TxsOf
<1>2. row.id = first + i - 1 /\ row.hash = BlockTxs[r.hash][i]
  OBVIOUS
<1> HIDE DEF row
<1> QED BY <1>1, <1>2

LEMMA TxsOfGrows ==
    ASSUME NEW r, NEW first, NEW k \in Nat \ {0}, NEW fewer,
           fewer = TxsOf(r, first, k - 1)
    PROVE  TxsOf(r, first, k) = fewer
               \cup {[id |-> first + k - 1, hash |-> BlockTxs[r.hash][k],
                      block |-> r.id, index |-> k - 1]}
<1> DEFINE row(i) == [id |-> first + i - 1, hash |-> BlockTxs[r.hash][i],
                      block |-> r.id, index |-> i - 1]
<1>1. TxsOf(r, first, k) = {row(i) : i \in 1..k}
  BY DEF TxsOf
<1>2. fewer = {row(i) : i \in 1..(k - 1)}
  BY DEF TxsOf
<1>3. 1..k = 1..(k - 1) \cup {k}
  OBVIOUS
<1> HIDE DEF row
<1>4. TxsOf(r, first, k) = fewer \cup {row(k)}
  BY <1>1, <1>2, <1>3
<1> QED BY <1>4 DEF row

\* block_fees and the spans are no part of what Consistent says.
LEMMA SameTables ==
    ASSUME NEW d, Consistent(d), NEW e, Shape(e),
           e.txs = d.txs, e.outputs = d.outputs, e.inputs = d.inputs,
           e.addresses_outputs = d.addresses_outputs,
           e.addresses_txs = d.addresses_txs
    PROVE  Consistent(e)
<1>1. /\ TxsKeyed(d) /\ OutputsKeyed(d) /\ InputsKeyed(d)
      /\ Marked(d) /\ Related(d) /\ Recorded(d)
  BY DEF Consistent
<1>2. TxsKeyed(e) /\ Marked(e) /\ Related(e) /\ Recorded(e)
  BY <1>1 DEF TxsKeyed, Marked, Related, Recorded
<1>3. OutputsKeyed(e)
  BY <1>1 DEF OutputsKeyed
<1>4. \A i, prev : Names(e, i, prev) <=> Names(d, i, prev)
  BY DEF Names
<1>5. InputsKeyed(e)
  <2>1. /\ e.inputs \subseteq InRecord /\ IsFiniteSet(e.inputs)
        /\ \A i, j \in e.inputs : i.id = j.id => i = j
        /\ \A t \in e.txs : \A n \in DOMAIN Inputs[t.hash] :
              \E i \in e.inputs : i.tx = t.id /\ i.n = n
    BY <1>1 DEF InputsKeyed
  <2>2. ASSUME NEW i \in e.inputs
        PROVE  \E t \in e.txs : /\ t.id = i.tx
                                /\ i.n \in DOMAIN Inputs[t.hash]
                                /\ Names(e, i, Inputs[t.hash][i.n])
    <3>1. PICK t \in d.txs : /\ t.id = i.tx /\ i.n \in DOMAIN Inputs[t.hash]
                             /\ Names(d, i, Inputs[t.hash][i.n])
      BY <1>1 DEF InputsKeyed
    <3> QED BY <1>4, <3>1
  <2> QED BY <2>1, <2>2 DEF InputsKeyed
<1> QED BY <1>2, <1>3, <1>5 DEF Consistent

LEMMA OpenedIs ==
    ASSUME NEW d, Shape(d), NEW block_id, NEW b, NEW first
    PROVE  Opened(d, block_id, b, first) =
              [txs |-> d.txs, outputs |-> d.outputs, inputs |-> d.inputs,
               addresses_outputs |-> d.addresses_outputs,
               addresses_txs |-> d.addresses_txs,
               block_fees |-> d.block_fees,
               spans |-> [j \in DOMAIN d.spans \cup {block_id} |->
                             IF j = block_id
                             THEN [first |-> first, count |-> Len(BlockTxs[b])]
                             ELSE d.spans[j]]]
<1> DEFINE spans == [j \in DOMAIN d.spans \cup {block_id} |->
                        IF j = block_id
                        THEN [first |-> first, count |-> Len(BlockTxs[b])]
                        ELSE d.spans[j]]
<1>1. Opened(d, block_id, b, first) = [d EXCEPT !.spans = spans]
  BY DEF Opened
<1>2. d = [txs |-> d.txs, outputs |-> d.outputs, inputs |-> d.inputs,
           addresses_outputs |-> d.addresses_outputs,
           addresses_txs |-> d.addresses_txs,
           block_fees |-> d.block_fees, spans |-> d.spans]
  BY DEF Shape
<1> HIDE DEF spans
<1>3. Opened(d, block_id, b, first) =
         [txs |-> d.txs, outputs |-> d.outputs, inputs |-> d.inputs,
          addresses_outputs |-> d.addresses_outputs,
          addresses_txs |-> d.addresses_txs,
          block_fees |-> d.block_fees, spans |-> spans]
  BY <1>1, <1>2
<1> QED BY <1>3 DEF spans

LEMMA OpenedConsistent ==
    ASSUME NEW d, Consistent(d), NEW block_id, NEW b, NEW first
    PROVE  Consistent(Opened(d, block_id, b, first))
<1> DEFINE opened == Opened(d, block_id, b, first)
           spans == [j \in DOMAIN d.spans \cup {block_id} |->
                        IF j = block_id
                        THEN [first |-> first, count |-> Len(BlockTxs[b])]
                        ELSE d.spans[j]]
<1>1. Shape(d)
  BY DEF Consistent
<1>2. opened = [txs |-> d.txs, outputs |-> d.outputs, inputs |-> d.inputs,
                addresses_outputs |-> d.addresses_outputs,
                addresses_txs |-> d.addresses_txs,
                block_fees |-> d.block_fees, spans |-> spans]
  BY <1>1, OpenedIs
<1> HIDE DEF opened, spans
<1>3. /\ Shape(opened) /\ opened.txs = d.txs /\ opened.outputs = d.outputs
      /\ opened.inputs = d.inputs
      /\ opened.addresses_outputs = d.addresses_outputs
      /\ opened.addresses_txs = d.addresses_txs
  BY <1>2 DEF Shape
<1>4. Consistent(opened)
  BY <1>3, SameTables
<1> QED BY <1>4 DEF opened

LEMMA OpenedFields ==
    ASSUME NEW d, Shape(d), NEW block_id, NEW b, NEW first
    PROVE  LET e == Opened(d, block_id, b, first) IN
           /\ e.txs = d.txs
           /\ e.block_fees = d.block_fees
           /\ DOMAIN e.spans = DOMAIN d.spans \cup {block_id}
           /\ e.spans[block_id].first = first
           /\ e.spans[block_id].count = Len(BlockTxs[b])
           /\ \A j \in DOMAIN d.spans \ {block_id} : e.spans[j] = d.spans[j]
<1> DEFINE opened == Opened(d, block_id, b, first)
           spans == [j \in DOMAIN d.spans \cup {block_id} |->
                        IF j = block_id
                        THEN [first |-> first, count |-> Len(BlockTxs[b])]
                        ELSE d.spans[j]]
<1>1. opened = [txs |-> d.txs, outputs |-> d.outputs, inputs |-> d.inputs,
                addresses_outputs |-> d.addresses_outputs,
                addresses_txs |-> d.addresses_txs,
                block_fees |-> d.block_fees, spans |-> spans]
  BY OpenedIs
<1>2. /\ DOMAIN spans = DOMAIN d.spans \cup {block_id}
      /\ spans[block_id].first = first
      /\ spans[block_id].count = Len(BlockTxs[b])
      /\ \A j \in DOMAIN d.spans \ {block_id} : spans[j] = d.spans[j]
  OBVIOUS
<1> HIDE DEF opened, spans
<1>3. /\ opened.txs = d.txs /\ opened.block_fees = d.block_fees
      /\ opened.spans = spans
  BY <1>1
<1> QED BY <1>2, <1>3 DEF opened

\* Inserting the first transactions of a block on the tables of its parent.
LEMMA InsertTxsFacts ==
    ASSUME NEW d, Consistent(d), NEW b \in Blocks, NEW id \in Nat, NEW first,
           Above(d, first), NEW k \in 0..Len(BlockTxs[b]),
           \A t : t \in Earlier(b, 1) <=> \E u \in d.txs : u.hash = t
    PROVE  LET e == InsertTxs(d, id, b, first, k) IN
           /\ Consistent(e)
           /\ e.txs = d.txs \cup TxsOf([id |-> id, hash |-> b], first, k)
           /\ e.spans = Opened(d, id, b, first).spans
           /\ e.block_fees = d.block_fees
<1> DEFINE row == [id |-> id, hash |-> b]
           opened == Opened(d, id, b, first)
<1>1. row \in Row /\ row.hash = b /\ row.id = id /\ first \in Nat
  BY DEF Row, Above
<1>2. k \in Nat /\ Len(BlockTxs[b]) \in Nat
  BY BlockTxsFacts
<1>0. PICK after : Filled(after, d, id, b, first, k)
  BY <1>2, InsertTxsSteps
<1>3. /\ after[0] = opened
      /\ \A i \in 1..k :
            after[i] = InsertTx(after[i - 1], first + i - 1, id, i - 1,
                                BlockTxs[b][i])
      /\ InsertTxs(d, id, b, first, k) = after[k]
  BY <1>0 DEF Filled
<1> DEFINE Right(i) == /\ Consistent(after[i])
                       /\ after[i].txs = d.txs \cup TxsOf(row, first, i)
                       /\ after[i].spans = opened.spans
                       /\ after[i].block_fees = d.block_fees
           S == {i \in 0..k : Right(i)}
<1>4. 0 \in S
  <2>1. Shape(d)
    BY DEF Consistent
  <2>2. opened.txs = d.txs /\ opened.block_fees = d.block_fees
    BY <2>1, OpenedFields
  <2>3. Consistent(opened)
    BY OpenedConsistent
  <2> HIDE DEF opened, row
  <2>4. TxsOf(row, first, 0) = {}
    BY <1>1, <1>2, TxsOfFacts
  <2> QED BY <1>2, <1>3, <2>2, <2>3, <2>4
<1>5. ASSUME NEW i \in 1..k, i - 1 \in S PROVE i \in S
  <2> DEFINE f == after[i - 1]
             t == BlockTxs[b][i]
  <2>1. /\ Consistent(f) /\ f.txs = d.txs \cup TxsOf(row, first, i - 1)
        /\ f.spans = opened.spans /\ f.block_fees = d.block_fees
    BY <1>5
  <2>2. /\ i \in 1..Len(BlockTxs[b]) /\ i \in Nat /\ i - 1 \in Nat /\ i # 0
        /\ i - 1 \in 0..Len(BlockTxs[b]) /\ i \in 0..Len(BlockTxs[b])
        /\ first + i - 1 \in Nat /\ first + (i - 1) = first + i - 1
    BY <1>1, <1>2
  <2> HIDE DEF f, t, row, opened
  <2>3. /\ \A u \in TxsOf(row, first, i - 1) :
              /\ u.index + 1 \in 1..(i - 1) /\ u.id = first + u.index
              /\ u.hash = BlockTxs[b][u.index + 1] /\ u \in TxRecord
        /\ \A m \in 1..(i - 1) : \E u \in TxsOf(row, first, i - 1) :
              u.hash = BlockTxs[b][m]
    <3> DEFINE n == i - 1
    <3>1. n \in 0..Len(BlockTxs[row.hash])
      BY <1>1, <2>2
    <3> HIDE DEF n
    <3>2. \A u \in TxsOf(row, first, n) :
              /\ u \in TxRecord /\ u.index + 1 \in 1..n
              /\ u.id = first + u.index
              /\ u.hash = BlockTxs[row.hash][u.index + 1]
      BY <1>1, <3>1, TxsOfFacts
    <3>3. ASSUME NEW m \in 1..n
          PROVE  \E u \in TxsOf(row, first, n) : u.hash = BlockTxs[row.hash][m]
      BY TxsOfHas
    <3> QED BY <1>1, <3>2, <3>3 DEF n
  <2>4. \A h : h \in Earlier(b, i) <=> \E u \in f.txs : u.hash = h
    <3>1. \A h : h \in Earlier(b, i) <=>
             \/ h \in Earlier(b, 1)
             \/ \E m \in 1..(i - 1) : h = BlockTxs[b][m]
      BY <2>2, EarlierFacts
    <3>2. \A h : (\E m \in 1..(i - 1) : h = BlockTxs[b][m])
                     <=> \E u \in TxsOf(row, first, i - 1) : u.hash = h
      BY <2>3
    <3>3. \A h : (\E u \in f.txs : u.hash = h) <=>
                    \/ \E u \in d.txs : u.hash = h
                    \/ \E u \in TxsOf(row, first, i - 1) : u.hash = h
      BY <2>1
    <3> QED BY <3>1, <3>2, <3>3
  <2>5. t \in DOMAIN Inputs /\ Spendable(f, t) /\ \A u \in f.txs : u.hash # t
    BY <2>2, <2>4, LedgerSpendable DEF t
  <2>6. \A u \in f.txs : u.id # first + i - 1
    <3>1. ASSUME NEW u \in d.txs PROVE u.id # first + i - 1
      <4>1. u.id < first /\ u.id \in Nat
        BY DEF Above, Consistent, TxsKeyed, TxRecord
      <4> QED BY <1>1, <2>2, <4>1
    <3>2. ASSUME NEW u \in TxsOf(row, first, i - 1) PROVE u.id # first + i - 1
      <4>1. u.index + 1 \in 1..(i - 1) /\ u.id = first + u.index /\ u.index \in Nat
        BY <2>3 DEF TxRecord
      <4> QED BY <1>1, <2>2, <4>1
    <3> QED BY <2>1, <3>1, <3>2
  <2>7. after[i] = InsertTx(f, first + i - 1, id, i - 1, t)
    BY <1>3 DEF f, t
  <2>8. Consistent(after[i])
    BY <2>1, <2>2, <2>5, <2>6, <2>7, InsertTxConsistent
  <2>9. /\ after[i].txs = f.txs \cup {[id |-> first + i - 1, hash |-> t,
                                       block |-> id, index |-> i - 1]}
        /\ after[i].spans = f.spans /\ after[i].block_fees = f.block_fees
    BY <2>1, <2>7, InsertTxFields DEF Consistent
  <2>10. TxsOf(row, first, i) = TxsOf(row, first, i - 1)
            \cup {[id |-> first + i - 1, hash |-> t, block |-> id, index |-> i - 1]}
    <3>1. TxsOf(row, first, i) = TxsOf(row, first, i - 1)
             \cup {[id |-> first + i - 1, hash |-> BlockTxs[row.hash][i],
                    block |-> row.id, index |-> i - 1]}
      BY <2>2, TxsOfGrows
    <3> QED BY <1>1, <3>1 DEF t
  <2>11. after[i].txs = d.txs \cup TxsOf(row, first, i)
    BY <2>1, <2>9, <2>10
  <2> QED BY <1>2, <2>1, <2>8, <2>9, <2>11
<1>6. k \in S
  <2> HIDE DEF S
  <2> QED BY <1>2, <1>4, <1>5, CountingUp
<1> QED BY <1>3, <1>6

\* The tables of a set of rows hold the transactions of its blocks ...
LEMMA HeldHas ==
    ASSUME NEW d, NEW rs \in SUBSET Row, Held(d, rs),
           NEW r \in rs, NEW i \in 1..Len(BlockTxs[r.hash])
    PROVE  \E t \in d.txs : /\ t.id = d.spans[r.id].first + i - 1
                            /\ t.hash = BlockTxs[r.hash][i]
                            /\ t.block = r.id
<1> DEFINE first == d.spans[r.id].first
           k == Len(BlockTxs[r.hash])
<1>1. r \in Row /\ first \in Nat /\ k \in Nat
  BY BlockTxsFacts DEF Held, Row
<1>2. PICK t \in TxsOf(r, first, k) :
         t.id = first + i - 1 /\ t.hash = BlockTxs[r.hash][i]
  BY TxsOfHas
<1>3. t.block = r.id
  <2>1. k \in 0..Len(BlockTxs[r.hash])
    BY <1>1
  <2> HIDE DEF first, k
  <2> QED BY <1>1, <1>2, <2>1, TxsOfFacts
<1>4. t \in d.txs
  BY <1>2 DEF Held
<1> QED BY <1>2, <1>3, <1>4

\* ... and no others.
LEMMA HeldOnly ==
    ASSUME NEW d, NEW rs \in SUBSET Row, Held(d, rs), NEW t \in d.txs
    PROVE  \E r \in rs : /\ t.block = r.id
                         /\ t.index + 1 \in 1..Len(BlockTxs[r.hash])
                         /\ t.id = d.spans[r.id].first + t.index
                         /\ t.hash = BlockTxs[r.hash][t.index + 1]
<1>1. PICK r \in rs :
         t \in TxsOf(r, d.spans[r.id].first, Len(BlockTxs[r.hash]))
  BY DEF Held
<1> DEFINE first == d.spans[r.id].first
           k == Len(BlockTxs[r.hash])
<1>2. r \in Row /\ first \in Nat /\ k \in Nat
  BY BlockTxsFacts DEF Held, Row
<1>3. k \in 0..Len(BlockTxs[r.hash])
  BY <1>2
<1>4. t \in TxsOf(r, first, k)
  BY <1>1
<1>5. k = Len(BlockTxs[r.hash]) /\ first = d.spans[r.id].first
  OBVIOUS
<1> HIDE DEF first, k
<1>6. /\ t.block = r.id /\ t.index + 1 \in 1..k /\ t.id = first + t.index
      /\ t.hash = BlockTxs[r.hash][t.index + 1]
  BY <1>2, <1>3, <1>4, TxsOfFacts
<1> QED BY <1>5, <1>6

\* The history of the next block of a chain.
LEMMA NextLineage ==
    ASSUME NEW c, Linear(c), NEW b \in Blocks,
           c = <<>> => Parent(b) = NoBlock,
           c # <<>> => Parent(b) = Top(c).hash
    PROVE  /\ Len(c) \in Nat
           /\ Len(Lineage[b]) - 1 = Len(c)
           /\ \A i \in 1..Len(c) : Lineage[b][i] = c[i].hash
<1> DEFINE row == [id |-> FreshId(RowsOf(c)), hash |-> b]
           n == Len(c)
           more == Append(c, row)
<1>1. c \in Seq(Row) /\ n \in Nat
  BY ChainFacts DEF Linear
<1>2. RowsOf(c) \in SUBSET Row /\ IsFiniteSet(RowsOf(c))
  <2>1. RowsOf(c) \in SUBSET Row
    BY <1>1, ChainFacts DEF RowsOf
  <2>2. IsFiniteSet(1..n)
    BY <1>1, FS_Interval
  <2>3. [i \in 1..n |-> c[i]] \in Surjection(1..n, RowsOf(c))
    BY DEF Surjection, RowsOf
  <2> QED BY <2>1, <2>2, <2>3, FS_Surjection
<1>3. /\ row \in Row /\ row.hash = b
      /\ \A r \in RowsOf(c) : r.id # row.id
  BY <1>2, FreshIdFacts DEF Row
<1> HIDE DEF row
<1>4. Linear(more)
  BY <1>3, LinearPush
<1>5. /\ more \in Seq(Row) /\ Len(more) = n + 1
      /\ \A i \in 1..n : more[i] = c[i]
      /\ more[n + 1] = row
  BY <1>1, <1>3, AppendProperties
<1>6. n + 1 \in 1..Len(more) /\ \A j \in 1..n : j \in 1..(n + 1)
  BY <1>1, <1>5
<1>7. Len(Lineage[b]) = n + 1 /\ \A j \in 1..n : Lineage[b][j] = more[j].hash
  BY <1>3, <1>4, <1>5, <1>6 DEF Linear
<1> QED BY <1>1, <1>5, <1>7

\* What is earlier than the next block of a chain is what the tables hold.
LEMMA HeldIsEarlier ==
    ASSUME NEW c, Linear(c), NEW d, Held(d, RowsOf(c)), NEW b \in Blocks,
           c = <<>> => Parent(b) = NoBlock,
           c # <<>> => Parent(b) = Top(c).hash
    PROVE  \A t : t \in Earlier(b, 1) <=> \E u \in d.txs : u.hash = t
<1>1. /\ Len(c) \in Nat /\ Len(Lineage[b]) - 1 = Len(c)
      /\ \A i \in 1..Len(c) : Lineage[b][i] = c[i].hash
  BY NextLineage
<1>2. c \in Seq(Row) /\ RowsOf(c) \in SUBSET Row
  BY ChainFacts DEF Linear, RowsOf
<1>3. \A t : t \in Earlier(b, 1) <=>
          \E i \in 1..(Len(Lineage[b]) - 1) :
             \E m \in 1..Len(BlockTxs[Lineage[b][i]]) :
                t = BlockTxs[Lineage[b][i]][m]
  BY EarlierFacts
<1>4. ASSUME NEW t \in Earlier(b, 1) PROVE \E u \in d.txs : u.hash = t
  <2>1. PICK i \in 1..Len(c) : \E m \in 1..Len(BlockTxs[c[i].hash]) :
                                  t = BlockTxs[c[i].hash][m]
    BY <1>1, <1>3
  <2>2. PICK m \in 1..Len(BlockTxs[c[i].hash]) : t = BlockTxs[c[i].hash][m]
    BY <2>1
  <2>3. c[i] \in RowsOf(c)
    BY DEF RowsOf
  <2> QED BY <1>2, <2>2, <2>3, HeldHas
<1>5. ASSUME NEW u \in d.txs PROVE u.hash \in Earlier(b, 1)
  <2>1. PICK r \in RowsOf(c) : /\ u.index + 1 \in 1..Len(BlockTxs[r.hash])
                               /\ u.hash = BlockTxs[r.hash][u.index + 1]
    BY <1>2, HeldOnly
  <2>2. PICK i \in 1..Len(c) : r = c[i]
    BY DEF RowsOf
  <2>3. Lineage[b][i] = r.hash /\ i \in 1..(Len(Lineage[b]) - 1)
    BY <1>1, <2>2
  <2> QED BY <1>3, <2>1, <2>3
<1> QED BY <1>4, <1>5

\* What revert_block leaves of each table.
LEMMA RevertTablesFields ==
    ASSUME NEW d, Shape(d), NEW id
    PROVE  LET undone == RevertTxs(d, id, d.spans[id].count)
               e      == RevertTables(d, id)
           IN  /\ Shape(e)
               /\ e.txs = {t \in d.txs : t.block # id}
               /\ e.outputs = undone.outputs
               /\ e.inputs = undone.inputs
               /\ e.addresses_outputs = undone.addresses_outputs
               /\ e.addresses_txs = undone.addresses_txs
               /\ DOMAIN e.spans = DOMAIN d.spans \ {id}
               /\ \A j \in DOMAIN d.spans \ {id} : e.spans[j] = d.spans[j]
<1> DEFINE undone == RevertTxs(d, id, d.spans[id].count)
           left == {t \in d.txs : t.block # id}
           spans == [j \in DOMAIN d.spans \ {id} |-> d.spans[j]]
           e == RevertTables(d, id)
<1>1. Shape(undone) /\ undone.txs = d.txs /\ undone.spans = d.spans
  BY RevertTxFields DEF RevertTxs
<1>2. e = [undone EXCEPT !.txs = {t \in @ : t.block # id},
                         !.spans = [j \in DOMAIN @ \ {id} |-> @[j]]]
  BY DEF RevertTables
<1> HIDE DEF undone, e
<1>3. e = [undone EXCEPT !.txs = left, !.spans = spans]
  BY <1>1, <1>2
<1>4. /\ DOMAIN spans = DOMAIN d.spans \ {id}
      /\ \A j \in DOMAIN d.spans \ {id} : spans[j] = d.spans[j]
  OBVIOUS
<1> HIDE DEF left, spans
<1>5. e = [txs |-> left, outputs |-> undone.outputs, inputs |-> undone.inputs,
           addresses_outputs |-> undone.addresses_outputs,
           addresses_txs |-> undone.addresses_txs,
           block_fees |-> undone.block_fees, spans |-> spans]
  <2>1. undone = [txs |-> undone.txs, outputs |-> undone.outputs,
                  inputs |-> undone.inputs,
                  addresses_outputs |-> undone.addresses_outputs,
                  addresses_txs |-> undone.addresses_txs,
                  block_fees |-> undone.block_fees, spans |-> undone.spans]
    BY <1>1 DEF Shape
  <2> QED BY <1>3, <2>1
<1>6. /\ Shape(e) /\ e.txs = left
      /\ e.outputs = undone.outputs /\ e.inputs = undone.inputs
      /\ e.addresses_outputs = undone.addresses_outputs
      /\ e.addresses_txs = undone.addresses_txs
      /\ e.spans = spans
  BY <1>5 DEF Shape
<1> QED BY <1>4, <1>6 DEF undone, left, e

LEMMA TxsOfBlock ==
    ASSUME NEW r, NEW first, NEW k, NEW t \in TxsOf(r, first, k)
    PROVE  t.block = r.id
BY DEF TxsOf

\* The ids a block has are those of its transactions.
LEMMA IdsOfBlock ==
    ASSUME NEW c, Linear(c), NEW d, Held(d, RowsOf(c)), NEW r \in RowsOf(c),
           NEW t \in d.txs
    PROVE  /\ LastIds(d.spans[r.id], d.spans[r.id].count) =
                 d.spans[r.id].first..(d.spans[r.id].first
                                         + Len(BlockTxs[r.hash]) - 1)
           /\ t.block = r.id <=>
                 t.id \in LastIds(d.spans[r.id], d.spans[r.id].count)
<1> DEFINE first == d.spans[r.id].first
           n == Len(BlockTxs[r.hash])
<1>1. c \in Seq(Row) /\ RowsOf(c) \in SUBSET Row
  BY ChainFacts DEF Linear, RowsOf
<1>2. r \in Row /\ first \in Nat /\ n \in Nat /\ d.spans[r.id].count = n
  BY <1>1, BlockTxsFacts DEF Held, Row
<1>3. LastIds(d.spans[r.id], d.spans[r.id].count) = first..(first + n - 1)
  BY <1>2 DEF LastIds
<1>4. t \in TxRecord
  BY DEF Held, Consistent, TxsKeyed
<1>5. ASSUME t.block = r.id PROVE t.id \in first..(first + n - 1)
  <2>1. PICK q \in RowsOf(c) : /\ t.block = q.id
                               /\ t.index + 1 \in 1..Len(BlockTxs[q.hash])
                               /\ t.id = d.spans[q.id].first + t.index
    BY <1>1, HeldOnly
  <2>2. q = r
    <3>1. PICK i \in 1..Len(c) : q = c[i]
      BY DEF RowsOf
    <3>2. PICK j \in 1..Len(c) : r = c[j]
      BY DEF RowsOf
    <3>3. c[i].id = c[j].id
      BY <1>5, <2>1, <3>1, <3>2
    <3> QED BY <3>1, <3>2, <3>3 DEF Linear
  <2>3. t.index + 1 \in 1..n /\ t.id = first + t.index
    BY <2>1, <2>2
  <2>4. t.index \in Nat /\ t.id \in Nat
    BY <1>4 DEF TxRecord
  <2> HIDE DEF first, n
  <2> QED BY <1>2, <2>3, <2>4
<1>6. ASSUME t.id \in first..(first + n - 1) PROVE t.block = r.id
  <2> DEFINE i == t.id - first + 1
  <2>1. i \in 1..n /\ first + i - 1 = t.id
    <3>1. t.id \in Nat
      BY <1>4 DEF TxRecord
    <3> HIDE DEF first, n
    <3> QED BY <1>2, <1>6, <3>1
  <2> HIDE DEF i
  <2>2. PICK u \in d.txs : u.id = first + i - 1 /\ u.block = r.id
    BY <1>1, <2>1, HeldHas
  <2>3. u = t
    BY <2>1, <2>2 DEF Held, Consistent, TxsKeyed
  <2> QED BY <2>2, <2>3
<1> QED BY <1>3, <1>5, <1>6

\* A block below the top of the chain spends nothing of the top.
LEMMA SpendsBelow ==
    ASSUME NEW c, Linear(c), NEW d, Held(d, RowsOf(c)), NEW t \in d.txs,
           NEW k \in DOMAIN Inputs[t.hash], Inputs[t.hash][k] # NullInput,
           NEW m \in 1..Len(c), t.block = c[m].id
    PROVE  \E u \in d.txs : /\ u.hash = Inputs[t.hash][k].tx
                            /\ \E i \in 1..m : u.block = c[i].id
<1> DEFINE b == c[m].hash
           j == t.index + 1
           tx == Inputs[t.hash][k].tx
<1>1. /\ c \in Seq(Row) /\ RowsOf(c) \in SUBSET Row /\ Len(c) \in Nat
      /\ \A i \in 1..Len(c) : c[i] \in RowsOf(c)
  BY ChainFacts DEF Linear, RowsOf
<1>2. c[m] \in Row /\ b \in Blocks /\ m \in Nat
  BY <1>1 DEF Row
<1>3. j \in 1..Len(BlockTxs[b]) /\ t.hash = BlockTxs[b][j]
  <2>1. PICK r \in RowsOf(c) : /\ t.block = r.id
                               /\ t.index + 1 \in 1..Len(BlockTxs[r.hash])
                               /\ t.hash = BlockTxs[r.hash][t.index + 1]
    BY <1>1, HeldOnly
  <2>2. r = c[m]
    BY <2>1 DEF Linear, RowsOf
  <2> QED BY <2>1, <2>2
<1> HIDE DEF j
<1>4. tx \in Earlier(b, j)
  <2>1. j \in DOMAIN BlockTxs[b]
    BY <1>2, <1>3, BlockTxsFacts
  <2> QED BY <1>2, <1>3, <2>1, LedgerAssumption DEF LedgerAssumption
<1>5. Len(Lineage[b]) = m /\ \A i \in 1..m : Lineage[b][i] = c[i].hash
  BY DEF Linear
<1>6. /\ Len(BlockTxs[b]) \in Nat /\ j \in Nat
      /\ \A i \in 1..(j - 1) : i \in 1..Len(BlockTxs[b])
  BY <1>2, <1>3, BlockTxsFacts
<1> HIDE DEF tx, b
<1>7. CASE \E i \in 1..(j - 1) : tx = BlockTxs[b][i]
  <2>1. PICK i \in 1..(j - 1) : tx = BlockTxs[b][i]
    BY <1>7
  <2>2. i \in 1..Len(BlockTxs[c[m].hash]) /\ BlockTxs[b][i] = BlockTxs[c[m].hash][i]
    BY <1>6 DEF b
  <2>3. PICK u \in d.txs : u.hash = BlockTxs[c[m].hash][i] /\ u.block = c[m].id
    BY <1>1, <2>2, HeldHas
  <2>4. u.hash = tx /\ m \in 1..m
    BY <1>2, <2>1, <2>2, <2>3
  <2> QED BY <2>3, <2>4 DEF tx
<1>8. CASE tx \in Earlier(b, 1)
  <2>1. PICK i \in 1..(m - 1) : \E n \in 1..Len(BlockTxs[Lineage[b][i]]) :
                                   tx = BlockTxs[Lineage[b][i]][n]
    BY <1>2, <1>5, <1>8, EarlierFacts
  <2>2. i \in 1..m /\ i \in 1..Len(c) /\ Lineage[b][i] = c[i].hash
    BY <1>1, <1>2, <1>5
  <2>3. PICK n \in 1..Len(BlockTxs[c[i].hash]) : tx = BlockTxs[c[i].hash][n]
    BY <2>1, <2>2
  <2>4. PICK u \in d.txs : u.hash = BlockTxs[c[i].hash][n] /\ u.block = c[i].id
    BY <1>1, <2>2, HeldHas
  <2> QED BY <2>2, <2>3, <2>4 DEF tx
<1> QED BY <1>2, <1>4, <1>6, <1>7, <1>8, EarlierFacts

\* Reverting the top block leaves the tables of the chain below it.
LEMMA RevertHeld ==
    ASSUME NEW c, Linear(c), c # <<>>, NEW d, Held(d, RowsOf(c))
    PROVE  Held(RevertTables(d, Top(c).id), RowsOf(SubSeq(c, 1, Len(c) - 1)))
<1> DEFINE top == Top(c)
           n == Len(c)
           rs == RowsOf(c)
           left == RowsOf(SubSeq(c, 1, n - 1))
           ids == LastIds(d.spans[top.id], d.spans[top.id].count)
           undone == RevertTx(d, ids)
           e == RevertTables(d, top.id)
<1>1. /\ c \in Seq(Row) /\ rs \in SUBSET Row /\ n \in Nat \ {0}
      /\ top \in rs /\ top = c[n] /\ n \in 1..n
      /\ \A i \in 1..n : c[i] \in rs
  BY ChainFacts, TopFacts DEF Linear, RowsOf
<1>2. left = {r \in rs : r.id # top.id}
  BY LinearPop DEF DeleteRow
<1>3. Consistent(d) /\ Shape(d)
  BY DEF Held, Consistent
<1>4. undone = RevertTxs(d, top.id, d.spans[top.id].count)
  BY DEF RevertTxs
<1> HIDE DEF undone, e, left, ids
<1>5. /\ Shape(e)
      /\ e.txs = {t \in d.txs : t.block # top.id}
      /\ e.outputs = undone.outputs
      /\ e.inputs = undone.inputs
      /\ e.addresses_outputs = undone.addresses_outputs
      /\ e.addresses_txs = undone.addresses_txs
      /\ DOMAIN e.spans = DOMAIN d.spans \ {top.id}
      /\ \A j \in DOMAIN d.spans \ {top.id} : e.spans[j] = d.spans[j]
  BY <1>3, <1>4, RevertTablesFields DEF e
<1>6. \A t \in d.txs : t.block = top.id <=> t.id \in ids
  BY <1>1, IdsOfBlock DEF ids
<1>7. e.txs = {t \in d.txs : t.id \notin ids}
  BY <1>5, <1>6
<1>8. ASSUME NEW t \in e.txs, NEW k \in DOMAIN Inputs[t.hash],
             Inputs[t.hash][k] # NullInput
      PROVE  \E u \in e.txs : u.hash = Inputs[t.hash][k].tx
  <2>1. t \in d.txs /\ t.block # top.id
    BY <1>5
  <2>2. PICK r \in rs : t.block = r.id
    BY <1>1, <2>1, HeldOnly
  <2>3. PICK m \in 1..n : r = c[m]
    BY DEF RowsOf
  <2>4. m # n /\ m \in Nat
    BY <1>1, <2>1, <2>2, <2>3
  <2>5. PICK u \in d.txs : /\ u.hash = Inputs[t.hash][k].tx
                           /\ \E i \in 1..m : u.block = c[i].id
    BY <1>8, <2>1, <2>2, <2>3, SpendsBelow
  <2>6. PICK i \in 1..m : u.block = c[i].id
    BY <2>5
  <2>7. c[i].id # c[n].id
    BY <1>1, <2>3, <2>4, <2>6 DEF Linear
  <2> QED BY <1>1, <1>5, <2>5, <2>6, <2>7
<1>9. Consistent(e)
  BY <1>3, <1>5, <1>7, <1>8, RevertConsistent DEF undone
<1>10. DOMAIN e.spans = {r.id : r \in left}
  BY <1>2, <1>5 DEF Held
<1>11. \A r \in left : r \in rs /\ r.id # top.id /\ e.spans[r.id] = d.spans[r.id]
  BY <1>2, <1>5 DEF Held
<1>12. \A r \in left : /\ e.spans[r.id].first \in Nat
                       /\ e.spans[r.id].count = Len(BlockTxs[r.hash])
  BY <1>11 DEF Held
<1> DEFINE Of(r) == TxsOf(r, d.spans[r.id].first, Len(BlockTxs[r.hash]))
           Kept(r) == TxsOf(r, e.spans[r.id].first, Len(BlockTxs[r.hash]))
<1>13. d.txs = UNION {Of(r) : r \in rs}
  BY DEF Held
<1>14. \A r \in rs : \A t \in Of(r) : t.block = r.id
  BY TxsOfBlock
<1>15. \A r \in left : Kept(r) = Of(r)
  BY <1>11
<1>16. e.txs = UNION {Kept(r) : r \in left}
  <2> HIDE DEF Of, Kept, rs, top
  <2>1. ASSUME NEW t \in e.txs PROVE \E r \in left : t \in Kept(r)
    <3>1. PICK r \in rs : t \in Of(r)
      BY <1>5, <1>13
    <3>2. r \in left
      BY <1>2, <1>5, <1>14, <3>1
    <3> QED BY <1>15, <3>1, <3>2
  <2>2. ASSUME NEW r \in left, NEW t \in Kept(r) PROVE t \in e.txs
    <3>1. r \in rs /\ r.id # top.id /\ t \in Of(r)
      BY <1>2, <1>15
    <3>2. t \in d.txs /\ t.block = r.id
      BY <1>13, <1>14, <3>1
    <3> QED BY <1>5, <3>1, <3>2
  <2> QED BY <2>1, <2>2
<1> QED BY <1>9, <1>10, <1>12, <1>16 DEF Held, e, left

\* Inserting the next block of a chain.
LEMMA InsertHeld ==
    ASSUME NEW c, Linear(c), NEW d, Held(d, RowsOf(c)), NEW b \in Blocks,
           c = <<>> => Parent(b) = NoBlock,
           c # <<>> => Parent(b) = Top(c).hash,
           NEW first, Above(d, first),
           NEW row \in Row, row.hash = b, \A r \in RowsOf(c) : r.id # row.id
    PROVE  LET e == InsertTxs(d, row.id, b, first, Len(BlockTxs[b])) IN
           /\ Held(e, RowsOf(c) \cup {row})
           /\ Above(e, first + Len(BlockTxs[b]))
<1> DEFINE rs == RowsOf(c)
           n == Len(BlockTxs[b])
           e == InsertTxs(d, row.id, b, first, n)
           opened == Opened(d, row.id, b, first)
           all == rs \cup {row}
<1>1. /\ first \in Nat /\ n \in Nat /\ n \in 0..n /\ row.id \in Nat
      /\ row = [id |-> row.id, hash |-> b]
      /\ Consistent(d) /\ Shape(d)
  BY BlockTxsFacts DEF Above, Held, Consistent, Row
<1>2. \A t : t \in Earlier(b, 1) <=> \E u \in d.txs : u.hash = t
  BY HeldIsEarlier
<1>3. /\ Consistent(e) /\ e.txs = d.txs \cup TxsOf(row, first, n)
      /\ e.spans = opened.spans
  BY <1>1, <1>2, InsertTxsFacts
<1>4. /\ DOMAIN opened.spans = DOMAIN d.spans \cup {row.id}
      /\ opened.spans[row.id].first = first
      /\ opened.spans[row.id].count = n
      /\ \A j \in DOMAIN d.spans \ {row.id} : opened.spans[j] = d.spans[j]
  BY <1>1, OpenedFields
<1>5. /\ DOMAIN d.spans = {r.id : r \in rs}
      /\ \A r \in rs : /\ d.spans[r.id].first \in Nat
                       /\ d.spans[r.id].count = Len(BlockTxs[r.hash])
      /\ d.txs = UNION {TxsOf(r, d.spans[r.id].first, Len(BlockTxs[r.hash])) :
                        r \in rs}
  BY DEF Held
<1> HIDE DEF e, opened, rs
<1>6. \A r \in rs : e.spans[r.id] = d.spans[r.id]
  BY <1>3, <1>4, <1>5 DEF rs
<1>7. e.spans[row.id].first = first /\ e.spans[row.id].count = n
  BY <1>3, <1>4
<1>8. DOMAIN e.spans = {r.id : r \in all}
  BY <1>3, <1>4, <1>5
<1>9. \A r \in all : /\ e.spans[r.id].first \in Nat
                     /\ e.spans[r.id].count = Len(BlockTxs[r.hash])
  BY <1>1, <1>5, <1>6, <1>7
<1> DEFINE Of(r) == TxsOf(r, d.spans[r.id].first, Len(BlockTxs[r.hash]))
           Now(r) == TxsOf(r, e.spans[r.id].first, Len(BlockTxs[r.hash]))
<1>10. \A r \in rs : Now(r) = Of(r)
  BY <1>6
<1>11. Now(row) = TxsOf(row, first, n)
  BY <1>7
<1>12. e.txs = UNION {Now(r) : r \in all}
  <2>1. d.txs = UNION {Of(r) : r \in rs}
    BY <1>5
  <2> HIDE DEF Of, Now
  <2> QED BY <1>3, <1>10, <1>11, <2>1
<1>13. Held(e, all)
  BY <1>3, <1>8, <1>9, <1>12 DEF Held
<1>14. Above(e, first + n)
  <2>1. \A t \in d.txs : t.id < first /\ t.id \in Nat
    BY <1>1 DEF Above, Consistent, TxsKeyed, TxRecord
  <2>2. \A t \in TxsOf(row, first, n) : /\ t \in TxRecord
                                        /\ t.index + 1 \in 1..n
                                        /\ t.id = first + t.index
    <3> DEFINE m == n
    <3>1. m \in 0..Len(BlockTxs[row.hash]) /\ m = n
      BY <1>1
    <3> HIDE DEF m, n
    <3>2. \A t \in TxsOf(row, first, m) : /\ t \in TxRecord
                                          /\ t.index + 1 \in 1..m
                                          /\ t.id = first + t.index
      BY <1>1, <3>1, TxsOfFacts
    <3> QED BY <3>1, <3>2
  <2> HIDE DEF n
  <2>3. \A t \in TxsOf(row, first, n) : t.id < first + n
    <3> SUFFICES ASSUME NEW t \in TxsOf(row, first, n) PROVE t.id < first + n
      OBVIOUS
    <3>1. t.index \in Nat /\ t.index + 1 \in 1..n /\ t.id = first + t.index
      BY <2>2 DEF TxRecord
    <3> QED BY <1>1, <3>1
  <2>4. \A t \in d.txs : t.id < first + n
    BY <1>1, <2>1
  <2> QED BY <1>1, <1>3, <2>3, <2>4 DEF Above
<1> QED BY <1>13, <1>14 DEF e, rs

\* It opens the span of the block and leaves those of the others.
LEMMA InsertSpans ==
    ASSUME NEW c, Linear(c), NEW d, Held(d, RowsOf(c)), NEW b \in Blocks,
           c = <<>> => Parent(b) = NoBlock,
           c # <<>> => Parent(b) = Top(c).hash,
           NEW first, Above(d, first),
           NEW id \in Nat, NEW r \in RowsOf(c), r.id # id
    PROVE  InsertTxs(d, id, b, first, Len(BlockTxs[b])).spans[r.id]
              = d.spans[r.id]
<1> DEFINE n == Len(BlockTxs[b])
           opened == Opened(d, id, b, first)
<1>1. n \in 0..n /\ Consistent(d) /\ Shape(d)
  BY BlockTxsFacts DEF Held, Consistent
<1>2. \A t : t \in Earlier(b, 1) <=> \E u \in d.txs : u.hash = t
  BY HeldIsEarlier
<1>3. InsertTxs(d, id, b, first, n).spans = opened.spans
  <2> DEFINE e == InsertTxs(d, id, b, first, n)
             row == [id |-> id, hash |-> b]
  <2> HIDE DEF row
  <2>1. /\ Consistent(e) /\ e.txs = d.txs \cup TxsOf(row, first, n)
        /\ e.spans = opened.spans
    BY <1>1, <1>2, InsertTxsFacts DEF row
  <2> QED BY <2>1
<1>4. r.id \in DOMAIN d.spans \ {id}
  BY DEF Held
<1>5. opened.spans[r.id] = d.spans[r.id]
  <2> HIDE DEF n
  <2>1. \A j \in DOMAIN d.spans \ {id} :
            Opened(d, id, b, first).spans[j] = d.spans[j]
    BY <1>1, OpenedFields
  <2> QED BY <1>4, <2>1
<1> QED BY <1>3, <1>5

\* set_fee_for_block changes the fee of its block and nothing else.
LEMMA SetFeeFields ==
    ASSUME NEW d, Shape(d), NEW id, NEW size
    PROVE  LET e == SetFee(d, id, size) IN
           /\ Shape(e)
           /\ e.txs = d.txs /\ e.outputs = d.outputs /\ e.inputs = d.inputs
           /\ e.addresses_outputs = d.addresses_outputs
           /\ e.addresses_txs = d.addresses_txs
           /\ e.spans = d.spans
           /\ DOMAIN e.block_fees = DOMAIN d.block_fees \cup {id}
           /\ e.block_fees = [i \in DOMAIN e.block_fees |-> e.block_fees[i]]
           /\ e.block_fees[id] = AverageFee(d, id, size)
           /\ \A i \in DOMAIN d.block_fees \ {id} :
                 e.block_fees[i] = d.block_fees[i]
<1> DEFINE fees == [i \in DOMAIN d.block_fees \cup {id} |->
                       IF i = id THEN AverageFee(d, id, size)
                       ELSE d.block_fees[i]]
           e == SetFee(d, id, size)
<1>1. e = [d EXCEPT !.block_fees = fees]
  BY DEF SetFee
<1>2. d = [txs |-> d.txs, outputs |-> d.outputs, inputs |-> d.inputs,
           addresses_outputs |-> d.addresses_outputs,
           addresses_txs |-> d.addresses_txs,
           block_fees |-> d.block_fees, spans |-> d.spans]
  BY DEF Shape
<1>3. /\ DOMAIN fees = DOMAIN d.block_fees \cup {id}
      /\ fees = [i \in DOMAIN fees |-> fees[i]]
      /\ fees[id] = AverageFee(d, id, size)
      /\ \A i \in DOMAIN d.block_fees \ {id} : fees[i] = d.block_fees[i]
  OBVIOUS
<1> HIDE DEF e, fees
<1>4. e = [txs |-> d.txs, outputs |-> d.outputs, inputs |-> d.inputs,
           addresses_outputs |-> d.addresses_outputs,
           addresses_txs |-> d.addresses_txs,
           block_fees |-> fees, spans |-> d.spans]
  BY <1>1, <1>2
<1>5. Shape(e) /\ e.block_fees = fees
  BY <1>4 DEF Shape
<1> QED BY <1>3, <1>4, <1>5 DEF e

\* A fee is no part of what Held says.
LEMMA SetFeeHeld ==
    ASSUME NEW d, NEW rs, Held(d, rs), NEW id, NEW size
    PROVE  LET e == SetFee(d, id, size) IN
           /\ Held(e, rs)
           /\ e.txs = d.txs
           /\ e.spans = d.spans
<1> DEFINE e == SetFee(d, id, size)
<1>4. /\ Shape(e) /\ e.txs = d.txs /\ e.outputs = d.outputs
      /\ e.inputs = d.inputs
      /\ e.addresses_outputs = d.addresses_outputs
      /\ e.addresses_txs = d.addresses_txs
      /\ e.spans = d.spans
  <2>1. Shape(d)
    BY DEF Held, Consistent
  <2>2. /\ Shape(e)
        /\ e.txs = d.txs /\ e.outputs = d.outputs /\ e.inputs = d.inputs
        /\ e.addresses_outputs = d.addresses_outputs
        /\ e.addresses_txs = d.addresses_txs
        /\ e.spans = d.spans
        /\ DOMAIN e.block_fees = DOMAIN d.block_fees \cup {id}
        /\ e.block_fees = [i \in DOMAIN e.block_fees |-> e.block_fees[i]]
        /\ e.block_fees[id] = AverageFee(d, id, size)
        /\ \A i \in DOMAIN d.block_fees \ {id} :
              e.block_fees[i] = d.block_fees[i]
    BY <2>1, SetFeeFields
  <2> HIDE DEF e
  <2> QED BY <2>2
<1> HIDE DEF e
<1>5. Consistent(e)
  BY <1>4, SameTables DEF Held
<1>6. Held(e, rs)
  BY <1>4, <1>5 DEF Held
<1> QED BY <1>4, <1>6 DEF e

\* Every output the next block spends is found, and its ids are free.
LEMMA NextIsInsertable ==
    ASSUME NEW c, Linear(c), NEW d, Held(d, RowsOf(c)), NEW b \in Blocks,
           c = <<>> => Parent(b) = NoBlock,
           c # <<>> => Parent(b) = Top(c).hash,
           NEW first, Above(d, first)
    PROVE  Insertable(d, b, first, Len(BlockTxs[b]))
<1> DEFINE n == Len(BlockTxs[b])
<1>1. /\ first \in Nat /\ n \in Nat /\ Consistent(d)
      /\ TxsKeyed(d) /\ OutputsKeyed(d)
  BY BlockTxsFacts DEF Above, Held, Consistent
<1>2. \A t : t \in Earlier(b, 1) <=> \E u \in d.txs : u.hash = t
  BY HeldIsEarlier
<1>3. ASSUME NEW i \in 1..n, NEW u \in d.txs PROVE u.id # first + i - 1
  <2>1. u.id < first /\ u.id \in Nat
    BY <1>1 DEF Above, TxsKeyed, TxRecord
  <2> HIDE DEF n
  <2> QED BY <1>1, <2>1
<1>4. ASSUME NEW i \in 1..n, NEW p \in Range(Inputs[BlockTxs[b][i]]) \ {NullInput}
      PROVE  \/ FindOutput(d, p) # {}
             \/ \E e \in 1..(i - 1) : /\ BlockTxs[b][e] = p.tx
                                      /\ p.n \in DOMAIN Outputs[p.tx]
  <2> DEFINE t == BlockTxs[b][i]
  <2>1. t \in DOMAIN Inputs /\ i \in DOMAIN BlockTxs[b]
    BY BlockTxsFacts
  <2>2. PICK k \in DOMAIN Inputs[t] : p = Inputs[t][k]
    BY DEF Range
  <2>3. p.tx \in Earlier(b, i) /\ p.n \in DOMAIN Outputs[p.tx]
    BY <2>1, <2>2, LedgerAssumption DEF LedgerAssumption
  <2>4. p = [tx |-> p.tx, n |-> p.n]
    BY <2>1, <2>2, TxFacts
  <2>5. i \in Nat
    BY <1>1
  <2>6. p.tx \in Earlier(b, 1) \/ \E m \in 1..(i - 1) : p.tx = BlockTxs[b][m]
    BY <2>3, <2>5, EarlierFacts
  <2>7. CASE p.tx \in Earlier(b, 1)
    <3>1. PICK u \in d.txs : u.hash = p.tx
      BY <1>2, <2>7
    <3>2. FindOutput(d, [tx |-> u.hash, n |-> p.n]) # {}
      <4> DEFINE m == p.n
      <4>1. m \in DOMAIN Outputs[u.hash]
        BY <2>3, <3>1
      <4> HIDE DEF m
      <4>2. \E o \in d.outputs : FindOutput(d, [tx |-> u.hash, n |-> m]) = {o}
        BY <1>1, <4>1, FindOutputFacts
      <4> QED BY <4>2 DEF m
    <3> QED BY <2>4, <3>1, <3>2
  <2> QED BY <2>3, <2>6, <2>7
<1> QED BY <1>3, <1>4 DEF Insertable

\* The timestamp index has the spans of the rows, without the block of a push
\* that has not finished; a push that reverts blocks will reload it.
Timed ==
    /\ pc = "idle" => timestamp_index = ReloadedIndex(db, rows)
    /\ pc = "head" /\ call = NoCall => timestamp_index = ReloadedIndex(db, rows)
    /\ pc = "insert" /\ ~call.reorg => /\ call.reverts = <<>>
                                       /\ timestamp_index = ReloadedIndex(db, rows)
    /\ pc \in {"add", "head"} /\ call # NoCall =>
          /\ NewRow \in rows
          /\ ~call.reorg =>
                timestamp_index = ReloadedIndex(db, rows \ {NewRow})

Owned(d) == \A o \in d.outputs : \E t \in d.txs : t.id = o.tx

TablesInv ==
    /\ FreshInv
    /\ Held(disk_db, disk.rows)
    /\ pc = "down" => db = disk_db /\ call = NoCall
    /\ pc \in {"idle", "insert", "add", "head"} =>
          Held(db, rows) /\ Above(db, next_tx_id)
    /\ pc = "failed" => Owned(db)
    /\ Timed

LEMMA HeldIsOwned ==
    ASSUME NEW d, Consistent(d)
    PROVE  Owned(d)
BY DEF Owned, Consistent, OutputsKeyed

\* The chain and the tables of a push in progress.
LEMMA PushingFacts ==
    ASSUME TablesInv, pc = "insert", call.reverts = <<>>
    PROVE  /\ Linear(blockchain) /\ rows = RowsOf(blockchain)
           /\ Held(db, RowsOf(blockchain)) /\ Above(db, next_tx_id)
           /\ call \in Call /\ call.block \in Blocks
           /\ blockchain = <<>> => Parent(call.block) = NoBlock
           /\ blockchain # <<>> => Parent(call.block) = Top(blockchain).hash
           /\ rows \in SUBSET Row /\ FreshId(rows) \in Nat
           /\ \A r \in rows : r.id < FreshId(rows) /\ r.id \in Nat
<1>1. FreshInv /\ IInv /\ Held(db, rows) /\ Above(db, next_tx_id)
  BY DEF TablesInv, FreshInv
<1>2. Linear(blockchain) /\ rows = RowsOf(blockchain)
  BY <1>1 DEF FreshInv
<1>3. call \in Call /\ call.block \in Blocks
  BY <1>1 DEF IInv, Pushing, Call
<1>4. rows \in SUBSET Row /\ IsFiniteSet(rows)
  BY <1>1 DEF IInv, TypeOK
<1>5. FreshId(rows) \in Nat /\ \A r \in rows : r.id < FreshId(rows) /\ r.id \in Nat
  BY <1>4, FreshIdFacts DEF Row
<1>6. blockchain = <<>> => Parent(call.block) = NoBlock
  BY <1>1 DEF FreshInv
<1>7. blockchain # <<>> => Parent(call.block) = Top(blockchain).hash
  BY <1>1, ParentIsTop
<1> QED BY <1>1, <1>2, <1>3, <1>4, <1>5, <1>6, <1>7

\* Rows with the same spans give the same timestamps.
LEMMA SameSpans ==
    ASSUME NEW d, NEW e, NEW rs, \A r \in rs : e.spans[r.id] = d.spans[r.id]
    PROVE  ReloadedIndex(e, rs) = ReloadedIndex(d, rs)
BY DEF ReloadedIndex, Span

LEMMA EmptyHeld == Held(NoTables, {})
<1>1. /\ Shape(NoTables)
      /\ NoTables.txs = {} /\ NoTables.outputs = {} /\ NoTables.inputs = {}
      /\ NoTables.addresses_outputs = {} /\ NoTables.addresses_txs = {}
      /\ NoTables.spans = EmptyMap
  BY DEF NoTables, Shape
<1> HIDE DEF NoTables
<1>2. TxsKeyed(NoTables) /\ OutputsKeyed(NoTables) /\ InputsKeyed(NoTables)
  BY <1>1, FS_EmptySet DEF TxsKeyed, OutputsKeyed, InputsKeyed
<1>3. Marked(NoTables) /\ Related(NoTables) /\ Recorded(NoTables)
  BY <1>1 DEF Marked, Related, Recorded
<1>4. DOMAIN NoTables.spans = {}
  BY <1>1 DEF EmptyMap
<1> QED BY <1>1, <1>2, <1>3, <1>4 DEF Held, Consistent

LEMMA TablesInit ==
    InitRows = {} /\ InitTables = NoTables /\ IndexInit => TablesInv
<1> SUFFICES ASSUME InitRows = {}, InitTables = NoTables, IndexInit
             PROVE  TablesInv
  OBVIOUS
<1>1. FreshInv
  BY FreshInit DEF IndexInit
<1>2. /\ db = NoTables /\ disk_db = NoTables /\ disk.rows = {}
      /\ pc = "down" /\ call = NoCall
  BY DEF IndexInit, Init
<1> QED BY <1>1, <1>2, EmptyHeld DEF TablesInv, Timed

\* The committed rows and the rows read are what the chain of the index says;
\* its own actions keep FreshInv.
LEMMA OpenTables ==
    ASSUME TablesInv, Open, FreshInv'
    PROVE  TablesInv'
<1>1. /\ pc = "down" /\ rows = disk.rows /\ db = disk_db /\ call = NoCall
      /\ Held(disk_db, disk.rows)
  BY DEF TablesInv, FreshInv, Open, StartEmpty, StartLoad
<1>2. /\ pc' \in {"idle", "head"} /\ UNCHANGED <<rows, call, db, disk_db>>
      /\ disk' = [disk EXCEPT !.head = {}]
      /\ next_tx_id' = FreshId(db.txs)
      /\ timestamp_index' = ReloadedIndex(db, rows)
  BY DEF Open, StartEmpty, StartLoad, tableVars
<1>3. disk'.rows = disk.rows
  BY <1>2 DEF TablesInv, FreshInv, IInv, TypeOK
<1>4. Above(db, FreshId(db.txs))
  <2>1. IsFiniteSet(db.txs) /\ \A t \in db.txs : t.id \in Nat
    BY <1>1 DEF Held, Consistent, TxsKeyed, TxRecord
  <2> QED BY <2>1, FreshAbove DEF Above
<1>5. Above(db', next_tx_id') /\ Held(db', rows') /\ Held(disk_db', disk'.rows)
  BY <1>1, <1>2, <1>3, <1>4
<1>6. Timed'
  BY <1>1, <1>2 DEF Timed
<1> QED BY <1>2, <1>5, <1>6 DEF TablesInv

LEMMA PushTables ==
    ASSUME TablesInv, NEW b \in Blocks, PushAccepted(b), FreshInv'
    PROVE  TablesInv'
<1>1. /\ pc = "idle" /\ Held(db, rows) /\ Above(db, next_tx_id)
      /\ Held(disk_db, disk.rows)
      /\ timestamp_index = ReloadedIndex(db, rows)
  BY DEF TablesInv, Timed, PushAccepted, PushBegin
<1>2. /\ pc' = "insert"
      /\ UNCHANGED <<rows, disk, db, disk_db, next_tx_id, timestamp_index>>
      /\ call'.reorg = (call'.reverts # <<>>)
  BY DEF PushAccepted, PushBegin, tableVars, cacheVars
<1>3. Timed'
  BY <1>1, <1>2 DEF Timed
<1> QED BY <1>1, <1>2, <1>3 DEF TablesInv

LEMMA RevertKeepsTables ==
    ASSUME TablesInv, RevertTopBlock, FreshInv'
    PROVE  TablesInv'
<1> DEFINE left == SubSeq(blockchain, 1, Len(blockchain) - 1)
<1>1. /\ pc = "insert" /\ call.reverts # <<>> /\ FreshInv /\ IInv
      /\ Linear(blockchain) /\ rows = RowsOf(blockchain)
      /\ Held(db, rows) /\ Above(db, next_tx_id) /\ Held(disk_db, disk.rows)
  BY DEF TablesInv, FreshInv, RevertTopBlock, RevertBlock
<1>2. blockchain # <<>> /\ Top(call.reverts) = Top(blockchain)
  BY <1>1, RevertIsOfTheHead
<1>3. /\ rows' = DeleteRow(rows, Top(blockchain).id)
      /\ db' = RevertTables(db, Top(blockchain).id)
      /\ pc' \in {"insert", "logic_error"}
      /\ UNCHANGED <<disk, disk_db, next_tx_id>>
  BY <1>2 DEF RevertTopBlock, RevertBlock, cacheVars
<1>4. pc' = "insert"
  BY <1>3 DEF FreshInv, IInv
<1>5. rows' = RowsOf(left) /\ Held(db', RowsOf(left))
  BY <1>1, <1>2, <1>3, LinearPop, RevertHeld
<1>6. Above(db', next_tx_id')
  <2>1. Shape(db)
    BY <1>1 DEF Held, Consistent
  <2>2. db'.txs \subseteq db.txs
    BY <1>3, <2>1, RevertTablesFields
  <2> QED BY <1>1, <1>3, <2>2 DEF Above
<1>7. call.reorg /\ call'.reorg = call.reorg
  <2>1. call.reorg
    BY <1>1 DEF TablesInv, Timed
  <2>2. call \in Call
    BY <1>1 DEF IInv, Pushing
  <2> QED BY <2>1, <2>2 DEF RevertTopBlock, RevertBlock, Call
<1>8. Timed'
  BY <1>4, <1>7 DEF Timed
<1> QED BY <1>1, <1>3, <1>4, <1>5, <1>6, <1>8 DEF TablesInv

LEMMA InsertTables ==
    ASSUME TablesInv, InsertNewBlock, FreshInv'
    PROVE  TablesInv'
<1> DEFINE b   == call.block
           id  == FreshId(rows)
           row == [id |-> id, hash |-> b]
           n   == Len(BlockTxs[b])
           e   == InsertTxs(db, id, b, next_tx_id, n)
<1>1. /\ pc = "insert" /\ call.reverts = <<>> /\ Held(disk_db, disk.rows)
  BY DEF TablesInv, InsertNewBlock, InsertBlock
<1>2. /\ Linear(blockchain) /\ rows = RowsOf(blockchain)
      /\ Held(db, RowsOf(blockchain)) /\ Above(db, next_tx_id)
      /\ call \in Call /\ b \in Blocks
      /\ blockchain = <<>> => Parent(b) = NoBlock
      /\ blockchain # <<>> => Parent(b) = Top(blockchain).hash
      /\ rows \in SUBSET Row /\ id \in Nat
      /\ \A r \in rows : r.id < id /\ r.id \in Nat
  BY <1>1, PushingFacts
<1>3. /\ rows' = rows \cup {row}
      /\ disk' = Commit(rows', head)
      /\ call' = [call EXCEPT !.id = id]
      /\ pc' = "add"
      /\ db' = SetFee(e, id, AverageSize(b)) /\ disk_db' = db'
      /\ next_tx_id' = next_tx_id + n
      /\ UNCHANGED timestamp_index
  BY DEF InsertNewBlock, InsertBlock
<1>4. disk'.rows = rows'
  BY <1>3 DEF Commit
<1>5. /\ row \in Row /\ row.id = id /\ row.hash = b
      /\ \A r \in rows : r.id # id
  BY <1>2 DEF Row
<1>6. NewRow' = row /\ call'.reorg = call.reorg
  BY <1>2, <1>3 DEF NewRow, Call
<1> HIDE DEF row
<1>7. /\ Held(e, rows \cup {row}) /\ Above(e, next_tx_id + n)
      /\ \A r \in rows : e.spans[r.id] = db.spans[r.id]
  <2> DEFINE c == blockchain
             f == InsertTxs(db, row.id, b, next_tx_id, Len(BlockTxs[b]))
  <2>1. \A r \in RowsOf(c) : r.id # row.id
    BY <1>2, <1>5
  <2> HIDE DEF b, id, c
  <2>2. /\ Linear(c) /\ Held(db, RowsOf(c)) /\ b \in Blocks
        /\ c = <<>> => Parent(b) = NoBlock
        /\ c # <<>> => Parent(b) = Top(c).hash
        /\ Above(db, next_tx_id)
    BY <1>2 DEF b, c
  <2>3. row \in Row /\ row.hash = b /\ row.id \in Nat
    BY <1>5 DEF Row
  <2>4. /\ Held(f, RowsOf(c) \cup {row})
        /\ Above(f, next_tx_id + Len(BlockTxs[b]))
    BY <2>1, <2>2, <2>3, InsertHeld
  <2>5. ASSUME NEW r \in RowsOf(c)
        PROVE  f.spans[r.id] = db.spans[r.id]
    BY <2>1, <2>2, <2>3, InsertSpans
  <2>6. f = e /\ RowsOf(c) = rows
    BY <1>2, <1>5 DEF c
  <2> QED BY <2>4, <2>5, <2>6
<1> HIDE DEF e, n
<1>8. /\ Held(db', rows') /\ db'.txs = e.txs /\ db'.spans = e.spans
  BY <1>3, <1>7, SetFeeHeld
<1>9. Above(db', next_tx_id')
  BY <1>3, <1>7, <1>8 DEF Above
<1>10. Timed'
  <2>1. row \in rows' /\ rows' \ {row} = rows
    BY <1>3, <1>5
  <2>2. ReloadedIndex(db', rows) = ReloadedIndex(db, rows)
    BY <1>7, <1>8, SameSpans
  <2>3. ~call.reorg => timestamp_index = ReloadedIndex(db, rows)
    BY <1>1 DEF TablesInv, Timed
  <2>4. ~call'.reorg => timestamp_index' = ReloadedIndex(db', rows' \ {NewRow'})
    BY <1>3, <1>6, <2>1, <2>2, <2>3
  <2> QED BY <1>3, <1>6, <2>1, <2>4 DEF Timed
<1> QED BY <1>3, <1>4, <1>8, <1>9, <1>10 DEF TablesInv

LEMMA AddTables ==
    ASSUME TablesInv, AddToChain, FreshInv'
    PROVE  TablesInv'
<1>1. /\ pc = "add" /\ IInv /\ disk \in [rows : SUBSET Row, head : SUBSET Blocks]
      /\ Held(db, rows) /\ Above(db, next_tx_id) /\ Held(disk_db, disk.rows)
  BY DEF TablesInv, FreshInv, IInv, TypeOK, AddToChain, AddNewBlock
<1>2. /\ pc' = "head" /\ disk' = [disk EXCEPT !.head = {}]
      /\ UNCHANGED <<rows, call, db, disk_db, next_tx_id, timestamp_index>>
  BY <1>1, AddIsAppend DEF AddToChain, tableVars, cacheVars
<1>3. disk'.rows = disk.rows
  BY <1>1, <1>2
<1>4. call # NoCall
  BY <1>1, NoCallAssumption DEF IInv, Pushing, Call, NoCallAssumption
<1>5. NewRow' = NewRow
  BY <1>2 DEF NewRow
<1>6. Timed'
  BY <1>1, <1>2, <1>4, <1>5 DEF TablesInv, Timed
<1> QED BY <1>1, <1>2, <1>3, <1>6 DEF TablesInv

\* After the push the timestamps are those of the rows: reloaded, or completed
\* with the span of the new row.
LEMMA FinishTables ==
    ASSUME TablesInv, FinishPush \/ FinishOpen, FreshInv'
    PROVE  TablesInv'
<1>1. /\ pc = "head" /\ disk \in [rows : SUBSET Row, head : SUBSET Blocks]
      /\ Held(db, rows) /\ Above(db, next_tx_id) /\ Held(disk_db, disk.rows)
  BY DEF TablesInv, FreshInv, IInv, TypeOK, FinishPush, FinishOpen, InsertHead
<1>2. /\ pc' = "idle" /\ call' = NoCall /\ disk' = [disk EXCEPT !.head = head']
      /\ UNCHANGED <<rows, db, disk_db, next_tx_id>>
  BY DEF FinishPush, FinishOpen, InsertHead, tableVars, cacheVars
<1>3. disk'.rows = disk.rows
  BY <1>1, <1>2
<1>4. timestamp_index' = ReloadedIndex(db, rows)
  <2>1. CASE FinishOpen
    BY <1>1, <2>1 DEF FinishOpen, cacheVars, TablesInv, Timed
  <2>2. CASE FinishPush
    <3>1. call # NoCall
      BY <2>2 DEF FinishPush
    <3>2. CASE call.reorg
      BY <2>2, <3>2 DEF FinishPush
    <3>3. CASE ~call.reorg
      <4>1. /\ NewRow \in rows
            /\ timestamp_index = ReloadedIndex(db, rows \ {NewRow})
        BY <1>1, <3>1, <3>3 DEF TablesInv, Timed
      <4>2. timestamp_index' = timestamp_index \cup {Span(db, NewRow)}
        BY <2>2, <3>3 DEF FinishPush, NewRow
      <4> HIDE DEF NewRow
      <4> QED BY <4>1, <4>2 DEF ReloadedIndex
    <3> QED BY <3>2, <3>3
  <2> QED BY <2>1, <2>2
<1>5. Timed'
  BY <1>2, <1>4 DEF Timed
<1> QED BY <1>1, <1>2, <1>3, <1>5 DEF TablesInv

\* Whatever was undone of a revert, no output is left without its transaction.
LEMMA RevertedIsOwned ==
    ASSUME NEW d, Consistent(d), NEW ids
    PROVE  Owned(RevertTx(d, ids))
<1> DEFINE e     == RevertTx(d, ids)
           made  == {o.id : o \in {x \in d.outputs : x.tx \in ids}}
           spent == {i.output : i \in {x \in d.inputs : x.tx \in ids}}
           kept  == {o \in d.outputs : o.id \notin made}
<1>1. e.txs = d.txs /\ e.outputs = Unspend(kept, spent)
  BY RevertTxFields DEF Consistent
<1> HIDE DEF e, made, spent
<1>2. ASSUME NEW o \in Unspend(kept, spent)
      PROVE  \E p \in d.outputs : o.tx = p.tx
  <2>1. PICK p \in kept :
            o = IF p.id \in spent THEN [p EXCEPT !.spent_by = 0] ELSE p
    BY DEF Unspend
  <2>2. p \in d.outputs /\ p \in OutRecord
    BY DEF Consistent, OutputsKeyed
  <2>3. o.tx = p.tx
    BY <2>1, <2>2 DEF OutRecord
  <2> QED BY <2>2, <2>3
<1>3. \A o \in e.outputs : \E t \in e.txs : t.id = o.tx
  BY <1>1, <1>2 DEF Consistent, OutputsKeyed
<1> QED BY <1>3 DEF Owned, e

LEMMA FailTables ==
    ASSUME TablesInv, PushFails, FreshInv'
    PROVE  TablesInv'
<1>1. /\ pc \in {"insert", "add", "head"} /\ Held(disk_db, disk.rows)
      /\ pc' = "failed" /\ UNCHANGED <<disk, disk_db>>
  BY InitAssumption DEF PushFails, Fail, TablesInv, InitAssumption
<1>2. Consistent(db) /\ Consistent(disk_db)
  BY <1>1 DEF TablesInv, Held
<1>3. Owned(db')
  <2>1. CASE db' = db
    BY <1>2, <2>1, HeldIsOwned
  <2>2. CASE db' = disk_db
    BY <1>2, <2>2, HeldIsOwned
  <2>3. ASSUME NEW k, db' = RevertTxs(db, Top(call.reverts).id, k)
        PROVE  Owned(db')
    BY <1>2, <2>3, RevertedIsOwned DEF RevertTxs
  <2> QED BY <2>1, <2>2, <2>3 DEF PushFails
<1>4. Timed'
  BY <1>1 DEF Timed
<1> QED BY <1>1, <1>3, <1>4 DEF TablesInv

LEMMA InsertFailsTables ==
    ASSUME TablesInv, InsertFails, FreshInv'
    PROVE  TablesInv'
<1> DEFINE b  == call.block
           id == FreshId(rows)
<1>1. /\ pc = "insert" /\ call.reverts = <<>> /\ pc' = "failed"
      /\ Held(disk_db, disk.rows) /\ UNCHANGED <<disk, disk_db>>
  BY DEF InsertFails, FailInsert, TablesInv
<1>2. /\ Linear(blockchain) /\ Held(db, RowsOf(blockchain))
      /\ Above(db, next_tx_id) /\ b \in Blocks
      /\ blockchain = <<>> => Parent(b) = NoBlock
      /\ blockchain # <<>> => Parent(b) = Top(blockchain).hash
      /\ id \in Nat
  BY <1>1, PushingFacts
<1>3. PICK k \in 0..Len(BlockTxs[b]) : db' = InsertTxs(db, id, b, next_tx_id, k)
  BY DEF InsertFails
<1> HIDE DEF b, id
<1>4. \A t : t \in Earlier(b, 1) <=> \E u \in db.txs : u.hash = t
  BY <1>2, HeldIsEarlier
<1>5. Consistent(db) /\ Consistent(db')
  <2> DEFINE e   == InsertTxs(db, id, b, next_tx_id, k)
             row == [id |-> id, hash |-> b]
  <2> HIDE DEF row
  <2>1. Consistent(db)
    BY <1>2 DEF Held
  <2>2. /\ Consistent(e) /\ e.txs = db.txs \cup TxsOf(row, next_tx_id, k)
        /\ e.spans = Opened(db, id, b, next_tx_id).spans
    BY <1>2, <1>4, <2>1, InsertTxsFacts DEF row
  <2> QED BY <1>3, <2>1, <2>2
<1>6. Timed'
  BY <1>1 DEF Timed
<1> QED BY <1>1, <1>5, <1>6, HeldIsOwned DEF TablesInv

LEMMA EndTables ==
    ASSUME TablesInv, Ends, FreshInv'
    PROVE  TablesInv'
<1>1. /\ pc' = "down" /\ call' = NoCall /\ rows' = disk.rows /\ disk' = disk
      /\ db' = disk_db /\ disk_db' = disk_db
  BY DEF Ends, Exit, Stop, Crash, Die, Forget
<1>2. Timed'
  BY <1>1 DEF Timed
<1> QED BY <1>1, <1>2 DEF TablesInv

LEMMA StillTables ==
    ASSUME TablesInv, UNCHANGED <<chainVars, tableVars, next_tx_id, timestamp_index>>,
           FreshInv'
    PROVE  TablesInv'
<1>1. UNCHANGED <<rows, disk, call, pc, db, disk_db, next_tx_id, timestamp_index>>
  BY DEF chainVars, tableVars
<1>2. NewRow' = NewRow
  BY <1>1 DEF NewRow
<1>3. Timed'
  BY <1>1, <1>2 DEF TablesInv, Timed
<1> QED BY <1>1, <1>3 DEF TablesInv

LEMMA TablesStep == TablesInv /\ [IndexNext]_vars => TablesInv'
<1> SUFFICES ASSUME TablesInv, [IndexNext]_vars PROVE TablesInv'
  OBVIOUS
<1>1. FreshInv'
  BY IndexStep, FreshNext DEF TablesInv
<1>2. CASE Open
  BY <1>1, <1>2, OpenTables
<1>3. CASE OpenRefused
  <2>1. pc' = "refused"
    BY <1>3 DEF OpenRefused, StartRefused
  <2> QED BY <1>1, <2>1 DEF FreshInv
<1>4. ASSUME NEW b \in Blocks, PushRefused(b) PROVE TablesInv'
  <2>1. UNCHANGED <<chainVars, tableVars, next_tx_id, timestamp_index>>
    BY <1>4 DEF PushRefused
  <2> QED BY <1>1, <2>1, StillTables
<1>5. ASSUME NEW b \in Blocks, PushAccepted(b) PROVE TablesInv'
  BY <1>1, <1>5, PushTables
<1>6. CASE RevertTopBlock
  BY <1>1, <1>6, RevertKeepsTables
<1>7. CASE InsertNewBlock
  BY <1>1, <1>7, InsertTables
<1>8. CASE AddToChain
  BY <1>1, <1>8, AddTables
<1>9. CASE FinishPush \/ FinishOpen
  BY <1>1, <1>9, FinishTables
<1>10. CASE PushFails
  BY <1>1, <1>10, FailTables
<1>11. CASE InsertFails
  BY <1>1, <1>11, InsertFailsTables
<1>12. CASE Ends
  BY <1>1, <1>12, EndTables
<1>13. CASE GetFees \/ UNCHANGED vars
  <2>1. UNCHANGED <<chainVars, tableVars, next_tx_id, timestamp_index>>
    BY <1>13 DEF GetFees, vars, cacheVars
  <2> QED BY <1>1, <2>1, StillTables
<1> QED BY <1>2, <1>3, <1>4, <1>5, <1>6, <1>7, <1>8, <1>9, <1>10, <1>11, <1>12,
           <1>13 DEF IndexNext

LEMMA TablesSpec ==
    InitRows = {} /\ InitTables = NoTables /\ IndexSpec => []TablesInv
BY TablesInit, TablesStep, PTL DEF IndexSpec

=============================================================================
