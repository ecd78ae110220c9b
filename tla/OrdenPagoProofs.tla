-------------------------- MODULE OrdenPagoProofs --------------------------
(***************************************************************************)
(* That no batch of orden_pago or solic_gastos gives one gasto to two      *)
(* invoices, leaves an invoice for Paxapos to make up while its gasto      *)
(* waits, forgets a payment order, or takes a linked gasto from its        *)
(* invoice: for any payments, invoices, purchase orders and bounds.        *)
(***************************************************************************)
EXTENDS OrdenPago, RetryStoreProofs, FiniteSetTheorems

USE PaymentBoundsAssumption

(***************************************************************************)
(* The choice of a gasto.                                                  *)
(***************************************************************************)

\* The ids are finitely many, and 0 is none of them.
LEMMA IdsFinite ==
  /\ IsFiniteSet(Ids) /\ 0 \notin Ids /\ Ids \cup {0} = 0..MaxGastos
  BY FS_Interval DEF Ids

\* The element of a set of one is in it.
LEMMA TheOneIsIn ==
  ASSUME NEW S \in SUBSET Ids, Cardinality(S) = 1
  PROVE  TheOne(S) \in S
  <1>1. IsFiniteSet(S)
    BY IdsFinite, FS_Subset
  <1>2. \E x : S = {x}
    BY <1>1, FS_Singleton
  <1> QED BY <1>2 DEF TheOne

\* A set of naturals has a least element.
LEMMA LeastExists ==
  ASSUME NEW T \in SUBSET Nat, T # {}
  PROVE  \E m \in T : \A k \in T : m <= k
  <1> DEFINE R == {ss \in Nat \X Nat : ss[1] < ss[2]}
  <1>1. IsWellFoundedOn(R, Nat)
    BY NatLessThanWellFounded DEF OpToRel
  <1>2. \A m, k \in Nat : <<k, m>> \in R <=> k < m
    OBVIOUS
  <1> HIDE DEF R
  <1>3. PICK m \in T : \A k \in T : <<k, m>> \notin R
    BY <1>1, WFMin
  <1>4. \A k \in T : ~(k < m)
    BY <1>2, <1>3
  <1> QED BY <1>3, <1>4

\* elegir_gasto_portal chooses one of the gastos it is offered, or none.
LEMMA ElegidoIsOffered ==
  ASSUME NEW P \in SUBSET Ids, NEW c
  PROVE  Elegido(P, c) \in P \cup {0}
  <1> DEFINE byNro == {g \in P : gasto[g].nro = c}
             Q     == IF byNro = {} THEN P ELSE byNro
             same  == {g \in Q : gasto[g].amount = Amount[c]}
  <1>1. /\ byNro \in SUBSET Ids /\ byNro \subseteq P
        /\ Q \in SUBSET Ids /\ Q \subseteq P
        /\ same \in SUBSET Ids /\ same \subseteq P
    OBVIOUS
  <1>2. Elegido(P, c) =
          CASE Cardinality(byNro) = 1 -> TheOne(byNro)
            [] Cardinality(byNro) # 1 /\ Cardinality(Q) = 1 /\ gasto[TheOne(Q)].nro = Unread
                 -> TheOne(Q)
            [] Cardinality(byNro) # 1 /\ (Cardinality(Q) # 1 \/ gasto[TheOne(Q)].nro # Unread)
                 /\ Cardinality(same) = 1 -> TheOne(same)
            [] OTHER -> 0
    BY DEF Elegido
  <1> HIDE DEF byNro, Q, same
  <1>3. /\ Cardinality(byNro) = 1 => TheOne(byNro) \in P
        /\ Cardinality(Q) = 1 => TheOne(Q) \in P
        /\ Cardinality(same) = 1 => TheOne(same) \in P
    BY <1>1, TheOneIsIn
  <1> QED BY <1>2, <1>3

\* pick_resolved chooses a gasto that RAFAM has not completed, or none.
LEMMA ResolvedIsUntraced ==
  ASSUME NEW c
  PROVE  Resolved(c) \in Untraced \cup {0}
  <1> DEFINE P     == {g \in Untraced : gasto[g].ped \in OrdersOf(c) \cap migrated}
             byNro == {g \in Untraced : gasto[g].nro = c}
             least == CHOOSE g \in byNro : \A h \in byNro : g <= h
  <1>1. /\ P \in SUBSET Ids /\ P \subseteq Untraced
        /\ byNro \in SUBSET Ids /\ byNro \subseteq Untraced
    BY DEF Untraced
  <1>2. Resolved(c) = CASE Cardinality(P) = 1           -> TheOne(P)
                        [] Cardinality(P) > 1           -> Elegido(P, c)
                        [] P = {} /\ byNro # {}         -> least
                        [] OTHER                        -> 0
    BY DEF Resolved
  <1>3. byNro # {} => least \in byNro
    <2>1. SUFFICES ASSUME byNro # {} PROVE \E g \in byNro : \A h \in byNro : g <= h
      BY Zenon
    <2>2. byNro \in SUBSET Nat
      BY <1>1 DEF Ids
    <2> HIDE DEF byNro
    <2> QED BY <2>1, <2>2, LeastExists
  <1> HIDE DEF P, byNro, least
  <1>4. Cardinality(P) = 1 => TheOne(P) \in Untraced
    BY <1>1, TheOneIsIn
  <1>5. Elegido(P, c) \in Untraced \cup {0}
    BY <1>1, ElegidoIsOffered
  <1> QED BY <1>1, <1>2, <1>3, <1>4, <1>5

(***************************************************************************)
(* What Paxapos makes of a gasto.                                          *)
(***************************************************************************)

\* A gasto that exists is a whole one, with data RAFAM or the portal gave it.
LEMMA ExistingIsGasto ==
  ASSUME TypeOK, NEW g \in Ids, Exists(g)
  PROVE  gasto[g] \in Gasto
  BY DEF TypeOK, Exists

\* solic_gastos completes a gasto, and keeps a number that was read.
LEMMA FilledGasto ==
  ASSUME TypeOK, NEW g \in Ids, Exists(g), NEW c \in Comps
  PROVE  /\ Filled(g, c) \in Gasto /\ Filled(g, c) # NoGasto
         /\ \A d \in Comps : gasto[g].nro = d => Filled(g, c).nro = d
  BY ExistingIsGasto, PaymentsAssumption, NumbersAssumption DEF Filled, Gasto, NoGasto

\* So does orden_pago, which overwrites the number.
LEMMA EditedGasto ==
  ASSUME TypeOK, NEW g \in Ids, Exists(g), NEW c \in Comps
  PROVE  Edited(g, c) \in Gasto /\ Edited(g, c) # NoGasto /\ Edited(g, c).nro = c
  BY ExistingIsGasto, PaymentsAssumption DEF Edited, Gasto, NoGasto

\* An invoice is sent with purchase orders that have a remote id.
LEMMA SentWithMigrated ==
  ASSUME TypeOK, NEW c
  PROVE  SentWith(c) \in SUBSET Pedidos /\ \A op \in payload : c \in Pays[op] => PedidosOf(op) \subseteq SentWith(c)
  BY PaymentsAssumption DEF TypeOK, SentWith, PedidosOf, PaidBy

\* A gasto of the invoice is created whole.
LEMMA CreatedGasto ==
  ASSUME TypeOK, NEW c \in Comps
  PROVE  Created(c) \in Gasto /\ Created(c) # NoGasto
  <1>1. SentWith(c) # {} => TheOne(SentWith(c)) \in Pedidos
    BY SentWithMigrated DEF TheOne
  <1> QED BY <1>1, PaymentsAssumption DEF Created, Gasto, NoGasto

\* The POST leaves a gasto alone, or writes it for one invoice that landed on it.
LEMMA AppliedGasto ==
  ASSUME NEW L \in SUBSET Comps, NEW id \in [L -> Ids], NEW g \in Ids
  PROVE  \/ Applied(id)[g] = gasto[g]
         \/ \E c \in L : /\ id[c] = g
                         /\ Applied(id)[g] = IF Exists(g) THEN Edited(g, c) ELSE Created(c)
  <1> DEFINE by == {c \in L : id[c] = g}
             mine == {d \in by : edits[d] = g}
             c  == IF \E d \in by : edits[d] = g THEN CHOOSE d \in by : edits[d] = g
                   ELSE CHOOSE d \in by : TRUE
  <1>1. Applied(id)[g] = IF by = {} THEN gasto[g]
                         ELSE IF Exists(g) THEN Edited(g, c) ELSE Created(c)
    BY DEF Applied
  <1>2. by # {} => c \in by
    <2>1. CASE \E d \in by : edits[d] = g
      <3>1. c = CHOOSE d \in by : edits[d] = g
        BY <2>1
      <3> QED BY <2>1, <3>1
    <2>2. CASE ~ \E d \in by : edits[d] = g
      <3>1. c = CHOOSE d \in by : TRUE
        BY <2>2
      <3> QED BY <3>1
    <2> QED BY <2>1, <2>2
  <1> HIDE DEF c
  <1> QED BY <1>1, <1>2

(***************************************************************************)
(* The types.                                                              *)
(***************************************************************************)

\* The OPs of a batch that none of the conditions stops are rows it read.
LEMMA ReadyAreRows ==
  ASSUME NEW rows \in SUBSET Ops
  PROVE  Ready(rows) \subseteq rows
  BY DEF Ready, Rest

\* With the batch over its variables are as at the start.
LEMMA IdleTypes ==
  ASSUME Idle
  PROVE  /\ pc' = "idle" /\ payload' = {} /\ todo' = {} /\ blocks' = {} /\ held' = {}
         /\ pool' \in [Pedidos -> SUBSET Ids] /\ edits' \in [Comps -> 0..MaxGastos]
         /\ out' \in [Ops -> {"none", "ok", "rejected"}]
         /\ answered' \in [Comps -> 0..MaxGastos]
         /\ pool' = [p \in Pedidos |-> {}] /\ edits' = [c \in Comps |-> 0]
         /\ out' = [op \in Ops |-> "none"]
  BY DEF Idle

\* A fault is counted within its bound.
LEMMA FaultTypes ==
  ASSUME TypeOK, Fault
  PROVE  faults' \in 0..MaxFaults
  BY DEF TypeOK, Fault

\* What a batch of orden_pago does with the rows of its query, all confirmed.
LEMMA BatchTaken ==
  ASSUME TypeOK, TakeBatch
  PROVE  \E rows \in SUBSET Ops : \E f \in SUBSET (Rest(rows) \ Ready(rows)) :
           /\ \A op \in rows : val[op] # 0
           /\ Queue(rows, f) /\ Swallowed(Rest(rows) \ Ready(rows), f)
           /\ \/ Ready(rows) = {} /\ Idle /\ taken' = taken \cup rows
              \/ /\ pc' = "pair" /\ payload' = Ready(rows)
                 /\ todo' = UNION {Pays[op] : op \in Ready(rows)}
                 /\ pool' = [p \in Pedidos |->
                      IF \E op \in Ready(rows) : p \in PedidosOf(op) THEN PortalPool(p) ELSE {}]
                 /\ taken' = taken \cup (rows \ Ready(rows))
                 /\ UNCHANGED <<blocks, edits, held, out, answered>>
  <1>1. PICK again \in SUBSET {op \in taken : val[op] # 0} :
          LET rows  == (MustRead \cup again) \ PermanentKeys(queue)
              ready == Ready(rows)
          IN /\ \E f \in SUBSET (Rest(rows) \ ready) :
                  Queue(rows, f) /\ Swallowed(Rest(rows) \ ready, f)
             /\ IF ready = {} THEN Idle /\ taken' = taken \cup rows
                ELSE /\ pc' = "pair" /\ payload' = ready
                     /\ todo' = UNION {Pays[op] : op \in ready}
                     /\ pool' = [p \in Pedidos |->
                          IF \E op \in ready : p \in PedidosOf(op) THEN PortalPool(p) ELSE {}]
                     /\ taken' = taken \cup (rows \ ready)
                     /\ UNCHANGED <<blocks, edits, held, out, answered>>
    BY DEF TakeBatch
  <1> DEFINE rows == (MustRead \cup again) \ PermanentKeys(queue)
  <1> rows \in SUBSET Ops /\ \A op \in rows : val[op] # 0
    BY DEF MustRead, TypeOK
  <1> WITNESS rows \in SUBSET Ops
  <1> QED BY <1>1

\* A queue that takes some entries, leaves others and loses some stays one.
LEMMA QueueTypes ==
  ASSUME TypeOK, NEW rows, NEW f, Queue(rows, f)
  PROVE  queue' \in [Ops -> Entry]
  BY EntryTypes DEF TypeOK, Queue

\* An OP whose entry is lost and that has no link is forgotten, one queued is not.
LEMMA SwallowedTypes ==
  ASSUME TypeOK, NEW waiting \in SUBSET Ops, NEW f \in SUBSET waiting, Swallowed(waiting, f)
  PROVE  forgotten' \subseteq Ops /\ faults' \in 0..MaxFaults
  <1>1. forgotten' \subseteq Ops
    BY DEF Swallowed, TypeOK
  <1>2. faults' \in 0..MaxFaults
    BY FaultTypes DEF Swallowed, TypeOK
  <1> QED BY <1>1, <1>2

\* The answers of the queue are entries again.
LEMMA RecordedTypes ==
  ASSUME TypeOK, NEW op \in Ops
  PROVE  Recorded(op) \in Entry
  BY EntryTypes DEF TypeOK, Recorded

\* The links some gastos are given are links.
LEMMA GastoLinkedTypes ==
  ASSUME TypeOK, NEW some \in SUBSET Keys, NEW to \in [some -> 0..MaxGastos]
  PROVE  GastoLinked(to) \in [Keys -> 0..MaxGastos]
  BY DEF TypeOK, GastoLinked

\* What a POST does: every block lands, and those of the OPs that fare well.
LEMMA Posted ==
  ASSUME TypeOK, Post
  PROVE  \E good \in SUBSET payload, L \in SUBSET Comps : \E id \in [L -> Ids] :
           /\ blocks \subseteq L /\ \A c \in L : id[c] \in Lands(c)
           /\ gasto' = Applied(id)
           /\ \/ Fault /\ Idle
              \/ /\ pc' = "persist"
                 /\ answered' = [c \in Comps |-> IF c \in blocks THEN id[c] ELSE 0]
                 /\ out' = [op \in Ops |-> IF op \in good THEN "ok"
                                           ELSE IF op \in payload THEN "rejected" ELSE "none"]
                 /\ pool' = [p \in Pedidos |-> {}] /\ edits' = [c \in Comps |-> 0]
                 /\ UNCHANGED <<faults, payload, todo, blocks, held>>
  <1>1. PICK good \in SUBSET payload :
          \E id \in [blocks \cup UNION {Pays[op] : op \in good} -> Ids] :
           /\ \A c \in blocks \cup UNION {Pays[op] : op \in good} : id[c] \in Lands(c)
           /\ gasto' = Applied(id)
           /\ \/ Fault /\ Idle
              \/ /\ pc' = "persist"
                 /\ answered' = [c \in Comps |-> IF c \in blocks THEN id[c] ELSE 0]
                 /\ out' = [op \in Ops |-> IF op \in good THEN "ok"
                                           ELSE IF op \in payload THEN "rejected" ELSE "none"]
                 /\ pool' = [p \in Pedidos |-> {}] /\ edits' = [c \in Comps |-> 0]
                 /\ UNCHANGED <<faults, payload, todo, blocks, held>>
    BY Zenon DEF Post
  <1> DEFINE L == blocks \cup UNION {Pays[op] : op \in good}
  <1> L \in SUBSET Comps /\ blocks \subseteq L
    BY PaymentsAssumption DEF TypeOK
  <1> WITNESS good \in SUBSET payload, L \in SUBSET Comps
  <1> QED BY <1>1, Zenon

\* The links of OPs that are written are of the version Paxapos answered.
LEMMA OpLinkedTypes ==
  ASSUME TypeOK, NEW ops
  PROVE  OpLinked(ops) \in [Ops -> 0..MaxVal]
  BY DEF TypeOK, OpLinked

\* Every step keeps the types, given that what the blocks edit exists.
LEMMA TypeStep ==
  ASSUME TypeOK, EditsInv, [Next]_vars
  PROVE  TypeOK'
  <1> USE DEF env, links, missed, plan, batch
  <1>1. ASSUME NEW op \in Ops, Confirm(op) PROVE TypeOK'
    <2>1. val' \in [Ops -> 0..MaxVal]
      BY <1>1 DEF Confirm, TypeOK
    <2> QED BY <1>1, <2>1 DEF Confirm, TypeOK
  <1>2. ASSUME NEW c \in Comps, Complete(c) PROVE TypeOK'
    BY <1>2 DEF Complete, TypeOK
  <1>3. ASSUME NEW p \in Pedidos, Migrate(p) PROVE TypeOK'
    BY <1>3 DEF Migrate, TypeOK
  <1>4. ASSUME NEW c \in Comps, Upload(c) PROVE TypeOK'
    <2>1. PICK g \in Free, p \in OrdersOf(c) \cap migrated, read \in Readings :
            gasto' = [gasto EXCEPT ![g] =
              [nro |-> IF read \in {"number", "both"} THEN c ELSE Unread, ped |-> p,
               amount |-> IF read \in {"amount", "both"} THEN Amount[c] ELSE 0,
               doc |-> c, traced |-> FALSE]]
      BY <1>4 DEF Upload
    <2>2. [nro |-> IF read \in {"number", "both"} THEN c ELSE Unread, ped |-> p,
           amount |-> IF read \in {"amount", "both"} THEN Amount[c] ELSE 0,
           doc |-> c, traced |-> FALSE] \in Gasto
      BY PaymentsAssumption DEF Gasto, TypeOK
    <2>3. gasto' \in [Ids -> Gasto \cup {NoGasto}]
      BY <2>1, <2>2 DEF TypeOK, Free
    <2> QED BY <1>4, <2>3 DEF Upload, TypeOK
  <1>5. ASSUME NEW read \in SUBSET Comps, Solicit(read) PROVE TypeOK'
    <2>1. \A c \in Comps : Resolved(c) \in 0..MaxGastos
      BY ResolvedIsUntraced, IdsFinite DEF Untraced
    <2>2. blocks' \subseteq Comps /\ edits' \in [Comps -> 0..MaxGastos]
      BY <1>5, <2>1 DEF Solicit, Candidates, TypeOK
    <2> QED BY <1>5, <2>2 DEF Solicit, TypeOK
  <1>6. CASE BackfillGastos
    BY <1>5, <1>6 DEF BackfillGastos, Requested
  <1>7. CASE TakeSolicitudes
    BY <1>5, <1>7 DEF TakeSolicitudes, Requested
  <1>8. CASE AnswerSolicitudes
    <2>1. PICK first \in [{edits[c] : c \in blocks} -> blocks], lost \in BOOLEAN :
            /\ \A g \in DOMAIN first : edits[first[g]] = g
            /\ gasto' = [g \in Ids |-> IF g \in DOMAIN first THEN Filled(g, first[g]) ELSE gasto[g]]
            /\ IF lost THEN Fault /\ Idle
               ELSE /\ pc' = "sg-persist" /\ answered' = edits
                    /\ UNCHANGED <<faults, plan, out>>
      BY <1>8 DEF AnswerSolicitudes
    <2>2. ASSUME NEW g \in Ids, g \in DOMAIN first PROVE Filled(g, first[g]) \in Gasto
      <3>1. first[g] \in blocks /\ edits[first[g]] = g
        BY <2>1, <2>2
      <3>2. first[g] \in Comps /\ g # 0
        BY <3>1, IdsFinite DEF TypeOK
      <3>3. Exists(g)
        BY <3>1, <3>2 DEF EditsInv
      <3> QED BY <3>2, <3>3, FilledGasto
    <2>3. gasto' \in [Ids -> Gasto \cup {NoGasto}]
      BY <2>1, <2>2 DEF TypeOK
    <2>4. CASE lost
      BY <1>8, <2>1, <2>3, <2>4, IdleTypes, FaultTypes DEF AnswerSolicitudes, TypeOK
    <2>5. CASE ~lost
      BY <1>8, <2>1, <2>3, <2>5 DEF AnswerSolicitudes, TypeOK
    <2> QED BY <2>4, <2>5
  <1>9. CASE PersistSolicitudes
    <2>1. gastoLink' \in [Keys -> 0..MaxGastos]
      BY <1>9, GastoLinkedTypes DEF PersistSolicitudes, KeysCompleted
    <2> QED BY <1>9, <2>1, IdleTypes DEF PersistSolicitudes, TypeOK
  <1>10. CASE TakeBatch
    <2>1. PICK rows \in SUBSET Ops : \E f \in SUBSET (Rest(rows) \ Ready(rows)) :
            /\ Queue(rows, f) /\ Swallowed(Rest(rows) \ Ready(rows), f)
            /\ \/ Ready(rows) = {} /\ Idle /\ taken' = taken \cup rows
               \/ /\ pc' = "pair" /\ payload' = Ready(rows)
                  /\ todo' = UNION {Pays[op] : op \in Ready(rows)}
                  /\ pool' = [p \in Pedidos |->
                       IF \E op \in Ready(rows) : p \in PedidosOf(op) THEN PortalPool(p) ELSE {}]
                  /\ taken' = taken \cup (rows \ Ready(rows))
                  /\ UNCHANGED <<blocks, edits, held, out, answered>>
      BY <1>10, BatchTaken, Zenon
    <2>2. /\ queue' \in [Ops -> Entry] /\ Ready(rows) \subseteq rows
          /\ forgotten' \subseteq Ops /\ faults' \in 0..MaxFaults
      <3>1. Rest(rows) \ Ready(rows) \in SUBSET Ops
        BY DEF Rest
      <3> QED BY <2>1, <3>1, QueueTypes, SwallowedTypes, ReadyAreRows
    <2>3. UNCHANGED <<env, gasto, links, unlinked>>
      BY <1>10 DEF TakeBatch
    <2>4. CASE Ready(rows) = {} /\ Idle /\ taken' = taken \cup rows
      BY <2>2, <2>3, <2>4, IdleTypes DEF TypeOK
    <2>5. CASE /\ pc' = "pair" /\ payload' = Ready(rows)
               /\ todo' = UNION {Pays[op] : op \in Ready(rows)}
               /\ pool' = [p \in Pedidos |->
                    IF \E op \in Ready(rows) : p \in PedidosOf(op) THEN PortalPool(p) ELSE {}]
               /\ taken' = taken \cup (rows \ Ready(rows))
               /\ UNCHANGED <<blocks, edits, held, out, answered>>
      <3>1. todo' \subseteq Comps
        BY <2>2, <2>5, PaymentsAssumption
      <3>2. pool' \in [Pedidos -> SUBSET Ids]
        BY <2>5 DEF PortalPool
      <3> QED BY <2>2, <2>3, <2>5, <3>1, <3>2 DEF TypeOK
    <2> QED BY <2>1, <2>4, <2>5
  <1>11. ASSUME NEW c \in Comps, Pair(c) PROVE TypeOK'
    <2> DEFINE P == UNION {pool[p] : p \in SentWith(c)}
    <2>1. P \in SUBSET Ids
      BY SentWithMigrated DEF TypeOK
    <2>2. Elegido(P, c) \in 0..MaxGastos
      <3> HIDE DEF P
      <3> QED BY <2>1, ElegidoIsOffered, IdsFinite
    <2>3. /\ held' \subseteq Ops /\ blocks' \subseteq Comps
          /\ edits' \in [Comps -> 0..MaxGastos] /\ pool' \in [Pedidos -> SUBSET Ids]
      <3>1. CASE c \notin complete
        BY <1>11, <3>1 DEF Pair, TypeOK, HeldFor
      <3>2. CASE c \in complete
        <4>1. /\ held' = held /\ blocks' = blocks \cup {c}
              /\ edits' = [edits EXCEPT ![c] = Elegido(P, c)]
              /\ pool' = [p \in Pedidos |-> pool[p] \ PoolTakes(Elegido(P, c))]
          BY <1>11, <3>2 DEF Pair
        <4> HIDE DEF P
        <4> QED BY <2>2, <4>1 DEF TypeOK
      <3> QED BY <3>1, <3>2
    <2> QED BY <1>11, <2>3 DEF Pair, TypeOK
  <1>12. CASE Hold
    <2>1. PICK f \in SUBSET held :
            /\ Swallowed(held, f)
            /\ queue' = [op \in Ops |-> IF op \in f THEN queue[op] ELSE QueuedIfHeld(op)]
      BY <1>12 DEF Hold
    <2>2. /\ queue' \in [Ops -> Entry] /\ taken' \subseteq Ops
          /\ forgotten' \subseteq Ops /\ faults' \in 0..MaxFaults
      BY <1>12, <2>1, EntryTypes, SwallowedTypes DEF Hold, QueuedIfHeld, TypeOK
    <2>3. CASE payload \subseteq held
      BY <1>12, <2>2, <2>3, IdleTypes DEF Hold, TypeOK
    <2>4. CASE ~(payload \subseteq held)
      BY <1>12, <2>2, <2>4 DEF Hold, TypeOK
    <2> QED BY <2>3, <2>4
  <1>13. CASE Post
    <2>1. PICK good \in SUBSET payload, L \in SUBSET Comps : \E id \in [L -> Ids] :
            /\ blocks \subseteq L
            /\ gasto' = Applied(id)
            /\ \/ Fault /\ Idle
               \/ /\ pc' = "persist"
                  /\ answered' = [c \in Comps |-> IF c \in blocks THEN id[c] ELSE 0]
                  /\ out' = [op \in Ops |-> IF op \in good THEN "ok"
                                            ELSE IF op \in payload THEN "rejected" ELSE "none"]
                  /\ pool' = [p \in Pedidos |-> {}] /\ edits' = [c \in Comps |-> 0]
                  /\ UNCHANGED <<faults, payload, todo, blocks, held>>
      BY <1>13, Posted
    <2>2. PICK id \in [L -> Ids] :
            /\ blocks \subseteq L
            /\ gasto' = Applied(id)
            /\ \/ Fault /\ Idle
               \/ /\ pc' = "persist"
                  /\ answered' = [c \in Comps |-> IF c \in blocks THEN id[c] ELSE 0]
                  /\ out' = [op \in Ops |-> IF op \in good THEN "ok"
                                            ELSE IF op \in payload THEN "rejected" ELSE "none"]
                  /\ pool' = [p \in Pedidos |-> {}] /\ edits' = [c \in Comps |-> 0]
                  /\ UNCHANGED <<faults, payload, todo, blocks, held>>
      BY <2>1
    <2>3. ASSUME NEW g \in Ids PROVE Applied(id)[g] \in Gasto \cup {NoGasto}
      <3>1. CASE Applied(id)[g] = gasto[g]
        BY <3>1 DEF TypeOK
      <3>2. ASSUME NEW c \in L,
                   Applied(id)[g] = IF Exists(g) THEN Edited(g, c) ELSE Created(c)
            PROVE  Applied(id)[g] \in Gasto
        BY <3>2, EditedGasto, CreatedGasto
      <3> QED BY <3>1, <3>2, AppliedGasto
    <2>4. gasto' \in [Ids -> Gasto \cup {NoGasto}]
      BY <2>2, <2>3 DEF Applied
    <2>5. UNCHANGED <<env, links, queue, taken, missed>>
      BY <1>13 DEF Post
    <2>6. CASE Fault /\ Idle
      BY <2>4, <2>5, <2>6, IdleTypes, FaultTypes DEF TypeOK
    <2>7. CASE /\ pc' = "persist"
               /\ answered' = [c \in Comps |-> IF c \in blocks THEN id[c] ELSE 0]
               /\ out' = [op \in Ops |-> IF op \in good THEN "ok"
                                         ELSE IF op \in payload THEN "rejected" ELSE "none"]
               /\ edits' = [c \in Comps |-> 0] /\ pool' = [p \in Pedidos |-> {}]
               /\ UNCHANGED <<faults, payload, todo, blocks, held>>
      <3>1. \A c \in Comps : (IF c \in blocks THEN id[c] ELSE 0) \in 0..MaxGastos
        BY <2>2, IdsFinite
      <3>2. answered' \in [Comps -> 0..MaxGastos] /\ edits' \in [Comps -> 0..MaxGastos]
        BY <2>7, <3>1
      <3>3. out' \in [Ops -> {"none", "ok", "rejected"}]
        BY <2>7
      <3> QED BY <2>4, <2>5, <2>7, <3>2, <3>3 DEF TypeOK
    <2> QED BY <2>2, <2>6, <2>7
  <1>14. CASE PersistOps
    <2>1. opLink' \in [Ops -> 0..MaxVal] /\ forgotten' \subseteq Ops /\ unlinked' \subseteq Ops
      BY <1>14, OpLinkedTypes DEF PersistOps, AnsweredOk, TypeOK
    <2> QED BY <1>14, <2>1 DEF PersistOps, TypeOK
  <1>15. CASE PersistGastos
    <2>1. gastoLink' \in [Keys -> 0..MaxGastos]
      BY <1>15, GastoLinkedTypes DEF PersistGastos, KeysAnswered
    <2> QED BY <1>15, <2>1 DEF PersistGastos, GastosDone, TypeOK
  <1>16. CASE Record
    <2>1. queue' \in [Ops -> Entry] /\ taken' \subseteq Ops
      BY <1>16, RecordedTypes DEF Record, TakenNow, TypeOK
    <2> QED BY <1>16, <2>1, IdleTypes DEF Record, TypeOK
  <1>17. CASE Crash
    BY <1>17, IdleTypes, FaultTypes DEF Crash, TypeOK
  <1>18. CASE UNCHANGED vars
    BY <1>18 DEF vars, TypeOK
  <1>19. CASE PersistSolicitudesFails
    <2>1. gastoLink' \in [Keys -> 0..MaxGastos]
      BY <1>19, GastoLinkedTypes DEF PersistSolicitudesFails, KeysCompleted
    <2> QED BY <1>19, <2>1, IdleTypes, FaultTypes DEF PersistSolicitudesFails, TypeOK
  <1>20. CASE PersistOpsFails
    <2>1. opLink' \in [Ops -> 0..MaxVal] /\ forgotten' \subseteq Ops /\ unlinked' \subseteq Ops
      BY <1>20, OpLinkedTypes DEF PersistOpsFails, AnsweredOk, TypeOK
    <2> QED BY <1>20, <2>1, FaultTypes DEF PersistOpsFails, GastosDone, TypeOK
  <1>21. CASE PersistGastosFails
    <2>1. gastoLink' \in [Keys -> 0..MaxGastos]
      BY <1>21, GastoLinkedTypes DEF PersistGastosFails, KeysAnswered
    <2> QED BY <1>21, <2>1, FaultTypes DEF PersistGastosFails, GastosDone, TypeOK
  <1>22. CASE RecordFails
    <2>1. queue' \in [Ops -> Entry]
      BY <1>22, RecordedTypes DEF RecordFails, TypeOK
    <2> QED BY <1>22, <2>1, IdleTypes, FaultTypes DEF RecordFails, TypeOK
  <1> QED
    BY <1>1, <1>2, <1>3, <1>4, <1>6, <1>7, <1>8, <1>9, <1>10, <1>11, <1>12, <1>13, <1>14,
       <1>15, <1>16, <1>17, <1>18, <1>19, <1>20, <1>21, <1>22
       DEF Next, Environment, Pipeline, PipelineFault

(***************************************************************************)
(* The parts of the inductive invariant, step by step.                     *)
(***************************************************************************)

\* No step makes a gasto vanish.
LEMMA GastosRemain ==
  ASSUME TypeOK, EditsInv, [Next]_vars, NEW g \in Ids, Exists(g)
  PROVE  Exists(g)'
  <1>1. ASSUME NEW c \in Comps, Upload(c) PROVE Exists(g)'
    <2>1. PICK h \in Free : \E n : gasto' = [gasto EXCEPT ![h] = n]
      BY <1>1 DEF Upload
    <2>2. h # g
      BY DEF Free
    <2> QED BY <2>1, <2>2 DEF Exists, TypeOK
  <1>2. CASE AnswerSolicitudes
    <2>1. PICK first \in [{edits[c] : c \in blocks} -> blocks] :
            gasto' = [h \in Ids |-> IF h \in DOMAIN first THEN Filled(h, first[h]) ELSE gasto[h]]
      BY <1>2 DEF AnswerSolicitudes
    <2>2. CASE g \in DOMAIN first
      <3>1. first[g] \in Comps
        BY <2>2 DEF TypeOK
      <3> QED BY <2>1, <2>2, <3>1, FilledGasto DEF Exists
    <2>3. CASE g \notin DOMAIN first
      BY <2>1, <2>3 DEF Exists
    <2> QED BY <2>2, <2>3
  <1>3. CASE Post
    <2>1. PICK L \in SUBSET Comps : \E id \in [L -> Ids] : gasto' = Applied(id)
      BY <1>3, Posted
    <2>2. PICK id \in [L -> Ids] : gasto' = Applied(id)
      BY <2>1
    <2> QED BY <2>2, AppliedGasto, EditedGasto DEF Exists
  <1>4. CASE UNCHANGED gasto
    BY <1>4 DEF Exists
  <1> QED
    BY <1>1, <1>2, <1>3, <1>4
       DEF Next, Environment, Pipeline, vars, Confirm, Complete, Migrate, BackfillGastos,
           TakeSolicitudes, Solicit, PersistSolicitudes, TakeBatch, Pair, Hold, PersistOps,
           PersistGastos, Record, PipelineFault,
           PersistSolicitudesFails, PersistOpsFails, PersistGastosFails, RecordFails, Crash

\* A batch that is over leaves nothing behind.
LEMMA IdleStep ==
  ASSUME IdleInv, TypeOK, [Next]_vars
  PROVE  IdleInv'
  <1> USE DEF env, links, missed, plan, batch, vars
  <1>1. CASE Idle
    BY <1>1, IdleTypes DEF IdleInv
  <1>2. CASE pc' # "idle"
    BY <1>2 DEF IdleInv
  <1>3. CASE UNCHANGED <<pc, batch>>
    BY <1>3 DEF IdleInv
  <1>4. CASE TakeBatch
    BY <1>1, <1>2, <1>4, BatchTaken
  <1>5. CASE Post
    BY <1>1, <1>2, <1>5, Posted
  <1> QED
    BY <1>1, <1>2, <1>3, <1>4, <1>5
       DEF Next, Environment, Pipeline, Confirm, Complete, Migrate, Upload, BackfillGastos,
           TakeSolicitudes, Solicit, AnswerSolicitudes, PersistSolicitudes, Pair, Hold,
           PersistOps, PersistGastos, Record, PipelineFault,
           PersistSolicitudesFails, PersistOpsFails, PersistGastosFails, RecordFails, Crash

\* What is offered or edited exists.
LEMMA EditsStep ==
  ASSUME TypeOK, EditsInv, IdleInv, [Next]_vars
  PROVE  EditsInv'
  <1> USE DEF env, links, missed, plan, batch, vars
  <1>1. CASE Idle
    BY <1>1, IdleTypes DEF EditsInv
  <1>2. \A g \in Ids : Exists(g) => gasto'[g] # NoGasto
    BY GastosRemain DEF Exists
  <1>3. \A c \in Comps : edits[c] # 0 => edits[c] \in Ids
    BY IdsFinite DEF TypeOK
  <1>4. CASE UNCHANGED <<pool, blocks, edits>> /\ (pc' = "sg-post" => pc = "sg-post")
    <2>1. \A p \in Pedidos : \A g \in pool'[p] : gasto'[g] # NoGasto
      BY <1>2, <1>4 DEF EditsInv, TypeOK
    <2>2. \A c \in Comps : edits'[c] # 0 => c \in blocks' /\ gasto'[edits'[c]] # NoGasto
      BY <1>2, <1>3, <1>4 DEF EditsInv
    <2>3. pc' = "sg-post" => \A c \in blocks' : edits'[c] # 0
      BY <1>4 DEF EditsInv
    <2> QED BY <2>1, <2>2, <2>3 DEF EditsInv, Exists
  <1>5. ASSUME NEW read \in SUBSET Comps, Solicit(read) PROVE EditsInv'
    <2>1. \A c \in Comps : Resolved(c) # 0 => Resolved(c) \in Ids /\ Exists(Resolved(c))
      BY ResolvedIsUntraced DEF Untraced
    <2>2. PICK found \in SUBSET Comps :
            /\ \A c \in found : Resolved(c) # 0
            /\ blocks' = found /\ pool' = pool
            /\ edits' = [c \in Comps |-> IF c \in found THEN Resolved(c) ELSE 0]
      BY <1>5 DEF Solicit, Candidates
    <2>3. \A c \in Comps : edits'[c] # 0 => c \in blocks' /\ gasto'[edits'[c]] # NoGasto
      BY <1>2, <2>1, <2>2
    <2>4. \A c \in blocks' : edits'[c] # 0
      BY <2>2
    <2>5. \A p \in Pedidos : \A g \in pool'[p] : gasto'[g] # NoGasto
      BY <1>2, <2>2 DEF EditsInv, TypeOK
    <2> QED BY <2>3, <2>4, <2>5 DEF EditsInv, Exists
  <1>6. CASE TakeBatch
    <2>1. CASE /\ pc' = "pair"
               /\ pool' \in [Pedidos -> SUBSET {g \in Ids : Exists(g)}]
               /\ UNCHANGED <<blocks, edits>>
      <3>1. \A p \in Pedidos : \A g \in pool'[p] : gasto'[g] # NoGasto
        BY <1>2, <2>1
      <3>2. \A c \in Comps : edits'[c] # 0 => c \in blocks' /\ gasto'[edits'[c]] # NoGasto
        BY <1>2, <1>3, <2>1 DEF EditsInv
      <3> QED BY <2>1, <3>1, <3>2 DEF EditsInv, Exists
    <2>2. ASSUME NEW rows \in SUBSET Ops,
                 pool' = [p \in Pedidos |->
                   IF \E op \in Ready(rows) : p \in PedidosOf(op) THEN PortalPool(p) ELSE {}]
          PROVE  pool' \in [Pedidos -> SUBSET {g \in Ids : Exists(g)}]
      <3>1. \A p : PortalPool(p) \in SUBSET {g \in Ids : Exists(g)}
        BY DEF PortalPool
      <3> QED BY <2>2, <3>1
    <2> QED BY <1>1, <1>6, <2>1, <2>2, BatchTaken
  <1>7. ASSUME NEW c \in Comps, Pair(c) PROVE EditsInv'
    <2> DEFINE P == UNION {pool[p] : p \in SentWith(c)}
    <2>1. P \in SUBSET Ids /\ \A g \in P : Exists(g)
      BY SentWithMigrated DEF TypeOK, EditsInv
    <2>2. CASE c \notin complete
      BY <1>4, <1>7, <2>2 DEF Pair
    <2>3. CASE c \in complete
      <3>1. /\ blocks' = blocks \cup {c} /\ pc' = pc /\ pc = "pair" /\ gasto' = gasto
            /\ edits' = [edits EXCEPT ![c] = Elegido(P, c)]
            /\ pool' = [p \in Pedidos |-> pool[p] \ PoolTakes(Elegido(P, c))]
        BY <1>7, <2>3 DEF Pair
      <3> HIDE DEF P
      <3>2. Elegido(P, c) # 0 => Elegido(P, c) \in Ids /\ Exists(Elegido(P, c))
        BY <2>1, ElegidoIsOffered
      <3>3. \A d \in Comps : edits'[d] # 0 => d \in blocks' /\ gasto'[edits'[d]] # NoGasto
        BY <3>1, <3>2, <1>2, <1>3 DEF EditsInv, TypeOK
      <3>4. \A p \in Pedidos : \A g \in pool'[p] : gasto'[g] # NoGasto
        BY <3>1, <1>2 DEF EditsInv, TypeOK
      <3> QED BY <3>1, <3>3, <3>4 DEF EditsInv, Exists
    <2> QED BY <2>2, <2>3
  <1>8. CASE Post
    <2>1. CASE pc' = "persist" /\ pool' = [p \in Pedidos |-> {}] /\ edits' = [c \in Comps |-> 0]
      BY <2>1 DEF EditsInv
    <2> QED BY <1>1, <1>8, <2>1, Posted
  <1>9. CASE BackfillGastos
    BY <1>5, <1>9 DEF BackfillGastos, Requested
  <1>10. CASE TakeSolicitudes
    BY <1>5, <1>10 DEF TakeSolicitudes, Requested
  <1>11. CASE GastosDone /\ pc' \in {"record", "record-failed"}
    <2>1. \A p \in Pedidos : \A g \in pool'[p] : gasto'[g] # NoGasto
      BY <1>2, <1>11 DEF GastosDone, EditsInv, TypeOK
    <2>2. \A c \in Comps : edits'[c] = 0
      BY <1>11 DEF GastosDone
    <2> QED BY <1>11, <2>1, <2>2 DEF EditsInv, Exists
  <1> QED
    BY <1>1, <1>4, <1>6, <1>7, <1>8, <1>9, <1>10, <1>11
       DEF Next, Environment, Pipeline, Confirm, Complete, Migrate, Upload,
           AnswerSolicitudes, PersistSolicitudes, Hold, PersistOps, PersistGastos, Record, PipelineFault,
           PersistSolicitudesFails, PersistOpsFails, PersistGastosFails, RecordFails, Crash

\* A gasto leaves the pool with the invoice it is paired with, so no other is.
LEMMA PairStep ==
  ASSUME TypeOK, IdleInv, PairInv, OneEditPerGasto, [Next]_vars
  PROVE  PairInv' /\ OneEditPerGasto'
  <1> USE DEF env, links, missed, plan, batch, vars
  <1>1. CASE pc' \notin {"pair", "post"}
    BY <1>1 DEF PairInv, OneEditPerGasto
  <1>2. CASE UNCHANGED <<pool, blocks, edits, gastoLink>> /\ pc \in {"pair", "post"}
    BY <1>2 DEF PairInv, OneEditPerGasto, Linked
  <1>3. CASE Idle
    BY <1>1, <1>3, IdleTypes
  <1>4. CASE TakeBatch
    <2>1. blocks = {} /\ gastoLink' = gastoLink
      BY <1>4 DEF TakeBatch, IdleInv
    <2>2. ASSUME NEW rows \in SUBSET Ops,
                 pool' = [p \in Pedidos |->
                   IF \E op \in Ready(rows) : p \in PedidosOf(op) THEN PortalPool(p) ELSE {}],
                 blocks' = blocks
          PROVE  PairInv' /\ OneEditPerGasto'
      <3>1. \A p : PortalPool(p) \cap Linked = {}
        BY DEF PortalPool
      <3>2. \A p \in Pedidos : pool'[p] \cap Linked = {}
        BY <2>2, <3>1
      <3>3. Linked' = Linked
        BY <2>1 DEF Linked
      <3> QED BY <2>1, <2>2, <3>2, <3>3 DEF PairInv, OneEditPerGasto
    <2> QED BY <1>3, <1>4, <2>2, BatchTaken
  <1>5. ASSUME NEW c \in Comps, Pair(c) PROVE PairInv' /\ OneEditPerGasto'
    <2> DEFINE P == UNION {pool[p] : p \in SentWith(c)}
    <2>1. CASE c \notin complete
      BY <1>2, <1>5, <2>1 DEF Pair
    <2>2. CASE c \in complete
      <3> DEFINE best == Elegido(P, c)
      <3>1. best \in P \cup {0}
        <4>1. P \in SUBSET Ids
          BY SentWithMigrated DEF TypeOK
        <4> HIDE DEF P
        <4> QED BY <4>1, ElegidoIsOffered
      <3>2. \A p \in SentWith(c) : p \in Pedidos
        BY SentWithMigrated
      <3>3. best # 0 => \E p \in Pedidos : best \in pool[p]
        BY <3>1, <3>2
      <3>4. /\ blocks' = blocks \cup {c} /\ pc = "pair" /\ gastoLink' = gastoLink
            /\ edits' = [edits EXCEPT ![c] = best]
            /\ pool' = [p \in Pedidos |-> pool[p] \ {best}]
        BY <1>5, <2>2 DEF Pair, PoolTakes
      <3> HIDE DEF P, best
      <3>5. Linked' = Linked /\ 0 \notin Linked
        BY <3>4 DEF Linked
      <3>6. \A p \in Pedidos : pool'[p] \subseteq pool[p] /\ best \notin pool'[p]
        BY <3>4 DEF TypeOK
      <3>7. \A d \in blocks' : edits'[d] = IF d = c THEN best ELSE edits[d]
        BY <3>4 DEF TypeOK
      <3>8. best \notin Linked
        BY <3>3, <3>4, <3>5 DEF PairInv
      <3>9. \A d \in blocks : best # 0 => edits[d] # best
        BY <3>3, <3>4 DEF PairInv
      <3>10. PairInv'
        <4>1. \A p \in Pedidos : pool'[p] \cap Linked = {}
          BY <3>4, <3>6 DEF PairInv
        <4>2. ASSUME NEW d \in blocks'
              PROVE  edits'[d] \notin Linked /\ \A p \in Pedidos : edits'[d] \notin pool'[p]
          <5>1. CASE d = c
            BY <3>6, <3>7, <3>8, <5>1
          <5>2. CASE d # c
            BY <3>4, <3>6, <3>7, <5>2 DEF PairInv
          <5> QED BY <5>1, <5>2
        <4> QED BY <3>5, <4>1, <4>2 DEF PairInv
      <3>11. OneEditPerGasto'
        BY <3>4, <3>7, <3>9 DEF OneEditPerGasto
      <3> QED BY <3>10, <3>11
    <2> QED BY <2>1, <2>2
  <1>6. CASE Post
    BY <1>1, <1>3, <1>6, Posted
  <1>7. CASE Hold
    BY <1>2, <1>3, <1>7 DEF Hold
  <1> QED
    BY <1>1, <1>2, <1>3, <1>4, <1>5, <1>6, <1>7
       DEF Next, Environment, Pipeline, Confirm, Complete, Migrate, Upload, BackfillGastos,
           TakeSolicitudes, Solicit, AnswerSolicitudes, PersistSolicitudes, PersistOps,
           PersistGastos, Record, PipelineFault,
           PersistSolicitudesFails, PersistOpsFails, PersistGastosFails, RecordFails, Crash

\* An OP that goes out has the block of every invoice, or no gasto waits for it.
LEMMA WaitStep ==
  ASSUME TypeOK, IdleInv, WaitInv, NoGastoMadeUp, [Next]_vars
  PROVE  WaitInv' /\ NoGastoMadeUp'
  <1> USE DEF env, links, missed, plan, batch, vars
  <1>1. CASE pc' \notin {"pair", "post"}
    BY <1>1 DEF WaitInv, NoGastoMadeUp
  <1>2. CASE UNCHANGED <<pc, payload, todo, held, pool, blocks, migrated>>
    BY <1>2 DEF WaitInv, NoGastoMadeUp, PedidosOf
  <1>3. CASE Idle
    BY <1>1, <1>3, IdleTypes
  <1>4. CASE TakeBatch
    <2>1. CASE /\ pc' = "pair"
               /\ \A op \in payload' : \A c \in Pays[op] : c \in todo'
      BY <2>1 DEF WaitInv, NoGastoMadeUp
    <2> QED BY <1>3, <1>4, <2>1, BatchTaken
  <1>5. ASSUME NEW c \in Comps, Pair(c) PROVE WaitInv' /\ NoGastoMadeUp'
    <2> DEFINE P == UNION {pool[p] : p \in SentWith(c)}
    <2>1. /\ pc = "pair" /\ pc' = "pair" /\ todo' = todo \ {c} /\ payload' = payload
          /\ migrated' = migrated /\ blocks \subseteq blocks' /\ held \subseteq held'
      BY <1>5 DEF Pair
    <2>2. \A p \in Pedidos : pool'[p] \subseteq pool[p]
      BY <1>5 DEF Pair, TypeOK
    <2>3. c \in blocks' \/ P = {} \/ HeldFor(c) \subseteq held'
      BY <1>5 DEF Pair
    <2>4. \A op \in Ops : PedidosOf(op)' = PedidosOf(op) /\ PedidosOf(op) \subseteq Pedidos
      BY <2>1, PaymentsAssumption DEF PedidosOf
    <2>5. ASSUME NEW op \in payload' \ held', NEW d \in Pays[op]
          PROVE  d \in todo' \cup blocks' \/ \A p \in PedidosOf(op)' : pool'[p] = {}
      <3>1. op \in payload \ held /\ op \in Ops
        BY <2>1 DEF TypeOK
      <3>2. CASE d = c
        <4>1. PedidosOf(op) \subseteq SentWith(c)
          BY <3>1, <3>2, SentWithMigrated
        <4>2. op \notin HeldFor(c) => FALSE
          BY <3>1, <3>2 DEF HeldFor
        <4>3. c \in blocks' \/ P = {}
          BY <2>3, <2>5, <4>2
        <4>4. P = {} => \A p \in PedidosOf(op) : pool[p] = {}
          BY <4>1
        <4> HIDE DEF P
        <4>5. P = {} => \A p \in PedidosOf(op) : pool'[p] = {}
          BY <2>2, <2>4, <3>1, <4>4
        <4> QED BY <2>4, <3>1, <3>2, <4>3, <4>5
      <3>3. CASE d # c
        <4>1. d \in todo \cup blocks \/ \A p \in PedidosOf(op) : pool[p] = {}
          BY <2>1, <3>1 DEF WaitInv
        <4> QED BY <2>1, <2>2, <2>4, <3>1, <3>3, <4>1
      <3> QED BY <3>2, <3>3
    <2> QED BY <2>1, <2>5 DEF WaitInv, NoGastoMadeUp
  <1>6. CASE Hold
    <2>1. CASE ~(payload \subseteq held)
      <3>1. /\ pc = "pair" /\ todo = {} /\ pc' = "post" /\ payload' = payload \ held
            /\ UNCHANGED <<pool, blocks, migrated>>
        BY <1>6, <2>1 DEF Hold
      <3> QED BY <3>1 DEF WaitInv, NoGastoMadeUp, PedidosOf
    <2> QED BY <1>3, <1>6, <2>1 DEF Hold
  <1>7. CASE Post
    BY <1>1, <1>3, <1>7, Posted
  <1>8. CASE \E p \in Pedidos : Migrate(p)
    BY <1>1, <1>8 DEF Migrate
  <1> QED
    BY <1>1, <1>2, <1>3, <1>4, <1>5, <1>6, <1>7, <1>8
       DEF Next, Environment, Pipeline, Confirm, Complete, Upload, BackfillGastos,
           TakeSolicitudes, Solicit, AnswerSolicitudes, PersistSolicitudes, PersistOps,
           PersistGastos, Record, PipelineFault,
           PersistSolicitudesFails, PersistOpsFails, PersistGastosFails, RecordFails, Crash

\* The OPs of a payload stay confirmed, and are answered one by one.
LEMMA AnswerStep ==
  ASSUME TypeOK, IdleInv, AnswerInv, [Next]_vars
  PROVE  AnswerInv'
  <1> USE DEF env, links, missed, plan, batch, vars
  <1>1. CASE Idle
    BY <1>1, IdleTypes DEF AnswerInv
  <1>2. CASE /\ payload' \subseteq payload /\ val' = val
             /\ pc' \notin {"persist", "persist-gastos", "record", "record-failed"}
    BY <1>2 DEF AnswerInv
  <1>3. CASE UNCHANGED <<pc, payload, val, out, opLink, taken, unlinked>>
    BY <1>3 DEF AnswerInv, AnsweredOk
  <1>4. CASE TakeBatch
    <2>1. ASSUME NEW rows \in SUBSET Ops, \A op \in rows : val[op] # 0,
                 payload' = Ready(rows), pc' = "pair"
          PROVE  AnswerInv'
      <3>1. val' = val
        BY <1>4 DEF TakeBatch
      <3> QED BY <2>1, <3>1, ReadyAreRows DEF AnswerInv
    <2> QED BY <1>1, <1>4, <2>1, BatchTaken, Zenon
  <1>5. CASE Post
    <2>1. ASSUME NEW good \in SUBSET payload, pc' = "persist", payload' = payload,
                 out' = [op \in Ops |-> IF op \in good THEN "ok"
                                        ELSE IF op \in payload THEN "rejected" ELSE "none"]
          PROVE  AnswerInv'
      <3>1. val' = val
        BY <1>5 DEF Post
      <3>2. \A op \in Ops : op \in payload' <=> out'[op] # "none"
        BY <2>1
      <3> QED BY <2>1, <3>1, <3>2 DEF AnswerInv
    <2> QED BY <1>1, <1>5, <2>1, Posted
  <1>6. CASE PersistOps
    <2>1. /\ \A op \in Ops : opLink'[op] = IF op \in AnsweredOk THEN val[op] ELSE opLink[op]
          /\ pc = "persist" /\ pc' = "persist-gastos" /\ UNCHANGED <<payload, val, out>>
      BY <1>6 DEF PersistOps, OpLinked
    <2>2. AnsweredOk' = AnsweredOk /\ \A op \in AnsweredOk : op \in Ops /\ val[op] # 0
      BY <2>1 DEF AnswerInv, AnsweredOk
    <2>3. \A op \in AnsweredOk' : opLink'[op] # 0
      BY <2>1, <2>2
    <2> QED BY <2>1, <2>3 DEF AnswerInv
  <1>7. CASE PersistGastos
    BY <1>7 DEF PersistGastos, GastosDone, AnswerInv, AnsweredOk
  <1>12. CASE PersistOpsFails
    <2>1. PICK kept \in SUBSET AnsweredOk :
            /\ opLink' = OpLinked(kept)
            /\ unlinked' = (unlinked \ kept) \cup
                            {op \in (AnsweredOk \ kept) \cap taken : opLink[op] = 0}
      BY <1>12 DEF PersistOpsFails
    <2>2. /\ pc = "persist" /\ pc' = "record-failed" /\ UNCHANGED <<payload, val, out, taken>>
      BY <1>12 DEF PersistOpsFails, GastosDone
    <2>3. AnsweredOk' = AnsweredOk /\ \A op \in AnsweredOk : op \in Ops /\ val[op] # 0
      BY <2>2 DEF AnswerInv, AnsweredOk
    <2>4. ASSUME NEW op \in AnsweredOk' \cap taken'
          PROVE  opLink'[op] # 0 \/ op \in unlinked'
      <3>1. op \in AnsweredOk /\ op \in taken /\ op \in Ops /\ val[op] # 0
        BY <2>2, <2>3
      <3>2. opLink'[op] = IF op \in kept THEN val[op] ELSE opLink[op]
        BY <2>1, <3>1 DEF OpLinked
      <3> QED BY <2>1, <3>1, <3>2
    <2> QED BY <2>2, <2>4 DEF AnswerInv
  <1>13. CASE PersistGastosFails
    BY <1>13 DEF PersistGastosFails, GastosDone, AnswerInv, AnsweredOk
  <1>8. CASE \E op \in Ops : Confirm(op)
    BY <1>8 DEF Confirm, AnswerInv, IdleInv
  <1>9. CASE \/ BackfillGastos \/ TakeSolicitudes
    BY <1>2, <1>9 DEF BackfillGastos, TakeSolicitudes, Solicit
  <1>10. CASE AnswerSolicitudes
    BY <1>1, <1>2, <1>10 DEF AnswerSolicitudes
  <1>11. CASE Hold
    BY <1>1, <1>2, <1>11 DEF Hold
  <1> QED
    BY <1>1, <1>2, <1>3, <1>4, <1>5, <1>6, <1>7, <1>8, <1>9, <1>10, <1>11, <1>12, <1>13
       DEF Next, Environment, Pipeline, Complete, Migrate, Upload, PersistSolicitudes, Pair,
           Record, PipelineFault, PersistSolicitudesFails, RecordFails, Crash

\* Whatever stops an OP in build_payload leaves it queued, unless it is linked.
LEMMA TakenStep ==
  ASSUME TypeOK, AnswerInv, TakenAreKept, [Next]_vars
  PROVE  TakenAreKept'
  <1> USE DEF env, links, missed, plan, batch, vars
  <1>1. CASE UNCHANGED <<taken, queue, opLink, missed>>
    BY <1>1 DEF TakenAreKept, missed
  <1>2. CASE TakeBatch
    <2>1. PICK rows \in SUBSET Ops : \E f \in SUBSET (Rest(rows) \ Ready(rows)) :
            /\ \A op \in rows : val[op] # 0
            /\ Queue(rows, f) /\ Swallowed(Rest(rows) \ Ready(rows), f)
            /\ \/ Ready(rows) = {} /\ taken' = taken \cup rows
               \/ taken' = taken \cup (rows \ Ready(rows))
      BY <1>2, BatchTaken, Zenon
    <2>2. PICK f \in SUBSET (Rest(rows) \ Ready(rows)) :
            Queue(rows, f) /\ Swallowed(Rest(rows) \ Ready(rows), f)
      BY <2>1
    <2>3. opLink' = opLink /\ unlinked' = unlinked
      BY <1>2 DEF TakeBatch
    <2>4. SUFFICES ASSUME NEW op \in taken' \ OutOfScope
                   PROVE  opLink[op] # 0 \/ queue'[op].status # "absent" \/ op \in forgotten' \cup unlinked
      BY <2>3 DEF TakenAreKept
    <2>5. op \in Ops /\ queue[op] \in Entry
      BY <2>1, <2>4 DEF TypeOK
    <2>6. CASE op \in Unchanged(rows)
      BY <2>1, <2>6 DEF Unchanged
    <2>7. CASE op \notin Unchanged(rows) /\ op \in (Rest(rows) \ Ready(rows)) \ f
      <3>1. queue'[op] = Enqueued(queue[op], "dependency_missing")
        BY <2>2, <2>4, <2>5, <2>7 DEF Queue
      <3> QED BY <2>5, <3>1, EnqueuedIsQueued
    <2>8. CASE op \notin Unchanged(rows) /\ op \in f
      <3>1. queue'[op] = queue[op]
        BY <2>2, <2>4, <2>5, <2>8 DEF Queue
      <3>2. queue[op].status = "absent" /\ opLink[op] = 0 => op \in forgotten'
        BY <2>2, <2>8 DEF Swallowed
      <3> QED BY <3>1, <3>2
    <2>9. CASE op \notin Unchanged(rows) /\ op \notin Rest(rows) \ Ready(rows)
      <3>1. queue'[op] = queue[op]
        BY <2>2, <2>4, <2>5, <2>9 DEF Queue
      <3>2. op \in rows => op \in Rest(rows)
        BY <2>4, <2>9 DEF Rest
      <3>3. op \in taken
        BY <2>1, <2>4, <2>9, <3>2
      <3>4. op \in forgotten => op \in forgotten'
        BY <2>2, <2>9 DEF Swallowed
      <3> QED BY <2>4, <3>1, <3>3, <3>4 DEF TakenAreKept
    <2> QED BY <2>6, <2>7, <2>8, <2>9
  <1>3. CASE Hold
    <2>1. taken' = taken \cup held /\ opLink' = opLink /\ unlinked' = unlinked
      BY <1>3 DEF Hold
    <2>2. PICK f \in SUBSET held :
            /\ Swallowed(held, f)
            /\ queue' = [op \in Ops |-> IF op \in f THEN queue[op] ELSE QueuedIfHeld(op)]
      BY <1>3 DEF Hold
    <2>3. SUFFICES ASSUME NEW op \in taken' \ OutOfScope
                   PROVE  opLink[op] # 0 \/ queue'[op].status # "absent" \/ op \in forgotten' \cup unlinked
      BY <2>1 DEF TakenAreKept
    <2>4. op \in Ops /\ queue[op] \in Entry
      BY <2>1, <2>3 DEF TypeOK
    <2>5. CASE op \in held \ f
      BY <2>2, <2>4, <2>5, EnqueuedIsQueued DEF QueuedIfHeld
    <2>6. CASE op \in f
      BY <2>2, <2>4, <2>6 DEF Swallowed
    <2>7. CASE op \notin held
      BY <2>1, <2>2, <2>3, <2>4, <2>7 DEF Swallowed, QueuedIfHeld, TakenAreKept
    <2> QED BY <2>5, <2>6, <2>7
  <1>4. ASSUME NEW kept \in SUBSET AnsweredOk, opLink' = OpLinked(kept),
               forgotten \ kept \subseteq forgotten', unlinked \ kept \subseteq unlinked',
               pc = "persist", UNCHANGED <<taken, queue>>
        PROVE  TakenAreKept'
    <2>1. \A op \in kept : op \in Ops /\ val[op] # 0
      BY <1>4 DEF AnswerInv, AnsweredOk
    <2>2. \A op \in Ops : opLink'[op] = IF op \in kept THEN val[op] ELSE opLink[op]
      BY <1>4 DEF OpLinked
    <2> QED BY <1>4, <2>1, <2>2 DEF TakenAreKept, TypeOK
  <1>5. ASSUME NEW done \in SUBSET payload, pc \in {"record", "record-failed"},
               UNCHANGED <<opLink, missed>>,
               queue' = [op \in Ops |-> IF op \in done THEN Recorded(op) ELSE queue[op]],
               taken' = taken \/ (pc = "record" /\ done = payload /\ taken' = taken \cup payload)
        PROVE  TakenAreKept'
    <2>1. SUFFICES ASSUME NEW op \in taken' \ OutOfScope
                   PROVE  opLink[op] # 0 \/ queue'[op].status # "absent" \/ op \in forgotten \cup unlinked
      BY <1>5 DEF TakenAreKept, missed
    <2>2. op \in Ops /\ queue[op] \in Entry /\ out[op] \in {"none", "ok", "rejected"}
      BY <1>5, <2>1 DEF TypeOK
    <2>3. CASE op \in done /\ out[op] = "ok"
      <3>1. op \in AnsweredOk
        BY <2>2, <2>3 DEF AnsweredOk
      <3> QED BY <1>5, <2>1, <3>1 DEF AnswerInv
    <2>4. CASE op \in done /\ out[op] = "rejected"
      <3>1. queue'[op] = Enqueued(queue[op], "backend_rejected")
        BY <1>5, <2>2, <2>4 DEF Recorded
      <3> QED BY <2>2, <3>1, EnqueuedIsQueued
    <2>5. CASE op \notin done
      <3>1. queue'[op] = queue[op] /\ op \in taken
        BY <1>5, <2>1, <2>2, <2>5
      <3> QED BY <2>1, <3>1 DEF TakenAreKept
    <2>6. op \in done => out[op] # "none"
      BY <1>5, <2>2 DEF AnswerInv
    <2> QED BY <2>2, <2>3, <2>4, <2>5, <2>6
  <1>8. CASE Record
    <2>1. \A op \in Ops : op \notin payload => Recorded(op) = queue[op]
      BY <1>8 DEF Record, AnswerInv, Recorded
    <2>2. queue' = [op \in Ops |-> IF op \in payload THEN Recorded(op) ELSE queue[op]]
      BY <1>8, <2>1 DEF Record
    <2>3. taken' = taken \/ (pc = "record" /\ taken' = taken \cup payload)
      BY <1>8 DEF Record, TakenNow
    <2> QED BY <1>5, <1>8, <2>2, <2>3 DEF Record
  <1>9. CASE RecordFails
    BY <1>5, <1>9 DEF RecordFails
  <1>6. CASE PersistOps
    BY <1>4, <1>6 DEF PersistOps
  <1>7. CASE PersistOpsFails
    BY <1>4, <1>7 DEF PersistOpsFails
  <1> QED
    BY <1>1, <1>2, <1>3, <1>6, <1>7, <1>8, <1>9
       DEF Next, Environment, Pipeline, Confirm, Complete, Migrate, Upload, BackfillGastos,
           TakeSolicitudes, Solicit, AnswerSolicitudes, PersistSolicitudes, Pair, Post,
           PersistGastos, PipelineFault, PersistSolicitudesFails, PersistGastosFails, Crash

(***************************************************************************)
(* The theorems.                                                           *)
(***************************************************************************)

\* With no batch, no gasto and no order the invariant holds.
LEMMA InitIInv ==
  ASSUME Init
  PROVE  IInv
  <1> USE DEF Init
  <1>1. TypeOK
    BY EntryTypes, MaxAttemptsAssumption DEF TypeOK, NoEntry, Entry, Statuses
  <1>2. IdleInv /\ EditsInv /\ PairInv /\ WaitInv /\ AnswerInv
    BY DEF IdleInv, EditsInv, PairInv, WaitInv, AnswerInv
  <1>3. OneEditPerGasto /\ NoGastoMadeUp /\ TakenAreKept
    BY DEF OneEditPerGasto, NoGastoMadeUp, TakenAreKept
  <1> QED BY <1>1, <1>2, <1>3 DEF IInv

\* The parts together are inductive: what is offered and edited exists, is not
\* linked and leaves the pool once paired; an OP that is not held misses no block
\* while a gasto waits; and every OP of a payload is answered.
THEOREM InductiveInvariant == Spec => []IInv
  <1>1. IInv /\ [Next]_vars => IInv'
    BY TypeStep, IdleStep, EditsStep, PairStep, WaitStep, AnswerStep, TakenStep DEF IInv
  <1> QED BY <1>1, InitIInv, PTL DEF Spec

\* The variables of the payload keep their types.
THEOREM Typing == Spec => []TypeOK
  BY InductiveInvariant, PTL DEF IInv

\* In one payload no gasto of the portal is completed with two invoices.
THEOREM OneEdit == Spec => []OneEditPerGasto
  BY InductiveInvariant, PTL DEF IInv

\* No OP is posted without the block of an invoice whose gasto may be waiting.
THEOREM NoneMadeUp == Spec => []NoGastoMadeUp
  BY InductiveInvariant, PTL DEF IInv

\* Every OP a good batch took is linked, queued or out of scope, though either store
\* fails at any time: what they lose is an OP that Paxapos answered ok, or one whose
\* entry was lost in _enqueue_op, and no other.
THEOREM TakenKept == Spec => []TakenAreKept
  BY InductiveInvariant, PTL DEF IInv

\* One step keeps the number of a gasto that is linked and has it.
LEMMA LinkedStep ==
  ASSUME IInv, [Next]_vars, NEW c \in Comps, NEW g \in Linked, gasto[g].nro = c
  PROVE  gasto'[g].nro = c
  <1>1. g \in Ids
    BY IdsFinite DEF Linked, IInv, TypeOK
  <1>2. Exists(g)
    BY NumbersAssumption DEF Exists, NoGasto
  <1>3. ASSUME NEW d \in Comps, Upload(d) PROVE gasto'[g].nro = c
    <2>1. PICK h \in Free : \E n : gasto' = [gasto EXCEPT ![h] = n]
      BY <1>3 DEF Upload
    <2>2. h # g
      BY <1>2 DEF Free
    <2> QED BY <1>1, <2>1, <2>2 DEF IInv, TypeOK
  <1>4. CASE AnswerSolicitudes
    <2>1. PICK first \in [{edits[d] : d \in blocks} -> blocks] :
            gasto' = [h \in Ids |-> IF h \in DOMAIN first THEN Filled(h, first[h]) ELSE gasto[h]]
      BY <1>4 DEF AnswerSolicitudes
    <2>2. CASE g \in DOMAIN first
      <3>1. first[g] \in Comps
        BY <2>2 DEF IInv, TypeOK
      <3> QED BY <1>1, <1>2, <2>1, <2>2, <3>1, FilledGasto DEF IInv
    <2>3. CASE g \notin DOMAIN first
      BY <1>1, <2>1, <2>3
    <2> QED BY <2>2, <2>3
  <1>5. CASE Post
    <2>1. PICK L \in SUBSET Comps : \E id \in [L -> Ids] :
            (\A d \in L : id[d] \in Lands(d)) /\ gasto' = Applied(id)
      BY <1>5, Posted DEF IInv
    <2>2. PICK id \in [L -> Ids] : (\A d \in L : id[d] \in Lands(d)) /\ gasto' = Applied(id)
      BY <2>1
    <2>3. ASSUME NEW d \in L, id[d] = g, Applied(id)[g] = Edited(g, d)
          PROVE  gasto'[g].nro = c
      <3>1. g \in Lands(d)
        BY <2>2, <2>3
      <3>2. edits[d] = 0
        \* What is edited is not linked.
        <4>1. edits[d] # 0 => d \in blocks /\ edits[d] = g
          BY <3>1 DEF Lands, IInv, EditsInv
        <4>2. \A e \in blocks : edits[e] \notin Linked
          BY <1>5 DEF Post, IInv, PairInv
        <4> QED BY <4>1, <4>2
      <3>3. g \in Numbered(d)
        BY <1>2, <3>1, <3>2 DEF Lands, Free
      <3>4. d = c
        BY <3>3 DEF Numbered
      <3> QED BY <1>1, <1>2, <2>2, <2>3, <3>4, EditedGasto DEF IInv
    <2> QED BY <1>1, <1>2, <2>2, <2>3, AppliedGasto
  <1>6. CASE UNCHANGED gasto
    BY <1>6
  <1> QED
    BY <1>3, <1>4, <1>5, <1>6
       DEF Next, Environment, Pipeline, vars, env, links, missed, plan, batch, Confirm, Complete,
           Migrate, BackfillGastos, TakeSolicitudes, Solicit, PersistSolicitudes, TakeBatch,
           Pair, Hold, PersistOps, PersistGastos, Record, PipelineFault,
           PersistSolicitudesFails, PersistOpsFails, PersistGastosFails, RecordFails, Crash

\* What is linked to an invoice under its number is never given to another.
THEOREM LinkedStay == Spec => LinkedGastosStay
  <1>1. IInv /\ [Next]_vars =>
          [\A c \in Comps, g \in Linked :
             g \in {gastoLink[OpKey(c)], gastoLink[c]} /\ gasto[g].nro = c
               => gasto'[g].nro = c]_vars
    BY LinkedStep
  <1> QED BY <1>1, InductiveInvariant, PTL DEF Spec, LinkedGastosStay
=============================================================================
