--------------------------- MODULE RelayerTx_proofs ---------------------------
(***************************************************************************)
(* The relayer wallet, for any number of purchases and claims, any pool    *)
(* and chain, and any faults and restarts: NonceInv and EthAfterMint are   *)
(* preserved by every step, and each step is one of RelayService or leaves *)
(* what the service shows as it is.                                        *)
(***************************************************************************)
EXTENDS RelayerTx, TLAPS, FiniteSetTheorems, SequenceTheorems

-----------------------------------------------------------------------------
(* Facts about the node *)

\* Len(chain)..Len(chain)+Cardinality(pool), where TakeNonce looks for the
\* pending nonce, is a range of naturals.
LEMMA PendingRange ==
    ASSUME TypeOK, NEW n \in Len(chain)..(Len(chain) + Cardinality(pool))
    PROVE  n \in Nat
<1>1. Cardinality(pool) \in Nat
  BY FS_CardinalityType DEF TypeOK
<1>2. Len(chain) \in Nat
  BY LenProperties DEF TypeOK
<1> QED BY <1>1, <1>2

\* The chain or the pool only gains nonces: what was reachable stays reachable.
LEMMA ReachableStays ==
    ASSUME NEW n \in Nat, Reachable(n),
           Occupied \cup burned \subseteq Occupied' \cup burned'
    PROVE  Reachable(n)'
  BY DEF Reachable

\* Pend(r) occupies nonce[r] and keeps the rest.
LEMMA PendOccupies ==
    ASSUME TypeOK, NEW r \in Request, Pend(r), chain' = chain, nonce' = nonce
    PROVE  /\ Occupied' = Occupied \cup {nonce[r]}
           /\ pool' \subseteq Tx /\ IsFiniteSet(pool')
<1> DEFINE t == [req |-> r, leg |-> leg[r], nonce |-> nonce[r]]
           kept == {u \in pool : u.nonce # nonce[r]}
<1>1. pool' = kept \cup {t}
  BY DEF Pend
<1>2. t \in Tx /\ t.nonce = nonce[r]
  BY DEF TypeOK, Tx
<1>3. IsFiniteSet(kept)
  BY FS_Subset DEF TypeOK
<1>4. IsFiniteSet(pool')
  BY <1>1, <1>3, FS_AddElement
<1> HIDE DEF t
<1>5. PoolNonces' = PoolNonces \cup {nonce[r]}
  <2>1. ASSUME NEW u \in pool' PROVE u.nonce \in PoolNonces \cup {nonce[r]}
    BY <1>1, <1>2 DEF PoolNonces
  <2>2. ASSUME NEW u \in pool PROVE \E v \in pool' : v.nonce = u.nonce
    BY <1>1, <1>2
  <2>3. nonce[r] \in PoolNonces'
    BY <1>1, <1>2 DEF PoolNonces
  <2> QED BY <2>1, <2>2, <2>3 DEF PoolNonces
<1>6. Occupied' = Occupied \cup {nonce[r]}
  BY <1>5 DEF Occupied
<1> QED BY <1>1, <1>2, <1>4, <1>6 DEF TypeOK

\* A mined transaction moves its nonce from the pool to the chain.
LEMMA MineOccupies ==
    ASSUME TypeOK, Mine
    PROVE  /\ Occupied \subseteq Occupied'
           /\ pool' \subseteq pool /\ IsFiniteSet(pool')
           /\ chain' \in Seq(Block)
<1>1. PICK t \in pool, success \in BOOLEAN :
         /\ t.nonce = Len(chain)
         /\ pool' = pool \ {t}
         /\ chain' = Append(chain, [req |-> t.req, leg |-> t.leg, success |-> success])
  BY DEF Mine
<1>2. [req |-> t.req, leg |-> t.leg, success |-> success] \in Block
  BY DEF TypeOK, Tx, Block
<1>3. chain' \in Seq(Block) /\ Len(chain') = Len(chain) + 1 /\ Len(chain) \in Nat
  BY <1>1, <1>2, AppendProperties, LenProperties DEF TypeOK
<1>4. IsFiniteSet(pool')
  BY <1>1, FS_Subset DEF TypeOK
<1>5. ASSUME NEW m \in Occupied PROVE m \in Occupied'
  <2>1. CASE m \in 0..Len(chain) - 1
    BY <2>1, <1>3 DEF Occupied
  <2>2. CASE m \in PoolNonces
    <3>1. PICK u \in pool : u.nonce = m
      BY <2>2 DEF PoolNonces
    <3>2. CASE u = t
      BY <3>1, <3>2, <1>1, <1>3 DEF Occupied
    <3>3. CASE u # t
      BY <3>1, <3>3, <1>1 DEF Occupied, PoolNonces
    <3> QED BY <3>2, <3>3
  <2> QED BY <2>1, <2>2 DEF Occupied
<1> QED BY <1>1, <1>3, <1>4, <1>5

-----------------------------------------------------------------------------
(* The window *)

\* Mutex's view of the program counter.
LEMMA InsideIsHolding ==
    ASSUME TypeOK
    PROVE  Lock!Inside = {r \in Request : pc[r] \in Holding}
  BY DEF Lock!Inside, LockPhase, TypeOK, Location, Holding, Final

\* Nobody enters the window but through Acquire, which finds it empty.
LEMMA WindowStep ==
    ASSUME TypeOK, TypeOK', WindowExclusive,
           \/ \A r \in Request : pc'[r] \in Holding => pc[r] \in Holding
           \/ \E r \in Request : Acquire(r)
    PROVE  WindowExclusive'
<1>1. Lock!Inside = {r \in Request : pc[r] \in Holding}
  BY InsideIsHolding
<1>2. Lock!Inside' = {r \in Request : pc'[r] \in Holding}
  BY DEF Lock!Inside, LockPhase, TypeOK, Location, Holding, Final
<1>3. CASE \A r \in Request : pc'[r] \in Holding => pc[r] \in Holding
  BY <1>1, <1>2, <1>3 DEF WindowExclusive, Lock!MutualExclusion
<1>4. CASE \E r \in Request : Acquire(r)
  <2>1. PICK r \in Request : Lock!Inside = {} /\ pc' = [pc EXCEPT ![r] = "sending"]
    BY <1>4 DEF Acquire, Goto
  <2>2. \A s \in Request : pc'[s] \in Holding => s = r
    BY <1>1, <2>1 DEF TypeOK
  <2> QED BY <1>2, <2>2 DEF WindowExclusive, Lock!MutualExclusion
<1> QED BY <1>3, <1>4

-----------------------------------------------------------------------------
(* The nonces *)

NonceView == GapsAreBurned /\ SignedIsReachable /\ ManagerIsBehind

\* A step that takes no nonce keeps the views of the nonce in order, if a
\* purchase that stops being about to send leaves its nonce occupied or burned.
LEMMA NonceKept ==
    ASSUME TypeOK, TypeOK', NonceView, nonce' = nonce,
           Occupied \cup burned \subseteq Occupied' \cup burned',
           \A t \in pool' : \/ t \in pool
                            \/ \E r \in Request : pc[r] = "signed" /\ t.nonce = nonce[r],
           \A r \in Request : pc'[r] = "signed" => pc[r] = "signed",
           \A r \in Purchase : pc[r] = "signed" =>
               pc'[r] = "signed" \/ nonce[r] \in Occupied' \cup burned',
           \/ base' = base /\ delta' = delta
           \/ base' \notin Nat /\ (base' = Unread => delta' = 0)
    PROVE  NonceView'
<1>1. GapsAreBurned'
  <2> SUFFICES ASSUME NEW t \in pool' PROVE Reachable(t.nonce)'
    BY DEF GapsAreBurned
  <2>1. t.nonce \in Nat
    BY DEF TypeOK, Tx
  <2>2. Reachable(t.nonce)
    BY DEF NonceView, GapsAreBurned, SignedIsReachable
  <2> QED BY <2>1, <2>2, ReachableStays
<1>2. SignedIsReachable'
  <2> SUFFICES ASSUME NEW r \in Request, pc'[r] = "signed" PROVE Reachable(nonce[r])'
    BY DEF SignedIsReachable
  <2>1. nonce[r] \in Nat /\ Reachable(nonce[r])
    BY DEF TypeOK, NonceView, SignedIsReachable
  <2> QED BY <2>1, ReachableStays
<1>3. ManagerIsBehind'
  <2>1. SignedPurchase \subseteq Occupied' \cup burned' \cup SignedPurchase'
    BY DEF SignedPurchase
  <2>2. CASE base' = base /\ delta' = delta
    BY <2>1, <2>2 DEF NonceView, ManagerIsBehind
  <2>3. CASE base' \notin Nat /\ (base' = Unread => delta' = 0)
    BY <2>3 DEF ManagerIsBehind
  <2> QED BY <2>2, <2>3
<1> QED BY <1>1, <1>2, <1>3 DEF NonceView

\* Unpack NonceInv, and pack it again.
LEMMA NonceInvParts == NonceInv <=> TypeOK /\ WindowExclusive /\ NonceView
  BY DEF NonceInv, NonceView

-----------------------------------------------------------------------------
(* The steps *)

\* Nothing is sent before the first request.
LEMMA InitNonceInv == Init => NonceInv
<1> SUFFICES ASSUME Init PROVE NonceInv
  OBVIOUS
<1>1. TypeOK
  BY RelayerTxAssumption, FS_EmptySet DEF Init, TypeOK, Location, Tx
<1>2. WindowExclusive
  BY <1>1, InsideIsHolding DEF Init, WindowExclusive, Lock!MutualExclusion, Holding
<1>3. NonceView
  BY RelayerTxAssumption
     DEF Init, NonceView, GapsAreBurned, SignedIsReachable, ManagerIsBehind
<1> QED BY <1>1, <1>2, <1>3, NonceInvParts

\* The steps that only move a request along: they leave the network alone and
\* no nonce is taken or given up.
LEMMA MoveNonceInv ==
    ASSUME NonceInv, NEW r \in Request,
           \/ Arrive(r) \/ Acquire(r) \/ Confirm(r) \/ WaitFails(r)
           \/ NonceReadFails(r) \/ NonceUnreadable(r)
    PROVE  NonceInv'
<1>0. TypeOK /\ WindowExclusive /\ NonceView
  BY NonceInvParts
<1>1. /\ UNCHANGED <<nonce, pool, chain, admits, burned>>
      /\ \E l \in Location \ {"signed"} : pc' = [pc EXCEPT ![r] = l]
      /\ pc[r] # "signed"
      /\ leg' = leg \/ leg' = [leg EXCEPT ![r] = 2]
  BY DEF Arrive, Acquire, Confirm, WaitFails, NonceReadFails, NonceUnreadable, Goto,
         network, signer, bounds, Location, Holding, Final
<1>2. \/ base' = base /\ delta' = delta
      \/ base' = Unreadable /\ delta' = delta + 1
  BY DEF Arrive, Acquire, Confirm, WaitFails, NonceReadFails, NonceUnreadable, signer
<1>3. faults' \in 0..MaxFaults /\ crashes' \in 0..MaxCrashes
  BY <1>0, RelayerTxAssumption
     DEF TypeOK, Arrive, Acquire, Confirm, WaitFails, NonceReadFails, NonceUnreadable, bounds
<1>4. TypeOK'
  BY SMTT(30), <1>0, <1>1, <1>2, <1>3 DEF TypeOK
<1>5. WindowExclusive'
  <2>1. CASE Acquire(r)
    BY <2>1, <1>0, <1>4, WindowStep
  <2>2. CASE \/ Arrive(r) \/ Confirm(r) \/ WaitFails(r)
             \/ NonceReadFails(r) \/ NonceUnreadable(r)
    <3>1. \A q \in Request : pc'[q] \in Holding => pc[q] \in Holding
      BY <2>2, <1>0 DEF TypeOK, Arrive, Confirm, WaitFails, NonceReadFails,
                        NonceUnreadable, Goto, Holding
    <3> QED BY <3>1, <1>0, <1>4, WindowStep
  <2> QED BY <2>1, <2>2
<1>6. NonceView'
  <2>1. Occupied' = Occupied
    BY <1>1 DEF Occupied, PoolNonces
  <2>2. \A q \in Request : pc'[q] = "signed" <=> pc[q] = "signed"
    BY <1>0, <1>1 DEF TypeOK
  <2>3. \/ base' = base /\ delta' = delta
        \/ base' \notin Nat /\ base' # Unread
    BY <1>2, RelayerTxAssumption
  <2> QED BY <2>1, <2>2, <2>3, <1>0, <1>1, <1>4, NonceKept DEF Request
<1> QED BY <1>4, <1>5, <1>6 DEF NonceInv, NonceView

\* A send that ends early burns its nonce, unless the node holds it already.
LEMMA UnsentNonceInv ==
    ASSUME NonceInv, NEW r \in Request, EstimateReverts(r) \/ Rejected(r) \/ RpcError(r)
    PROVE  NonceInv'
<1>0. TypeOK /\ WindowExclusive /\ NonceView
  BY NonceInvParts
<1>1. pc[r] = "signed" /\ Unsent(r)
  BY DEF EstimateReverts, Rejected, RpcError, Estimated
<1>2. faults' \in 0..MaxFaults /\ crashes' \in 0..MaxCrashes
  BY <1>0, RelayerTxAssumption DEF TypeOK, EstimateReverts, Rejected, RpcError, bounds
<1>3. /\ pc' = [pc EXCEPT ![r] = "failed"]
      /\ UNCHANGED <<leg, nonce, base, delta, pool, chain, admits>>
      /\ burned \subseteq burned' /\ burned' \subseteq Nat
      /\ r \in Purchase => nonce[r] \in Occupied \cup burned'
  BY <1>0, <1>1 DEF Unsent, Goto, network, TypeOK
<1>4. TypeOK'
  BY <1>0, <1>2, <1>3 DEF TypeOK, Location, Final
<1>5. WindowExclusive'
  <2>1. \A q \in Request : pc'[q] \in Holding => pc[q] \in Holding
    BY <1>0, <1>3 DEF TypeOK, Holding
  <2> QED BY <2>1, <1>0, <1>4, WindowStep
<1>6. NonceView'
  <2>1. Occupied' = Occupied
    BY <1>3 DEF Occupied, PoolNonces
  <2>2. \A q \in Request : /\ pc'[q] = "signed" => pc[q] = "signed"
                           /\ pc[q] = "signed" => pc'[q] = "signed" \/ q = r
    BY <1>0, <1>3 DEF TypeOK
  <2> QED BY <2>1, <2>2, <1>0, <1>3, <1>4, NonceKept DEF Request
<1> QED BY <1>4, <1>5, <1>6 DEF NonceInv, NonceView

\* The node takes the transaction: a signed nonce becomes an occupied one.
LEMMA SentNonceInv ==
    ASSUME NonceInv, NEW r \in Request, Accepted(r) \/ AnswerLost(r)
    PROVE  NonceInv'
<1>0. TypeOK /\ WindowExclusive /\ NonceView
  BY NonceInvParts
<1>1. /\ pc[r] = "signed" /\ Pend(r)
      /\ pc' = [pc EXCEPT ![r] = "confirming"] \/ pc' = [pc EXCEPT ![r] = "failed"]
      /\ UNCHANGED <<leg, nonce, base, delta, burned, chain, admits>>
  BY DEF Accepted, AnswerLost, Estimated, Goto, signer
<1>2. faults' \in 0..MaxFaults /\ crashes' \in 0..MaxCrashes
  BY <1>0, RelayerTxAssumption DEF TypeOK, Accepted, AnswerLost, bounds
<1>3. Occupied' = Occupied \cup {nonce[r]} /\ pool' \subseteq Tx /\ IsFiniteSet(pool')
  BY <1>0, <1>1, PendOccupies
<1>4. TypeOK'
  BY <1>0, <1>1, <1>2, <1>3 DEF TypeOK, Location, Holding, Final
<1>5. WindowExclusive'
  <2>1. \A q \in Request : pc'[q] \in Holding => pc[q] \in Holding
    BY <1>0, <1>1 DEF TypeOK, Holding
  <2> QED BY <2>1, <1>0, <1>4, WindowStep
<1>6. NonceView'
  <2>1. \A t \in pool' : t \in pool \/ t.nonce = nonce[r]
    BY <1>1 DEF Pend
  <2>2. \A q \in Request : /\ pc'[q] = "signed" => pc[q] = "signed"
                           /\ pc[q] = "signed" => pc'[q] = "signed" \/ q = r
    BY <1>0, <1>1 DEF TypeOK
  <2> QED BY <2>1, <2>2, <1>0, <1>1, <1>3, <1>4, NonceKept DEF Request
<1> QED BY <1>4, <1>5, <1>6 DEF NonceInv, NonceView

\* The nonce taken is the node's next one, or the NonceManager's, below which
\* everything is occupied or burned.
LEMMA TakeNonceNonceInv ==
    ASSUME NonceInv, NEW r \in Request, TakeNonce(r)
    PROVE  NonceInv'
<1>0. TypeOK /\ WindowExclusive /\ NonceView
  BY NonceInvParts
<1>1. /\ pc[r] = "sending" /\ pc' = [pc EXCEPT ![r] = "signed"]
      /\ UNCHANGED <<leg, burned, pool, chain, admits, faults, crashes>>
  BY DEF TakeNonce, Goto, network, bounds
<1>2. \/ base \in Nat /\ ManagedNonce(r, base)
      \/ \E n \in Nat : /\ IsPendingNonce(n)
                        /\ (base = Unread /\ ManagedNonce(r, n)) \/ BareNonce(r, n)
  BY <1>0, PendingRange DEF TakeNonce
<1>3. \A q \in Request : pc[q] # "signed"
  <2>1. \A q \in Request : pc[q] \in Holding => q = r
    BY <1>0, <1>1, InsideIsHolding DEF WindowExclusive, Lock!MutualExclusion, Holding
  <2> QED BY <2>1, <1>1 DEF Holding
<1>4. Occupied' = Occupied
  BY <1>1 DEF Occupied, PoolNonces
<1>5. SignedPurchase = {}
  BY <1>3 DEF SignedPurchase, Request
<1>6. \/ /\ r \in Purchase /\ base' \in Nat
         /\ nonce' = [nonce EXCEPT ![r] = base' + delta] /\ delta' = delta + 1
         /\ \A m \in 0..base'+delta-1 : m \in Occupied \cup burned
      \/ /\ r \in Claim /\ base' = base /\ delta' = delta
         /\ \E n \in Nat : nonce' = [nonce EXCEPT ![r] = n] /\ Reachable(n)
  <2>1. CASE base \in Nat /\ ManagedNonce(r, base)
    BY <2>1, <1>0, <1>5 DEF ManagedNonce, NonceView, ManagerIsBehind
  <2>2. ASSUME NEW n \in Nat, IsPendingNonce(n), base = Unread, ManagedNonce(r, n)
        PROVE  <1>6!1
    <3>1. delta = 0
      BY <2>2, <1>0 DEF NonceView, ManagerIsBehind
    <3> QED BY <2>2, <3>1 DEF ManagedNonce, IsPendingNonce
  <2>3. ASSUME NEW n \in Nat, IsPendingNonce(n), BareNonce(r, n)
        PROVE  <1>6!2
    BY <2>3 DEF BareNonce, IsPendingNonce, Reachable
  <2> QED BY <1>2, <2>1, <2>2, <2>3
<1>7. nonce' \in [Request -> Nat] /\ delta' \in Nat /\ base' \in Nat \cup {Unread, Unreadable}
  <2>1. CASE <1>6!1
    <3>1. PICK b \in Nat : base' = b
      BY <2>1
    <3>2. PICK d \in Nat : delta = d
      BY <1>0 DEF TypeOK
    <3>3. nonce' = [nonce EXCEPT ![r] = b + d] /\ delta' = d + 1
      BY <2>1, <3>1, <3>2
    <3> QED BY <3>1, <3>3, <1>0 DEF TypeOK
  <2>2. CASE <1>6!2
    BY <2>2, <1>0 DEF TypeOK
  <2> QED BY <2>1, <2>2, <1>6
<1>8. TypeOK'
  BY <1>0, <1>1, <1>7 DEF TypeOK, Location, Holding
<1>9. WindowExclusive'
  <2>1. \A q \in Request : pc'[q] \in Holding => pc[q] \in Holding
    BY <1>0, <1>1 DEF TypeOK, Holding
  <2> QED BY <2>1, <1>0, <1>8, WindowStep
<1>10. Reachable(nonce'[r])
  BY SMTT(30), <1>0, <1>6 DEF TypeOK, Reachable
<1>11. GapsAreBurned'
  BY <1>0, <1>1, <1>4 DEF NonceView, GapsAreBurned, Reachable
<1>12. SignedIsReachable'
  <2>1. \A q \in Request : pc'[q] = "signed" => q = r
    BY <1>0, <1>1, <1>3 DEF TypeOK
  <2> QED BY <2>1, <1>1, <1>4, <1>10 DEF SignedIsReachable, Reachable
<1>13. ManagerIsBehind'
  <2>1. CASE r \in Claim
    <3>1. base' = base /\ delta' = delta
      BY <2>1, <1>6, RelayerTxAssumption
    <3>2. \A m \in 0..base+delta-1 : base \in Nat => m \in Occupied \cup burned
      BY <1>0, <1>5 DEF NonceView, ManagerIsBehind
    <3> QED BY <3>1, <3>2, <1>0, <1>1, <1>4 DEF NonceView, ManagerIsBehind
  <2>2. CASE r \in Purchase
    <3>1. /\ base' \in Nat /\ nonce'[r] = base' + delta /\ delta' = delta + 1
          /\ \A m \in 0..base'+delta-1 : m \in Occupied \cup burned
      BY <2>2, <1>0, <1>6, RelayerTxAssumption DEF TypeOK
    <3>2. base' + delta \in SignedPurchase'
      BY <2>2, <3>1, <1>0, <1>1 DEF SignedPurchase, TypeOK
    <3>3. base' # Unread
      BY <3>1, RelayerTxAssumption
    <3>4. ASSUME NEW m \in 0..base'+delta'-1
          PROVE  m \in Occupied' \cup burned' \cup SignedPurchase'
      <4>1. m \in 0..base'+delta-1 \/ m = base' + delta
        <5>1. PICK b \in Nat, d \in Nat : base' = b /\ delta = d /\ delta' = d + 1
          BY <3>1, <1>0 DEF TypeOK
        <5>2. m \in 0..b+d+1-1
          BY <5>1
        <5>3. m \in 0..b+d-1 \/ m = b + d
          BY <5>2
        <5> QED BY <5>1, <5>3
      <4> QED BY <4>1, <3>1, <3>2, <1>1, <1>4
    <3> QED BY <3>3, <3>4 DEF ManagerIsBehind
  <2> QED BY <2>1, <2>2 DEF Request
<1> QED BY <1>8, <1>9, <1>11, <1>12, <1>13 DEF NonceInv

\* Nonces pass from the pool to the chain.
LEMMA MineNonceInv ==
    ASSUME NonceInv, Mine
    PROVE  NonceInv'
<1>0. TypeOK /\ WindowExclusive /\ NonceView
  BY NonceInvParts
<1>1. /\ Occupied \subseteq Occupied'
      /\ pool' \subseteq pool /\ IsFiniteSet(pool')
      /\ chain' \in Seq(Block)
  BY <1>0, MineOccupies
<1>2. /\ admits' \in 0..MaxAdmits
      /\ UNCHANGED <<pc, leg, nonce, base, delta, burned, faults, crashes>>
  <2>1. admits' = admits \/ (admits > 0 /\ admits' = admits - 1)
    BY DEF Mine
  <2> QED BY <2>1, <1>0, RelayerTxAssumption DEF Mine, client, signer, bounds, TypeOK
<1>3. TypeOK'
  BY <1>0, <1>1, <1>2 DEF TypeOK
<1>4. WindowExclusive'
  BY <1>0, <1>2, <1>3, WindowStep
<1>5. NonceView'
  BY <1>0, <1>1, <1>2, <1>3, NonceKept
<1> QED BY <1>3, <1>4, <1>5 DEF NonceInv, NonceView

\* A restart forgets the NonceManager and everybody in the window.
LEMMA CrashNonceInv ==
    ASSUME NonceInv, Crash
    PROVE  NonceInv'
<1>0. TypeOK /\ WindowExclusive /\ NonceView
  BY NonceInvParts
<1>1. /\ crashes' \in 0..MaxCrashes
      /\ base' = Unread /\ delta' = 0
      /\ pc' = [q \in Request |->
                  IF pc[q] \in {"waiting"} \cup Holding THEN "lost" ELSE pc[q]]
      /\ UNCHANGED <<leg, nonce, burned, pool, chain, admits, faults>>
  BY <1>0, RelayerTxAssumption DEF Crash, network, TypeOK
<1>2. TypeOK'
  BY <1>0, <1>1 DEF TypeOK, Location, Holding, Final
<1>3. \A q \in Request : pc'[q] \notin Holding
  BY <1>1 DEF Holding
<1>4. WindowExclusive'
  BY <1>0, <1>2, <1>3, WindowStep
<1>5. Occupied' = Occupied
  BY <1>1 DEF Occupied, PoolNonces
<1>6. GapsAreBurned'
  BY <1>0, <1>1, <1>5 DEF NonceView, GapsAreBurned, Reachable
<1>7. SignedIsReachable' /\ ManagerIsBehind'
  BY <1>1, <1>3, RelayerTxAssumption DEF SignedIsReachable, ManagerIsBehind, Holding
<1> QED BY <1>2, <1>4, <1>6, <1>7 DEF NonceInv

\* A step that only changes what CoverRouter would accept, or nothing.
LEMMA IdleNonceInv ==
    ASSUME NonceInv, UNCHANGED <<client, signer, pool, chain, bounds>>, admits' \in 0..MaxAdmits
    PROVE  NonceInv'
<1>0. TypeOK /\ WindowExclusive /\ NonceView
  BY NonceInvParts
<1>1. UNCHANGED <<pc, leg, nonce, base, delta, burned, pool, chain, faults, crashes>>
  BY DEF client, signer, bounds
<1>2. TypeOK'
  BY <1>0, <1>1 DEF TypeOK
<1>3. WindowExclusive'
  BY <1>0, <1>1, <1>2, WindowStep
<1>4. Occupied' = Occupied
  BY <1>1 DEF Occupied, PoolNonces
<1>5. NonceView'
  BY <1>0, <1>1, <1>2, <1>4, NonceKept
<1> QED BY <1>2, <1>3, <1>5 DEF NonceInv, NonceView

\* Every step of a request, of the node and of the process.
LEMMA NextNonceInv == NonceInv /\ [Next]_vars => NonceInv'
<1> SUFFICES ASSUME NonceInv, [Next]_vars PROVE NonceInv'
  OBVIOUS
<1>1. ASSUME NEW r \in Request, Arrive(r) \/ Step(r) \/ Fault(r) PROVE NonceInv'
  BY <1>1, MoveNonceInv, UnsentNonceInv, SentNonceInv, TakeNonceNonceInv
     DEF Step, Send, Broadcast, Fault
<1>2. CASE Mine
  BY <1>2, MineNonceInv
<1>3. CASE Crash
  BY <1>3, CrashNonceInv
<1>4. CASE AdmissionChanges
  <2>1. UNCHANGED <<client, signer, pool, chain, bounds>> /\ admits' \in 0..MaxAdmits
    BY <1>4 DEF AdmissionChanges
  <2> QED BY <2>1, IdleNonceInv
<1>5. CASE UNCHANGED vars
  <2>1. UNCHANGED <<client, signer, pool, chain, bounds>> /\ admits' \in 0..MaxAdmits
    BY <1>5 DEF vars, network, NonceInv, TypeOK
  <2> QED BY <2>1, IdleNonceInv
<1> QED BY <1>1, <1>2, <1>3, <1>4, <1>5 DEF Next

\* The inductive invariant of the relayer wallet.
THEOREM NonceInvariant == Spec => []NonceInv
  BY InitNonceInv, NextNonceInv, PTL DEF Spec

\* Purchases and claims never sign at the same time: one shared key serialises
\* them (utils/lock.ts, RELAYER_TX_LOCK_KEY).
THEOREM OneSignerAtATime == Spec => []WindowExclusive
<1>1. NonceInv => WindowExclusive
  BY DEF NonceInv
<1> QED BY <1>1, NonceInvariant, PTL

\* A transaction that waits for a nonce nobody holds waits for one that a
\* purchase took from the NonceManager and never used.
THEOREM GapsComeFromFailedSends == Spec => []GapsAreBurned
<1>1. NonceInv => GapsAreBurned
  BY DEF NonceInv
<1> QED BY <1>1, NonceInvariant, PTL

-----------------------------------------------------------------------------
(* The faucet's two transactions *)

HasMinted(c) ==
    \E i \in DOMAIN chain : chain[i] = [req |-> c, leg |-> 1, success |-> TRUE]

\* A claim reaches its second transaction through a successful mint only.
MintInv ==
    /\ EthAfterMint
    /\ \A c \in Claim : leg[c] = 2 => HasMinted(c)

\* Mined transactions stay mined.
LEMMA MintedStays ==
    ASSUME TypeOK, NEW c, HasMinted(c),
           chain' = chain \/ \E b \in Block : chain' = Append(chain, b)
    PROVE  HasMinted(c)'
<1>1. PICK i \in DOMAIN chain : chain[i] = [req |-> c, leg |-> 1, success |-> TRUE]
  BY DEF HasMinted
<1>2. CASE chain' = chain
  BY <1>1, <1>2 DEF HasMinted
<1>3. ASSUME NEW b \in Block, chain' = Append(chain, b) PROVE HasMinted(c)'
  <2>1. i \in 1..Len(chain) /\ Len(chain) \in Nat
    BY <1>1, LenProperties DEF TypeOK
  <2>2. chain'[i] = chain[i] /\ Len(chain') = Len(chain) + 1 /\ chain' \in Seq(Block)
    BY <1>3, <2>1, AppendProperties DEF TypeOK
  <2>3. i \in DOMAIN chain'
    BY <2>1, <2>2, LenProperties
  <2> QED BY <1>1, <2>2, <2>3 DEF HasMinted
<1> QED BY <1>2, <1>3

\* Every transaction of the pool or the chain was there before, or repeats the
\* request and leg of one that was, or is the one its sender is about to send.
LEMMA MintStep ==
    ASSUME TypeOK, TypeOK', MintInv,
           chain' = chain \/ \E b \in Block : chain' = Append(chain, b),
           \A t \in pool' \cup {chain'[i] : i \in DOMAIN chain'} :
               \/ \E u \in pool \cup {chain[i] : i \in DOMAIN chain} :
                      t.req = u.req /\ t.leg = u.leg
               \/ t.req \in Request /\ t.leg = leg[t.req],
           \A c \in Claim : leg'[c] = 2 => leg[c] = 2 \/ HasMinted(c)
    PROVE  MintInv'
<1>1. \A c \in Claim : HasMinted(c) => HasMinted(c)'
  BY MintedStays
<1>2. EthAfterMint'
  <2> SUFFICES ASSUME NEW t \in pool' \cup {chain'[i] : i \in DOMAIN chain'},
                      t.req \in Claim, t.leg = 2
               PROVE  HasMinted(t.req)'
    BY DEF EthAfterMint, HasMinted
  <2>1. HasMinted(t.req)
    BY DEF MintInv, EthAfterMint, HasMinted
  <2> QED BY <1>1, <2>1
<1>3. \A c \in Claim : leg'[c] = 2 => HasMinted(c)'
  BY <1>1 DEF MintInv
<1> QED BY <1>2, <1>3 DEF MintInv

\* Every step of a request, of the node and of the process.
LEMMA NextMintInv == NonceInv /\ NonceInv' /\ MintInv /\ [Next]_vars => MintInv'
<1> SUFFICES ASSUME NonceInv, NonceInv', MintInv, [Next]_vars PROVE MintInv'
  OBVIOUS
<1>0. TypeOK /\ TypeOK'
  BY DEF NonceInv
<1>1. CASE UNCHANGED <<leg, pool, chain>>
  BY <1>1 DEF MintInv, EthAfterMint, HasMinted
<1>2. CASE Mine
  <2>1. PICK t \in pool, b \in Block :
           /\ b.req = t.req /\ b.leg = t.leg
           /\ pool' = pool \ {t} /\ chain' = Append(chain, b) /\ leg' = leg
    <3>1. PICK t \in pool, success \in BOOLEAN :
             /\ pool' = pool \ {t} /\ leg' = leg
             /\ chain' = Append(chain, [req |-> t.req, leg |-> t.leg, success |-> success])
      BY <1>2 DEF Mine, client
    <3>2. [req |-> t.req, leg |-> t.leg, success |-> success] \in Block
      BY <1>0 DEF TypeOK, Tx, Block
    <3> QED BY <3>1, <3>2
  <2>2. ASSUME NEW i \in DOMAIN chain'
        PROVE  chain'[i] = b \/ (i \in DOMAIN chain /\ chain'[i] = chain[i])
    BY <2>1, <1>0, AppendProperties, LenProperties DEF TypeOK
  <2>3. \A x \in pool' \cup {chain'[i] : i \in DOMAIN chain'} :
           \E u \in pool \cup {chain[i] : i \in DOMAIN chain} : x.req = u.req /\ x.leg = u.leg
    BY <2>1, <2>2
  <2> QED BY <1>0, <2>1, <2>3, MintStep
<1>3. ASSUME NEW r \in Request, Accepted(r) \/ AnswerLost(r) PROVE MintInv'
  <2>1. Pend(r) /\ chain' = chain /\ leg' = leg
    BY <1>3 DEF Accepted, AnswerLost
  <2>2. \A x \in pool' : x \in pool \/ (x.req = r /\ x.leg = leg[r])
    BY <2>1 DEF Pend
  <2> QED BY <1>0, <2>1, <2>2, MintStep
<1>4. ASSUME NEW r \in Request, Confirm(r) PROVE MintInv'
  <2>1. PICK b \in Mined(r) :
           leg' = leg \/ (b.success /\ leg[r] # LastLeg(r) /\ leg' = [leg EXCEPT ![r] = 2])
    BY <1>4 DEF Confirm
  <2>2. PICK i \in DOMAIN chain : chain[i] = b /\ b.req = r /\ b.leg = leg[r]
    BY DEF Mined
  <2>3. b \in Block
    BY <1>0, <2>2, LenProperties, ElementOfSeq DEF TypeOK
  <2>4. \A c \in Claim : leg'[c] = 2 => leg[c] = 2 \/ HasMinted(c)
    <3> SUFFICES ASSUME NEW c \in Claim, leg'[c] = 2, leg[c] # 2 PROVE HasMinted(c)
      OBVIOUS
    <3>1. c = r /\ b.success /\ leg[r] # LastLeg(r)
      BY <2>1, <1>0 DEF TypeOK, Request
    <3>2. leg[r] = 1 /\ b.success = TRUE
      BY <3>1, <1>0, <2>3 DEF TypeOK, Block, Request
    <3>3. b = [req |-> c, leg |-> 1, success |-> TRUE]
      BY <2>2, <2>3, <3>1, <3>2 DEF Block
    <3> QED BY <2>2, <3>3 DEF HasMinted
  <2>5. pool' = pool /\ chain' = chain
    BY <1>4 DEF Confirm, network
  <2> QED BY <1>0, <2>4, <2>5, MintStep
<1>5. ASSUME NEW r \in Request,
             \/ Arrive(r) \/ Acquire(r) \/ Send(r) \/ EstimateReverts(r) \/ Rejected(r)
             \/ NonceReadFails(r) \/ RpcError(r) \/ WaitFails(r)
      PROVE  MintInv'
  <2>1. UNCHANGED <<leg, pool, chain>>
    BY <1>5 DEF Arrive, Acquire, Send, TakeNonce, NonceUnreadable, EstimateReverts,
                Rejected, NonceReadFails, RpcError, WaitFails, Unsent, network
  <2> QED BY <2>1, <1>1
<1>6. CASE AdmissionChanges \/ Crash \/ UNCHANGED vars
  <2>1. UNCHANGED <<leg, pool, chain>>
    BY <1>6 DEF AdmissionChanges, Crash, vars, client, network
  <2> QED BY <2>1, <1>1
<1> QED BY <1>2, <1>3, <1>4, <1>5, <1>6 DEF Next, Step, Broadcast, Fault

\* No claim ever sends its ETH without a mint of its own on the chain, whatever
\* becomes of the answers (routes/faucet.ts, the two sequential operations).
THEOREM EthComesAfterMint == Spec => []EthAfterMint
<1>1. Init => MintInv
  <2> SUFFICES ASSUME Init PROVE MintInv
    OBVIOUS
  <2>1. pool = {} /\ DOMAIN chain = {}
    BY DEF Init
  <2>2. \A c \in Claim : leg[c] = 1
    BY DEF Init, Request
  <2> QED BY <2>1, <2>2 DEF MintInv, EthAfterMint
<1>2. NonceInv /\ NonceInv' /\ MintInv /\ [Next]_vars => MintInv'
  BY NextMintInv
<1>3. MintInv => EthAfterMint
  BY DEF MintInv
<1> QED BY <1>1, <1>2, <1>3, NonceInvariant, PTL DEF Spec

-----------------------------------------------------------------------------
(* The relayer implements the service *)

\* The labels of a request whose current transaction is not signed yet, or not sent.
Unsigned == {"new", "waiting", "sending", "signed"}

\* What the chain holds.
Blocks == {chain[i] : i \in DOMAIN chain}

\* Each transaction of a request is in the pool once, or in the chain once.
SentOnce ==
    /\ \A t, u \in pool : t.req = u.req /\ t.leg = u.leg => t = u
    /\ \A i, j \in DOMAIN chain : chain[i].req = chain[j].req /\ chain[i].leg = chain[j].leg => i = j
    /\ \A t \in pool, b \in Blocks : ~(t.req = b.req /\ t.leg = b.leg)

\* A request has sent its transactions up to the current one, and not that one
\* before it is signed.
SentInOrder ==
    /\ \A t \in pool \cup Blocks :
          t.leg <= leg[t.req] /\ (pc[t.req] \in Unsigned => t.leg < leg[t.req])
    /\ \A r \in Request : leg[r] <= LastLeg(r)

\* The strengthening under which the steps of the relayer are steps of the service.
OnceInv == SentOnce /\ SentInOrder

\* What was sent was sent by a request.
LEMMA SentIsTyped ==
    ASSUME TypeOK
    PROVE  \A t \in pool \cup Blocks : t.req \in Request /\ t.leg \in 1..2
<1>1. \A t \in pool : t.req \in Request /\ t.leg \in 1..2
  BY DEF TypeOK, Tx
<1>2. ASSUME NEW i \in DOMAIN chain PROVE chain[i].req \in Request /\ chain[i].leg \in 1..2
  <2>1. chain[i] \in Block
    BY LenProperties, ElementOfSeq DEF TypeOK
  <2> QED BY <2>1 DEF Block
<1> QED BY <1>1, <1>2 DEF Blocks

\* A step that sends nothing and mines nothing.
LEMMA SameSent ==
    ASSUME TypeOK, OnceInv, UNCHANGED <<pool, chain, leg>>,
           \A r \in Request : pc'[r] \in Unsigned => pc[r] \in Unsigned
    PROVE  OnceInv'
<1>1. SentOnce' /\ Blocks' = Blocks
  BY DEF OnceInv, SentOnce, Blocks
<1>2. \A t \in pool \cup Blocks : t.req \in Request
  BY SentIsTyped
<1>3. SentInOrder'
  BY <1>1, <1>2 DEF OnceInv, SentInOrder
<1> QED BY <1>1, <1>3 DEF OnceInv

\* A request that waited for its receipt goes on to its next transaction.
LEMMA ConfirmOnce ==
    ASSUME TypeOK, OnceInv, NEW r \in Request, Confirm(r)
    PROVE  OnceInv'
<1>1. UNCHANGED <<pool, chain>> /\ pc[r] = "confirming"
  BY DEF Confirm, network
<1>2. \/ leg' = leg /\ (pc' = [pc EXCEPT ![r] = "failed"] \/ pc' = [pc EXCEPT ![r] = "ok"])
      \/ leg[r] # LastLeg(r) /\ leg' = [leg EXCEPT ![r] = 2] /\ pc' = [pc EXCEPT ![r] = "sending"]
  BY DEF Confirm, Goto
<1>3. CASE leg' = leg /\ (pc' = [pc EXCEPT ![r] = "failed"] \/ pc' = [pc EXCEPT ![r] = "ok"])
  <2>1. \A q \in Request : pc'[q] \in Unsigned => pc[q] \in Unsigned
    BY <1>3 DEF TypeOK, Unsigned
  <2> QED BY <1>1, <1>3, <2>1, SameSent
<1>4. CASE leg[r] # LastLeg(r) /\ leg' = [leg EXCEPT ![r] = 2] /\ pc' = [pc EXCEPT ![r] = "sending"]
  <2>1. leg[r] = 1 /\ LastLeg(r) = 2
    BY <1>4 DEF TypeOK, OnceInv, SentInOrder, LastLeg
  <2>2. SentOnce' /\ Blocks' = Blocks
    BY <1>1 DEF OnceInv, SentOnce, Blocks
  <2>3. \A t \in pool \cup Blocks : t.req \in Request /\ t.leg \in 1..2
    BY SentIsTyped
  <2>4. \A q \in Request : leg'[q] = (IF q = r THEN 2 ELSE leg[q]) /\ (q # r => pc'[q] = pc[q])
    BY <1>4 DEF TypeOK
  <2>5. \A q \in Request : leg'[q] <= LastLeg(q)
    BY <2>1, <2>4 DEF OnceInv, SentInOrder
  <2>6. ASSUME NEW t \in pool' \cup Blocks'
        PROVE  t.leg <= leg'[t.req] /\ (pc'[t.req] \in Unsigned => t.leg < leg'[t.req])
    <3>1. t \in pool \cup Blocks /\ t.req \in Request /\ t.leg \in 1..2
      BY <1>1, <2>2, <2>3
    <3>2. t.leg <= leg[t.req] /\ (pc[t.req] \in Unsigned => t.leg < leg[t.req])
      BY <3>1 DEF OnceInv, SentInOrder
    <3> QED BY <2>1, <2>4, <3>1, <3>2
  <2> QED BY <2>2, <2>5, <2>6 DEF OnceInv, SentInOrder
<1> QED BY <1>2, <1>3, <1>4

\* The node takes the current transaction of a request, for the first time.
LEMMA PendOnce ==
    ASSUME TypeOK, OnceInv, NEW r \in Request, pc[r] = "signed", Pend(r),
           UNCHANGED <<chain, leg>>, NEW l, l \notin Unsigned, pc' = [pc EXCEPT ![r] = l]
    PROVE  OnceInv'
<1> DEFINE new == [req |-> r, leg |-> leg[r], nonce |-> nonce[r]]
<1>1. \A t \in pool' : t \in pool \/ t = new
  BY DEF Pend
<1>2. Blocks' = Blocks
  BY DEF Blocks
<1>3. \A t \in pool \cup Blocks : t.req \in Request /\ t.leg \in 1..2
  BY SentIsTyped
<1>4. new.req = r /\ new.leg = leg[r] /\ leg[r] \in 1..2
  BY DEF TypeOK
<1> HIDE DEF new
<1>5. \A t \in pool \cup Blocks : ~(t.req = r /\ t.leg = leg[r])
  <2> SUFFICES ASSUME NEW t \in pool \cup Blocks, t.req = r, t.leg = leg[r] PROVE FALSE
    OBVIOUS
  <2>1. t.leg < leg[r]
    BY DEF OnceInv, SentInOrder, Unsigned
  <2> QED BY <1>4, <2>1
<1>6. SentOnce'
  BY <1>1, <1>2, <1>4, <1>5 DEF OnceInv, SentOnce
<1>7. \A q \in Request : pc'[q] \in Unsigned => pc[q] \in Unsigned /\ q # r
  BY DEF TypeOK
<1>8. ASSUME NEW t \in pool' \cup Blocks'
      PROVE  t.leg <= leg'[t.req] /\ (pc'[t.req] \in Unsigned => t.leg < leg'[t.req])
  <2>1. CASE t = new
    BY <1>4, <1>7, <2>1
  <2>2. CASE t \in pool \cup Blocks
    BY <1>3, <1>7, <2>2 DEF OnceInv, SentInOrder
  <2> QED BY <1>1, <1>2, <2>1, <2>2
<1>9. SentInOrder'
  BY <1>8 DEF OnceInv, SentInOrder
<1> QED BY <1>6, <1>9 DEF OnceInv

\* A mined transaction leaves the pool, and the chain has one more block.
LEMMA MineAppends ==
    ASSUME TypeOK, Mine
    PROVE  \E t \in pool, b \in Block :
              /\ b.req = t.req /\ b.leg = t.leg
              /\ pool' = pool \ {t} /\ UNCHANGED <<pc, leg>>
              /\ Len(chain) \in Nat /\ DOMAIN chain = 1..Len(chain)
              /\ DOMAIN chain' = 1..Len(chain) + 1
              /\ chain'[Len(chain) + 1] = b
              /\ \A i \in DOMAIN chain : chain'[i] = chain[i]
<1>1. PICK t \in pool, success \in BOOLEAN :
         /\ pool' = pool \ {t} /\ UNCHANGED <<pc, leg>>
         /\ chain' = Append(chain, [req |-> t.req, leg |-> t.leg, success |-> success])
  BY DEF Mine, client
<1> DEFINE b == [req |-> t.req, leg |-> t.leg, success |-> success]
<1>2. b \in Block /\ b.req = t.req /\ b.leg = t.leg
  BY DEF TypeOK, Tx, Block
<1> HIDE DEF b
<1>3. chain' = Append(chain, b)
  BY <1>1 DEF b
<1>4. Len(chain) \in Nat /\ DOMAIN chain = 1..Len(chain)
  BY LenProperties DEF TypeOK
<1>5. /\ chain' \in Seq(Block) /\ Len(chain') = Len(chain) + 1
      /\ chain'[Len(chain) + 1] = b /\ \A i \in 1..Len(chain) : chain'[i] = chain[i]
  BY <1>2, <1>3, AppendProperties DEF TypeOK
<1>6. DOMAIN chain' = 1..Len(chain) + 1
  BY <1>5, LenProperties
<1> QED BY <1>1, <1>2, <1>4, <1>5, <1>6

\* A mined transaction was in no block before, and is in the pool no longer.
LEMMA MineOnce ==
    ASSUME TypeOK, OnceInv, Mine
    PROVE  OnceInv'
<1>1. PICK t \in pool, b \in Block :
         /\ b.req = t.req /\ b.leg = t.leg
         /\ pool' = pool \ {t} /\ UNCHANGED <<pc, leg>>
         /\ Len(chain) \in Nat /\ DOMAIN chain = 1..Len(chain)
         /\ DOMAIN chain' = 1..Len(chain) + 1
         /\ chain'[Len(chain) + 1] = b
         /\ \A i \in DOMAIN chain : chain'[i] = chain[i]
  BY MineAppends
<1>2. \A i \in DOMAIN chain' : i \in DOMAIN chain \/ i = Len(chain) + 1
  BY <1>1
<1>3. \A c \in Blocks' : c \in Blocks \/ c = b
  BY <1>1, <1>2 DEF Blocks
<1>4. \A i \in DOMAIN chain : ~(chain[i].req = b.req /\ chain[i].leg = b.leg)
  BY <1>1 DEF OnceInv, SentOnce, Blocks
<1>5. \A i, j \in DOMAIN chain' : chain'[i].req = chain'[j].req /\ chain'[i].leg = chain'[j].leg => i = j
  BY <1>1, <1>2, <1>4 DEF OnceInv, SentOnce
<1>6. SentOnce'
  BY <1>1, <1>3, <1>5 DEF OnceInv, SentOnce
<1>7. SentInOrder'
  BY <1>1, <1>3 DEF OnceInv, SentInOrder
<1> QED BY <1>6, <1>7 DEF OnceInv

\* Every step keeps OnceInv: only Broadcast sends and only Mine mines.
LEMMA OnceStep == NonceInv /\ OnceInv /\ [Next]_vars => OnceInv'
<1> SUFFICES ASSUME NonceInv, OnceInv, [Next]_vars PROVE OnceInv'
  OBVIOUS
<1>0. TypeOK
  BY DEF NonceInv
<1>1. CASE Mine
  BY <1>0, <1>1, MineOnce
<1>2. ASSUME NEW r \in Request, Accepted(r) \/ AnswerLost(r) PROVE OnceInv'
  <2>1. pc[r] = "signed" /\ Pend(r) /\ UNCHANGED <<chain, leg>>
    BY <1>2 DEF Accepted, AnswerLost, Estimated
  <2>2. pc' = [pc EXCEPT ![r] = "confirming"] \/ pc' = [pc EXCEPT ![r] = "failed"]
    BY <1>2 DEF Accepted, AnswerLost, Goto
  <2>3. "confirming" \notin Unsigned /\ "failed" \notin Unsigned
    BY DEF Unsigned
  <2> QED BY <1>0, <2>1, <2>2, <2>3, PendOnce
<1>3. ASSUME NEW r \in Request, Confirm(r) PROVE OnceInv'
  BY <1>0, <1>3, ConfirmOnce
<1>4. ASSUME NEW r \in Request,
             \/ Arrive(r) \/ Acquire(r) \/ Send(r) \/ EstimateReverts(r) \/ Rejected(r)
             \/ NonceReadFails(r) \/ RpcError(r) \/ WaitFails(r)
      PROVE  OnceInv'
  <2>1. UNCHANGED <<leg, pool, chain>>
    BY <1>4 DEF Arrive, Acquire, Send, TakeNonce, NonceUnreadable, EstimateReverts,
                Rejected, NonceReadFails, RpcError, WaitFails, Unsent, network
  <2>2. \E l : pc' = [pc EXCEPT ![r] = l] /\ (l \in Unsigned => pc[r] \in Unsigned)
    BY <1>4 DEF Arrive, Acquire, Send, TakeNonce, NonceUnreadable, EstimateReverts,
                Rejected, NonceReadFails, RpcError, WaitFails, Unsent, Goto, Unsigned
  <2>3. \A q \in Request : pc'[q] \in Unsigned => pc[q] \in Unsigned
    BY <1>0, <2>2 DEF TypeOK
  <2> QED BY <1>0, <2>1, <2>3, SameSent
<1>5. CASE AdmissionChanges \/ Crash \/ UNCHANGED vars
  <2>1. UNCHANGED <<leg, pool, chain>>
    BY <1>5 DEF AdmissionChanges, Crash, vars, client, network
  <2>2. \A q \in Request : pc'[q] \in Unsigned => pc[q] \in Unsigned
    BY <1>5 DEF AdmissionChanges, Crash, vars, client, Unsigned
  <2> QED BY <1>0, <2>1, <2>2, SameSent
<1> QED BY <1>1, <1>2, <1>3, <1>4, <1>5 DEF Next, Step, Broadcast, Fault

\* The blocks where a request took effect: Effects counts them.
EffectOf(r) == {i \in DOMAIN chain : chain[i] = [req |-> r, leg |-> LastLeg(r), success |-> TRUE]}

\* A request has taken effect once or not at all.
LEMMA EffectIsOnce ==
    ASSUME OnceInv, NEW r \in Request
    PROVE  /\ EffectOf(r) = {} => Effects[r] = 0
           /\ EffectOf(r) # {} => Effects[r] = 1
<1>1. Effects[r] = Cardinality(EffectOf(r))
  BY DEF Effects, EffectOf
<1>2. CASE EffectOf(r) = {}
  BY <1>1, <1>2, FS_EmptySet
<1>3. CASE EffectOf(r) # {}
  <2>1. PICK i \in EffectOf(r) : TRUE
    BY <1>3
  <2>2. EffectOf(r) = {i}
    BY <2>1 DEF EffectOf, OnceInv, SentOnce
  <2> QED BY <1>1, <1>3, <2>2, FS_Singleton
<1> QED BY <1>2, <1>3

\* Execute: the only step that adds an effect mines the last transaction of a
\* request, which no block of the chain holds yet.
LEMMA MineImplements ==
    ASSUME TypeOK, OnceInv, OnceInv', Mine
    PROVE  (\E r \in Request : Service!Execute(r)) \/ UNCHANGED <<Effects, AnswerOf>>
<1>1. PICK t \in pool, b \in Block :
         /\ b.req = t.req /\ b.leg = t.leg
         /\ pool' = pool \ {t} /\ UNCHANGED <<pc, leg>>
         /\ Len(chain) \in Nat /\ DOMAIN chain = 1..Len(chain)
         /\ DOMAIN chain' = 1..Len(chain) + 1
         /\ chain'[Len(chain) + 1] = b
         /\ \A i \in DOMAIN chain : chain'[i] = chain[i]
  BY MineAppends
<1>2. AnswerOf' = AnswerOf
  BY <1>1 DEF AnswerOf
<1> DEFINE r == t.req
<1>3. r \in Request
  BY DEF TypeOK, Tx
<1>4. ASSUME NEW q \in Request
      PROVE  EffectOf(q)' = EffectOf(q) \cup
                (IF b = [req |-> q, leg |-> LastLeg(q), success |-> TRUE] THEN {Len(chain) + 1} ELSE {})
  <2>1. \A i : i \in DOMAIN chain' <=> i \in DOMAIN chain \/ i = Len(chain) + 1
    BY <1>1
  <2>2. LastLeg(q)' = LastLeg(q)
    BY DEF LastLeg
  <2> QED BY <1>1, <2>1, <2>2 DEF EffectOf
<1>5. \A q \in Request : Effects'[q] = Cardinality(EffectOf(q)') /\ Effects[q] = Cardinality(EffectOf(q))
  BY DEF Effects, EffectOf
<1>6. ASSUME NEW q \in Request, b # [req |-> q, leg |-> LastLeg(q), success |-> TRUE]
      PROVE  Effects'[q] = Effects[q]
  BY <1>4, <1>5, <1>6
<1>7. CASE b = [req |-> r, leg |-> LastLeg(r), success |-> TRUE]
  <2>1. EffectOf(r) = {}
    <3> SUFFICES ASSUME NEW i \in EffectOf(r) PROVE FALSE
      OBVIOUS
    <3>1. chain[i] \in Blocks /\ chain[i] = b
      BY <1>7 DEF EffectOf, Blocks
    <3> QED BY <1>1, <3>1 DEF OnceInv, SentOnce
  <2>2. Effects[r] = 0
    BY <1>3, <2>1, EffectIsOnce
  <2>3. Effects'[r] = 1
    <3>1. EffectOf(r)' = {Len(chain) + 1}
      BY <1>3, <1>4, <1>7, <2>1
    <3> QED BY <1>3, <1>5, <3>1, FS_Singleton
  <2>4. \A q \in Request : q # r => Effects'[q] = Effects[q]
    BY <1>6, <1>7
  <2>5. Effects' = [Effects EXCEPT ![r] = 1]
    BY <1>3, <2>3, <2>4 DEF Effects
  <2>6. Service!Execute(r)
    BY <1>2, <2>2, <2>5 DEF Service!Execute
  <2> QED BY <1>3, <2>6
<1>8. CASE b # [req |-> r, leg |-> LastLeg(r), success |-> TRUE]
  <2>1. \A q \in Request : b # [req |-> q, leg |-> LastLeg(q), success |-> TRUE]
    BY <1>1, <1>8
  <2>2. Effects' = Effects
    BY <1>6, <2>1 DEF Effects
  <2> QED BY <1>2, <2>2
<1> QED BY <1>7, <1>8

\* A step of a request that has not been answered: it goes on, or is answered.
LEMMA MoveImplements ==
    ASSUME TypeOK, OnceInv, NEW r \in Request, NEW l, pc[r] \notin Final, pc' = [pc EXCEPT ![r] = l],
           chain' = chain, l \notin Final \/ l = "failed" \/ (l = "ok" /\ EffectOf(r) # {})
    PROVE  Service!Succeed(r) \/ Service!Fail(r) \/ UNCHANGED <<Effects, AnswerOf>>
<1>1. Effects' = Effects
  BY DEF Effects, LastLeg
<1>2. AnswerOf[r] = "none"
  BY DEF AnswerOf
<1>3. pc'[r] = l /\ \A q \in Request : q # r => pc'[q] = pc[q]
  BY DEF TypeOK
<1>4. CASE l \notin Final
  <2>1. AnswerOf' = AnswerOf
    BY <1>3, <1>4 DEF AnswerOf
  <2> QED BY <1>1, <2>1
<1>5. ASSUME l \in Final
      PROVE  AnswerOf' = [AnswerOf EXCEPT ![r] = l]
  BY <1>3, <1>5 DEF AnswerOf
<1>6. CASE l = "failed"
  BY <1>1, <1>2, <1>5, <1>6 DEF Service!Fail, Final
<1>7. CASE l = "ok" /\ EffectOf(r) # {}
  <2>1. Effects[r] = 1
    BY <1>7, EffectIsOnce
  <2> QED BY <1>1, <1>2, <1>5, <1>7, <2>1 DEF Service!Succeed, Final
<1> QED BY <1>4, <1>6, <1>7

\* Confirm answers ok only to a request whose last transaction succeeded.
LEMMA ConfirmImplements ==
    ASSUME TypeOK, OnceInv, NEW r \in Request, Confirm(r)
    PROVE  Service!Succeed(r) \/ Service!Fail(r) \/ UNCHANGED <<Effects, AnswerOf>>
<1>1. PICK b \in Mined(r) :
         IF ~b.success THEN Goto(r, "failed") /\ UNCHANGED leg
         ELSE IF leg[r] = LastLeg(r) THEN Goto(r, "ok") /\ UNCHANGED leg
         ELSE Goto(r, "sending") /\ leg' = [leg EXCEPT ![r] = 2]
  BY DEF Confirm
<1>2. chain' = chain /\ pc[r] \notin Final
  BY DEF Confirm, network, Final
<1>3. PICK i \in DOMAIN chain : chain[i] = b /\ b.req = r /\ b.leg = leg[r]
  BY DEF Mined
<1>4. b \in Block
  BY <1>3, LenProperties, ElementOfSeq DEF TypeOK
<1>5. CASE ~b.success
  BY <1>1, <1>2, <1>5, MoveImplements DEF Goto
<1>6. CASE b.success /\ leg[r] = LastLeg(r)
  <2>1. b = [req |-> r, leg |-> LastLeg(r), success |-> TRUE]
    <3>1. b.success = TRUE
      BY <1>4, <1>6 DEF Block
    <3> QED BY <1>3, <1>4, <1>6, <3>1 DEF Block
  <2>2. EffectOf(r) # {}
    BY <1>3, <2>1 DEF EffectOf
  <2> QED BY <1>1, <1>2, <1>6, <2>2, MoveImplements DEF Goto
<1>7. CASE b.success /\ leg[r] # LastLeg(r)
  <2>1. "sending" \notin Final
    BY DEF Final
  <2> QED BY <1>1, <1>2, <1>7, <2>1, MoveImplements DEF Goto
<1> QED BY <1>5, <1>6, <1>7

\* Every step of the relayer is a step of the service or a stutter.
LEMMA StepImplements ==
    NonceInv /\ OnceInv /\ OnceInv' /\ [Next]_vars => [Service!Next]_(Service!svars)
<1> SUFFICES ASSUME NonceInv, OnceInv, OnceInv', [Next]_vars
             PROVE  Service!Next \/ UNCHANGED <<Effects, AnswerOf>>
  BY DEF Service!svars
<1>0. TypeOK
  BY DEF NonceInv
<1>1. CASE Mine
  BY <1>0, <1>1, MineImplements DEF Service!Next
<1>2. ASSUME NEW r \in Request, Confirm(r)
      PROVE  Service!Next \/ UNCHANGED <<Effects, AnswerOf>>
  BY <1>0, <1>2, ConfirmImplements DEF Service!Next
<1>3. ASSUME NEW r \in Request,
             \/ Arrive(r) \/ Acquire(r) \/ Send(r) \/ Broadcast(r) \/ Fault(r)
      PROVE  Service!Next \/ UNCHANGED <<Effects, AnswerOf>>
  <2>1. chain' = chain /\ pc[r] \notin Final
    BY <1>3 DEF Arrive, Acquire, Send, TakeNonce, NonceUnreadable, Broadcast, EstimateReverts, Rejected,
                Accepted, Fault, AnswerLost, NonceReadFails, RpcError, WaitFails, Unsent, Estimated,
                network, Final
  <2>2. PICK l \in {"failed", "waiting", "sending", "signed", "confirming"} : pc' = [pc EXCEPT ![r] = l]
    BY <1>3 DEF Arrive, Acquire, Send, TakeNonce, NonceUnreadable, Broadcast, EstimateReverts, Rejected,
                Accepted, Fault, AnswerLost, NonceReadFails, RpcError, WaitFails, Unsent, Goto
  <2>3. l \notin Final \/ l = "failed"
    BY DEF Final
  <2> QED BY <1>0, <2>1, <2>2, <2>3, MoveImplements DEF Service!Next
<1>4. CASE Crash
  <2> DEFINE S == {r \in Request : pc[r] \in {"waiting"} \cup Holding}
  <2>1. chain' = chain /\ pc' = [r \in Request |-> IF r \in S THEN "lost" ELSE pc[r]]
    BY <1>4 DEF Crash, network
  <2>2. Effects' = Effects
    BY <2>1 DEF Effects, LastLeg
  <2>3. \A r \in S : AnswerOf[r] = "none"
    BY DEF AnswerOf, Holding, Final
  <2>4. AnswerOf' = [r \in Request |-> IF r \in S THEN "lost" ELSE AnswerOf[r]]
    BY <2>1 DEF AnswerOf, Final
  <2>5. Service!Lose(S)
    BY <2>2, <2>3, <2>4 DEF Service!Lose
  <2>6. S \in SUBSET Request
    OBVIOUS
  <2> QED BY <2>5, <2>6 DEF Service!Next
<1>5. CASE AdmissionChanges \/ UNCHANGED vars
  <2>1. UNCHANGED <<pc, chain>>
    BY <1>5 DEF AdmissionChanges, vars, client, network
  <2> QED BY <2>1 DEF Effects, AnswerOf, LastLeg
<1> QED BY <1>1, <1>2, <1>3, <1>4, <1>5 DEF Next, Step

\* At the beginning nothing is sent.
LEMMA InitOnce == Init => OnceInv
<1> SUFFICES ASSUME Init PROVE OnceInv
  OBVIOUS
<1>1. pool = {} /\ DOMAIN chain = {} /\ Blocks = {}
  BY DEF Init, Blocks
<1>2. \A r \in Request : leg[r] <= LastLeg(r)
  BY DEF Init, LastLeg
<1> QED BY <1>1, <1>2 DEF OnceInv, SentOnce, SentInOrder

\* At the beginning the service has done nothing and answered nobody.
LEMMA InitImplements == Init => Service!Init
<1> SUFFICES ASSUME Init PROVE Service!Init
  OBVIOUS
<1>1. \A r \in Request : Effects[r] = 0
  <2>1. OnceInv /\ DOMAIN chain = {}
    BY InitOnce DEF Init
  <2> QED BY <2>1, EffectIsOnce DEF EffectOf
<1>2. Effects = [r \in Request |-> 0]
  BY <1>1 DEF Effects
<1>3. AnswerOf = [r \in Request |-> "none"]
  BY DEF Init, AnswerOf, Final
<1> QED BY <1>2, <1>3 DEF Service!Init

\* The relayer wallet implements the service that the routes rely on: no request
\* takes effect twice, none is answered ok without its effect, and answers are
\* final, whatever is replaced, lost or restarted (services/policies.ts,
\* routes/faucet.ts).
THEOREM RelayerIsAService == Spec => ImplementsRelayService
  BY NonceInvariant, InitOnce, OnceStep, InitImplements, StepImplements, PTL
     DEF Spec, ImplementsRelayService, Service!Spec

-----------------------------------------------------------------------------
(* What the service means for a request *)

\* A request takes effect at most once, and has when it is answered ok.
PaidOnce ==
    \A r \in Request : Effects[r] \in {0, 1} /\ (AnswerOf[r] = "ok" => Effects[r] = 1)

\* Every step of the service keeps it.
LEMMA ServiceKeepsOnce == PaidOnce /\ [Service!Next]_(Service!svars) => PaidOnce'
<1> SUFFICES ASSUME PaidOnce, Service!Next \/ UNCHANGED <<Effects, AnswerOf>> PROVE PaidOnce'
  BY DEF Service!svars
<1> DEFINE e == Effects
           a == AnswerOf
<1>0. DOMAIN e = Request /\ DOMAIN a = Request /\ e = [r \in Request |-> e[r]] /\ a = [r \in Request |-> a[r]]
  BY DEF Effects, AnswerOf
<1>1. ASSUME NEW r \in Request, Service!Execute(r) PROVE PaidOnce'
  <2>1. Effects' = [e EXCEPT ![r] = 1] /\ AnswerOf' = a
    BY <1>1 DEF Service!Execute
  <2> HIDE DEF e, a
  <2>2. \A q \in Request : Effects'[q] = IF q = r THEN 1 ELSE e[q]
    BY <1>0, <2>1
  <2> QED BY <2>1, <2>2 DEF PaidOnce, e, a
<1>2. ASSUME NEW r \in Request, Service!Succeed(r) \/ Service!Fail(r) PROVE PaidOnce'
  <2>1. Effects' = e /\ \E x \in {"ok", "failed"} :
          AnswerOf' = [a EXCEPT ![r] = x] /\ (x = "ok" => e[r] = 1)
    BY <1>2 DEF Service!Succeed, Service!Fail
  <2> HIDE DEF e, a
  <2>2. \A q \in Request : AnswerOf'[q] = "ok" => a[q] = "ok" \/ e[q] = 1
    BY <1>0, <2>1
  <2> QED BY <2>1, <2>2 DEF PaidOnce, e, a
<1>3. ASSUME NEW S \in SUBSET Request, Service!Lose(S) PROVE PaidOnce'
  <2>1. Effects' = e /\ \A q \in Request : AnswerOf'[q] = "ok" => a[q] = "ok"
    BY <1>3 DEF Service!Lose
  <2> QED BY <2>1 DEF PaidOnce
<1>4. CASE UNCHANGED <<Effects, AnswerOf>>
  BY <1>4 DEF PaidOnce
<1> QED BY <1>1, <1>2, <1>3, <1>4 DEF Service!Next

\* The buyer pays once and the claimant is paid once, and a route that is told
\* ok has its transaction on the chain: for any restarts, replacements and
\* retries of the node (services/policies.ts, routes/faucet.ts).
THEOREM RequestsTakeEffectOnce == Spec => []PaidOnce
<1>1. Service!Init => PaidOnce
  BY DEF Service!Init, PaidOnce
<1> QED BY <1>1, ServiceKeepsOnce, RelayerIsAService, PTL DEF ImplementsRelayService, Service!Spec

=============================================================================
