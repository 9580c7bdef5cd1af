------------------------------ MODULE MCStore -------------------------------
(***************************************************************************)
(* The store of execution/paper_state_machine.py from three sides: orders  *)
(* and their executions, the creation of orders, and the portfolio that is *)
(* rebuilt from the executions.  They are three models of one program and  *)
(* share no state, so a behaviour moves one of them.                       *)
(***************************************************************************)
EXTENDS DurableOMS, IdempotentCreate, PortfolioLedger, TLC

CONSTANTS
    o1, o2, e1, e2, e3, e4, w1, w2,
    a1, a2, a3, d1, n1, n2, ka, kb, ca, cb, cc, cd, buy, sell,
    b1, b2, s1, s2

\* An order of two lots that two single-lot executions or one double
\* execution can complete, and an order of one lot.
BookQty == (o1 :> 2) @@ (o2 :> 1)
BookOf == (e1 :> o1) @@ (e2 :> o1) @@ (e3 :> o1) @@ (e4 :> o2)
BookExecQty == (e1 :> 1) @@ (e2 :> 1) @@ (e3 :> 2) @@ (e4 :> 1)

\* Two workers, who either wait for each other and make every call about both
\* orders, or interleave in the calls about one order, that two executions fit
\* one by one and not together; to REJECT or EXPIRE an order is then, like to
\* CANCEL it, to close it.
AllMarks == MarkEvents
FromCreated == {"CREATED"}
SerialAndNot ==
    {[serial |-> TRUE, jobs |-> Jobs],
     [serial |-> FALSE, jobs |-> {j \in Jobs : /\ j.order = o1
                                              /\ j.exec \in {e1, e3, NoExec}
                                              /\ j.op \notin {"REJECT", "EXPIRE"}}]}

\* Three calls of create_order of one intent: two repeat each other, the third
\* reuses the key for other parameters and a fresh client id; one call of another
\* intent; and two calls without a key that share a client id.
MixedKey == (a1 :> ka) @@ (a2 :> ka) @@ (a3 :> ka) @@ (d1 :> kb) @@ (n1 :> NoKey) @@ (n2 :> NoKey)
MixedCid == (a1 :> ca) @@ (a2 :> ca) @@ (a3 :> cd) @@ (d1 :> cb) @@ (n1 :> cc) @@ (n2 :> cc)
MixedPrint == (a1 :> buy) @@ (a2 :> buy) @@ (a3 :> sell) @@ (d1 :> buy) @@ (n1 :> buy) @@ (n2 :> sell)

\* Two purchases and two sales at different prices: in one order the sales close
\* the purchases in parts, in others they oversell, go short and are covered in
\* parts, in full or by too much.  Prices are multiples of 12, so that average
\* entry prices are whole numbers.
TradeSide == (b1 :> "BUY") @@ (b2 :> "BUY") @@ (s1 :> "SELL") @@ (s2 :> "SELL")
TradeQty == (b1 :> 2) @@ (b2 :> 1) @@ (s1 :> 1) @@ (s2 :> 2)
TradePrice == (b1 :> 12) @@ (b2 :> 24) @@ (s1 :> 36) @@ (s2 :> 12)
TradeFee == (b1 :> 1) @@ (b2 :> 1) @@ (s1 :> 1) @@ (s2 :> 1)

storeVars == <<vars, createVars, ledgerVars>>
StoreInit == Init /\ CreateInit /\ LedgerInit

\* Workers that interleave can leave a row that no call gets past.
Unreadable ==
    /\ NobodyBusy
    /\ \A j \in usage.jobs :
          ~WellFormed(orders[j.order].state, orders[j.order].filled, OrderQty[j.order])
    /\ UNCHANGED storeVars

StoreNext ==
    \/ CreateInit /\ LedgerInit /\ Next /\ UNCHANGED <<createVars, ledgerVars>>
    \/ Init /\ LedgerInit /\ CreateNext /\ UNCHANGED <<vars, ledgerVars>>
    \/ Init /\ CreateInit /\ LedgerNext /\ UNCHANGED <<vars, createVars>>
    \/ Unreadable
StoreSpec == StoreInit /\ [][StoreNext]_storeVars /\ Fairness
=============================================================================
