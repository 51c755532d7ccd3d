------------------------- MODULE RestServices_proofs -------------------------
(***************************************************************************)
(* The two REST services.  The paper gateway: types, the single account,   *)
(* the covered purchases and the books.  The admin API: manual closes and  *)
(* their alerts, and what requests that overlap may do to the followers    *)
(* and to the numbers that are broadcast.                                  *)
(***************************************************************************)
EXTENDS AdminApi, PaperGateway, Sums_proofs, SequenceTheorems

USE PaperAssumption

AccountRecords == [cash : Int, commission : Nat, realized : Nat]

\* What a handler does with its request: it goes on with a request that is OK.
LEMMA RequestStep ==
  ASSUME TypeOK, NEW h \in Handlers, NEW r, RequestOK(r), req' = [req EXCEPT ![h] = r]
  PROVE  DOMAIN req' = Handlers /\ \A g \in Handlers : RequestOK(req'[g])
<1>1. DOMAIN req' = Handlers /\ req'[h] = r
  BY DEF TypeOK
<1>2. \A g \in Handlers \ {h} : req'[g] = req[g]
  BY DEF TypeOK
<1>. QED BY <1>1, <1>2 DEF TypeOK

\* The request of an idle handler.
LEMMA NoOrderRecord == NoOrder \in OrderRecords /\ ~Filled(NoOrder) /\ NoOrder.filled = 0
  BY DEF NoOrder, Order, OrderRecords, Filled

\* It is done with its request.
LEMMA DoneStep ==
  ASSUME TypeOK, NEW h \in Handlers, Done(h)
  PROVE  DOMAIN req' = Handlers /\ \A g \in Handlers : RequestOK(req'[g])
<1>1. RequestOK(Idle)
  BY NoOrderRecord DEF Idle, RequestOK, Booking, Places
<1>. QED BY <1>1, RequestStep DEF Done

\* It goes on with the same order.
LEMMA GotoStep ==
  ASSUME TypeOK, NEW h \in Handlers, NEW p \in Places, Goto(h, p),
         p \notin {"insert position", "set position"},
         p \in {"close", "save"} => req[h].order # NoOrder, p \in Booking => Filled(req[h].order),
         At(h, "close") => p = "close"
  PROVE  DOMAIN req' = Handlers /\ \A g \in Handlers : RequestOK(req'[g])
<1>. DEFINE r == [req[h] EXCEPT !.pc = p]
<1>1. RequestOK(req[h])
  BY DEF TypeOK
<1>2. r.pc = p /\ r.order = req[h].order /\ r \in [pc : Places, order : OrderRecords, value : Nat]
  BY <1>1 DEF RequestOK
<1>3. RequestOK(r)
  BY <1>1, <1>2 DEF RequestOK, Placed, Booking, At
<1>4. req' = [req EXCEPT ![h] = r]
  BY DEF Goto
<1>. QED BY <1>3, <1>4, RequestStep


-----------------------------------------------------------------------------
(* Orders and accounts. *)

\* What an order costs, and what it does to the cash.
LEMMA CostType ==
  \A o \in OrderRecords :
    Cost(o) \in Nat /\ Delta(o) \in Int /\ (o.action = "BUY" => Delta(o) = -Cost(o))
<1>1. SUFFICES ASSUME NEW o \in OrderRecords
      PROVE Cost(o) \in Nat /\ Delta(o) \in Int /\ (o.action = "BUY" => Delta(o) = -Cost(o))
  OBVIOUS
<1>2. o.filled \in Nat /\ o.price \in Nat /\ o.commission \in Nat
  BY DEF OrderRecords
<1>3. o.filled * o.price \in Nat
  BY <1>2
<1>. QED BY <1>2, <1>3 DEF Cost, Delta

\* The account that initialize_account inserts.
LEMMA NewAccountType == NewAccount \in AccountRecords
  BY DEF NewAccount, AccountRecords

\* update_one keeps the number of accounts.
LEMMA UpdateFirstStep ==
  ASSUME accounts \in Seq(AccountRecords), NEW d, UpdateFirst(d), accounts # <<>> => d \in AccountRecords
  PROVE  /\ accounts' \in Seq(AccountRecords) /\ Len(accounts') = Len(accounts)
         /\ accounts # <<>> => accounts'[1] = d
<1>1. CASE accounts = <<>>
  BY <1>1 DEF UpdateFirst
<1>2. CASE accounts # <<>>
  <2>1. accounts' = [accounts EXCEPT ![1] = d] /\ 1 \in 1..Len(accounts)
    BY <1>2 DEF UpdateFirst
  <2>. QED BY <2>1, <1>2
<1>. QED BY <1>1, <1>2

\* What an order may come to, given the cash of the account.
LEMMA ExecutionsOK ==
  ASSUME NEW o \in OrderRecords, o.quantity > 0, NEW cash \in Int, NEW e \in SlippageEstimates,
         NEW x \in Executions(o, cash, e)
  PROVE  /\ x \in OrderRecords /\ x.symbol = o.symbol /\ x.quantity = o.quantity
         /\ x.action = o.action /\ x.status # "NEW"
         /\ IF Filled(x) THEN x.filled \in 1..x.quantity ELSE x.filled = 0
         /\ Filled(x) /\ x.action = "BUY" => cash >= Cost(x)
<1>1. CASE x = Rejected(o)
  BY <1>1 DEF Rejected, OrderRecords, Filled
<1>2. CASE x # Rejected(o)
  <2>1. PICK f \in Fills(o.quantity), p \in Quotes :
          x = Paid(Fill(o, f, p), cash, e)
    BY <1>2 DEF Executions
  <2>2. f.status \in {"FILLED", "PARTIAL"} /\ f.filled \in 1..o.quantity
    BY DEF Fills, OrderRecords
  <2>3. p.price \in Nat /\ p.commission \in Nat
    OBVIOUS
  <2>4. /\ Fill(o, f, p) \in OrderRecords /\ Fill(o, f, p).symbol = o.symbol
        /\ Fill(o, f, p).filled = f.filled
        /\ Fill(o, f, p).quantity = o.quantity /\ Fill(o, f, p).action = o.action
        /\ Fill(o, f, p).status = f.status
    <3>1. f.filled \in Nat
      BY <2>2 DEF OrderRecords
    <3>. QED BY <2>2, <2>3, <3>1 DEF OrderRecords, Fill
  <2>5. CASE Affordable(Fill(o, f, p), cash, e)
    <3>1. x = Fill(o, f, p)
      BY <2>1, <2>5 DEF Paid
    <3>2. x.action = "BUY" => cash >= Cost(x) + e
      BY <2>5, <3>1, <2>4 DEF Affordable
    <3>3. Cost(x) \in Nat /\ e \in Nat
      BY <3>1, <2>4, CostType
    <3>4. x.action = "BUY" => cash >= Cost(x)
      BY <3>2, <3>3
    <3>5. Filled(x) /\ x.filled \in 1..x.quantity /\ x.status # "NEW"
      BY <3>1, <2>2, <2>4 DEF Filled
    <3>. QED BY <3>1, <3>4, <3>5, <2>4
  <2>6. CASE ~Affordable(Fill(o, f, p), cash, e)
    <3>1. x = Rejected(Fill(o, f, p))
      BY <2>1, <2>6 DEF Paid
    <3>. QED BY <3>1, <2>4 DEF Rejected, Filled, OrderRecords
  <2>. QED BY <2>5, <2>6
<1>. QED BY <1>1, <1>2

-----------------------------------------------------------------------------
(* The inductive invariant. *)

\* Without overlap one handler works at a time.
Alone == "overlap" \notin mode => \A g, h \in Handlers : At(g, "idle") \/ At(h, "idle") \/ g = h

AdminPlaces == {"initialize", "insert", "balance", "reset", "reset positions", "reset account"}

\* What the place of a handler says of the account.  Without administrators it is never
\* deleted; without overlap it is not inserted twice, and covers the purchase to be charged.
Covers(account, o) == Filled(o) /\ o.action = "BUY" => account.cash >= Cost(o)
KeepsAccount(r, docs) ==
  /\ "admin" \notin mode => Len(docs) = 1 /\ r.pc \notin AdminPlaces
  /\ "overlap" \notin mode =>
       /\ Len(docs) \in {0, 1} /\ (r.pc = "insert" => Len(docs) = 0)
       /\ r.pc \in {"save", "cash"} => Len(docs) = 1 /\ Covers(docs[1], r.order)

AccountKept ==
  /\ "admin" \notin mode => Len(accounts) = 1
  /\ "overlap" \notin mode => Len(accounts) \in {0, 1}
  /\ \A h \in Handlers : KeepsAccount(req[h], accounts)

Inv == TypeOK /\ Alone /\ AccountKept

\* The account belongs to the one handler at work, or to nobody but those that only read it.
LEMMA InvStep ==
  ASSUME Inv, NEW h \in Handlers, mode' = mode,
         \A g \in Handlers \ {h} : req'[g] = req[g],
         At(h, "idle") => "overlap" \in mode \/ \A g \in Handlers : At(g, "idle"),
         KeepsAccount(req'[h], accounts')
  PROVE  (Alone /\ AccountKept)'
<1>1. Alone'
  BY DEF Inv, Alone, At
<1>2. \A g \in Handlers \ {h} : "overlap" \notin mode => req'[g].pc = "idle"
  BY DEF Inv, Alone, At
<1>3. /\ "admin" \notin mode => Len(accounts') = 1
      /\ "overlap" \notin mode => Len(accounts') \in {0, 1}
  BY DEF KeepsAccount
<1>4. \A g \in Handlers : KeepsAccount(req'[g], accounts')
  <2>1. SUFFICES ASSUME NEW g \in Handlers \ {h} PROVE KeepsAccount(req'[g], accounts')
    OBVIOUS
  <2>2. req'[g] = req[g] /\ KeepsAccount(req[g], accounts)
    BY DEF Inv, AccountKept
  <2>3. "admin" \notin mode => Len(accounts') = 1 /\ req'[g].pc \notin AdminPlaces
    BY <1>3, <2>2 DEF KeepsAccount
  <2>4. "overlap" \notin mode => Len(accounts') \in {0, 1} /\ req'[g].pc = "idle"
    BY <1>2, <1>3
  <2>. QED BY <2>3, <2>4 DEF KeepsAccount
<1>5. (\A g \in Handlers : KeepsAccount(req[g], accounts))'
  BY <1>4 DEF KeepsAccount
<1>. QED BY <1>1, <1>3, <1>5 DEF AccountKept

\* The account was found or inserted, and holds cash.
LEMMA HaveAccountStep ==
  ASSUME Inv, NEW h \in Handlers, NEW cash \in Int, HaveAccount(h, cash),
         req[h].pc \in {"account", "initialize", "insert"}
  PROVE  /\ DOMAIN req' = Handlers /\ \A g \in Handlers : RequestOK(req'[g])
         /\ \A g \in Handlers \ {h} : req'[g] = req[g]
         /\ \/ req'[h] = Idle
            \/ /\ req'[h].pc = "save"
               /\ Filled(req'[h].order) /\ req'[h].order.action = "BUY" => cash >= Cost(req'[h].order)
<1>1. RequestOK(req[h]) /\ DOMAIN req = Handlers
  BY DEF Inv, TypeOK
<1>2. CASE Done(h)
  <2>1. DOMAIN req' = Handlers /\ \A g \in Handlers : RequestOK(req'[g])
    BY <1>2, DoneStep DEF Inv
  <2>. QED BY <1>1, <1>2, <2>1 DEF Done
<1>3. CASE ~Done(h)
  <2>0. PICK e \in SlippageEstimates : \E x \in Executions(req[h].order, cash, e) :
          req' = [req EXCEPT ![h] = [pc |-> "save", order |-> x, value |-> 0]]
    BY <1>3 DEF HaveAccount
  <2>1. PICK x \in Executions(req[h].order, cash, e) :
          req' = [req EXCEPT ![h] = [pc |-> "save", order |-> x, value |-> 0]]
    BY <2>0
  <2>2. req[h].order # NoOrder /\ req[h].order \in OrderRecords /\ req[h].order.symbol \in Symbols
        /\ req[h].order.quantity > 0
    BY <1>1, <1>3 DEF HaveAccount, RequestOK, Placed
  <2>3. /\ x \in OrderRecords /\ x.symbol = req[h].order.symbol /\ x.quantity = req[h].order.quantity
        /\ x.status # "NEW" /\ (IF Filled(x) THEN x.filled \in 1..x.quantity ELSE x.filled = 0)
        /\ Filled(x) /\ x.action = "BUY" => cash >= Cost(x)
    BY <2>2, ExecutionsOK
  <2>. DEFINE r == [pc |-> "save", order |-> x, value |-> 0]
  <2>4. RequestOK(r)
    <3>1. r.pc = "save" /\ r.order = x /\ r \in [pc : Places, order : OrderRecords, value : Nat]
      BY <2>3 DEF Places
    <3>2. x # NoOrder
      BY <2>3 DEF NoOrder, Order
    <3>. QED BY <2>2, <2>3, <3>1, <3>2 DEF RequestOK, Placed, Booking
  <2>5. DOMAIN req' = Handlers /\ \A g \in Handlers : RequestOK(req'[g])
    BY <2>1, <2>4, RequestStep DEF Inv
  <2>6. req'[h] = r /\ \A g \in Handlers \ {h} : req'[g] = req[g]
    BY <1>1, <2>1
  <2>. QED BY <2>3, <2>5, <2>6
<1>. QED BY <1>2, <1>3

-----------------------------------------------------------------------------
(* Every action keeps the invariant. *)

MongoOK ==
  /\ accounts \in Seq(AccountRecords) /\ positions \in [Symbols -> Positions]
  /\ orders \in Seq(OrderRecords)

\* A step of a handler that is serving a request.
LEMMA HandlerStep ==
  ASSUME Inv, NEW h \in Handlers, UNCHANGED <<mode, began>>, clock' \in Nat, ~At(h, "idle"),
         \A g \in Handlers \ {h} : req'[g] = req[g],
         DOMAIN req' = Handlers, \A g \in Handlers : RequestOK(req'[g]),
         MongoOK', KeepsAccount(req'[h], accounts')
  PROVE  Inv'
<1>1. TypeOK'
  BY DEF Inv, TypeOK, MongoOK, AccountRecords
<1>. QED BY <1>1, InvStep DEF Inv

\* What Goto and Done do to the requests.
LEMMA GotoRequest ==
  ASSUME Inv, NEW h \in Handlers, NEW p \in Places, Goto(h, p)
  PROVE  req'[h].pc = p /\ req'[h].order = req[h].order /\ \A g \in Handlers \ {h} : req'[g] = req[g]
<1>1. RequestOK(req[h]) /\ DOMAIN req = Handlers
  BY DEF Inv, TypeOK
<1>2. req[h] \in [pc : Places, order : OrderRecords, value : Nat]
  BY <1>1 DEF RequestOK
<1>. QED BY <1>1, <1>2 DEF Goto

\* The request that is answered leaves its handler idle.
LEMMA DoneRequest ==
  ASSUME Inv, NEW h \in Handlers, Done(h)
  PROVE  req'[h] = Idle /\ \A g \in Handlers \ {h} : req'[g] = req[g]
  BY DEF Inv, TypeOK, Done

\* An idle handler leaves the account as it is.
LEMMA IdleKeeps ==
  ASSUME Inv, NEW docs, "admin" \notin mode => Len(docs) = 1, "overlap" \notin mode => Len(docs) \in {0, 1}
  PROVE  KeepsAccount(Idle, docs)
  BY DEF KeepsAccount, AdminPlaces, Idle

\* A handler that is done with its request, whatever it did to positions and orders.
LEMMA DoneInv ==
  ASSUME Inv, NEW h \in Handlers, UNCHANGED <<mode, began>>, clock' \in Nat, ~At(h, "idle"), Done(h),
         MongoOK', "admin" \notin mode => Len(accounts') = 1,
         "overlap" \notin mode => Len(accounts') \in {0, 1}
  PROVE  Inv'
<1>1. KeepsAccount(req'[h], accounts')
  BY DoneRequest, IdleKeeps, accounts' = accounts'
<1>. QED BY <1>1, DoneRequest, DoneStep, HandlerStep DEF Inv

\* Where a handler goes on to with Goto, but for "cash".
Onward == Places \ {"close", "save", "cash", "insert position", "set position"}

\* A handler that goes on with its request, but not to book it.
LEMMA GotoInv ==
  ASSUME Inv, NEW h \in Handlers, NEW p \in Onward,
         UNCHANGED <<mode, began, clock>>, Goto(h, p), ~At(h, "idle"), ~At(h, "close"), MongoOK',
         "admin" \notin mode => Len(accounts') = 1 /\ p \notin AdminPlaces,
         "overlap" \notin mode => Len(accounts') \in {0, 1} /\ (p = "insert" => Len(accounts') = 0),
         p \in Booking => Filled(req[h].order)
  PROVE  Inv'
<1>1. KeepsAccount(req'[h], accounts')
  BY GotoRequest DEF KeepsAccount, Onward
<1>2. DOMAIN req' = Handlers /\ \A g \in Handlers : RequestOK(req'[g])
  BY GotoStep DEF Inv, Onward
<1>. QED BY <1>1, <1>2, GotoRequest, HandlerStep DEF Inv, TypeOK, Onward

\* A new request.
LEMMA BeginInv ==
  ASSUME Inv, NEW h \in Handlers, NEW place \in {"account", "close", "balance", "reset"},
         NEW order \in OrderRecords, NEW value \in Nat, Begin(h, place, order, value), clock' \in Nat,
         place \in {"balance", "reset"} => "admin" \in mode,
         RequestOK([pc |-> place, order |-> order, value |-> value])
  PROVE  Inv'
<1>. DEFINE r == [pc |-> place, order |-> order, value |-> value]
<1>1. req' = [req EXCEPT ![h] = r] /\ UNCHANGED <<mode, mongo>>
  BY DEF Begin
<1>2. DOMAIN req' = Handlers /\ \A g \in Handlers : RequestOK(req'[g])
  BY <1>1, RequestStep DEF Inv
<1>3. TypeOK'
  <2>1. began' \in Nat /\ began' <= MaxRequests
    BY DEF Inv, TypeOK, Begin
  <2>. QED BY <1>1, <1>2, <2>1 DEF Inv, TypeOK, mongo
<1>4. req'[h] = r /\ \A g \in Handlers \ {h} : req'[g] = req[g]
  BY <1>1 DEF Inv, TypeOK
<1>5. KeepsAccount(req'[h], accounts')
  <2>1. r.pc = place /\ place \notin {"save", "cash", "insert"}
    OBVIOUS
  <2>2. place \in AdminPlaces => "admin" \in mode
    BY DEF AdminPlaces
  <2>3. KeepsAccount(r, accounts)
    BY <2>1, <2>2 DEF Inv, AccountKept, KeepsAccount
  <2>4. accounts' = accounts
    BY <1>1 DEF mongo
  <2>. QED BY <1>4, <2>3, <2>4
<1>6. mode' = mode /\ (At(h, "idle") => "overlap" \in mode \/ \A g \in Handlers : At(g, "idle"))
  <2>1. mode' = mode
    BY <1>1
  <2>2. "overlap" \in mode \/ \A g \in Handlers : At(g, "idle")
    BY DEF Begin
  <2>. QED BY <2>1, <2>2
<1>7. (Alone /\ AccountKept)'
  BY <1>4, <1>5, <1>6, InvStep
<1>. QED BY <1>3, <1>7 DEF Inv

\* Requests are of known symbols and positive quantities.
LEMMA RequestInv == ASSUME Inv, NEW h \in Handlers, Request(h) PROVE Inv'
<1>0. clock \in Nat
  BY DEF Inv, TypeOK
<1>1. ASSUME NEW t \in {clock, clock + 1}, NEW s \in Symbols, NEW a \in Actions, NEW q \in Quantities,
             clock' = t, Begin(h, "account", Order(t, s, a, q), 0)
      PROVE Inv'
  <2>1. Order(t, s, a, q) \in OrderRecords /\ ~Filled(Order(t, s, a, q)) /\ Order(t, s, a, q).filled = 0
    BY <1>0, <1>1 DEF Order, OrderRecords, Filled
  <2>2. RequestOK([pc |-> "account", order |-> Order(t, s, a, q), value |-> 0])
    BY <2>1 DEF RequestOK, Placed, Places, Booking, Order
  <2>. QED BY <1>0, <1>1, <2>1, <2>2, BeginInv
<1>2. ASSUME NEW s \in Symbols, Begin(h, "close", Order(0, s, "none", 0), 0), UNCHANGED clock
      PROVE Inv'
  <2>1. Order(0, s, "none", 0) \in OrderRecords /\ ~Filled(Order(0, s, "none", 0)) /\ Order(0, s, "none", 0).filled = 0
    BY DEF Order, OrderRecords, Filled
  <2>2. Order(0, s, "none", 0) # NoOrder
    BY DEF Order, NoOrder
  <2>3. RequestOK([pc |-> "close", order |-> Order(0, s, "none", 0), value |-> 0])
    BY <2>1, <2>2 DEF RequestOK, Placed, Places, Booking, Order
  <2>. QED BY <1>0, <1>2, <2>1, <2>3, BeginInv
<1>3. ASSUME NEW place \in {"account", "balance", "reset"}, NEW value \in Nat,
             Begin(h, place, NoOrder, value), UNCHANGED clock,
             place \in {"balance", "reset"} => "admin" \in mode
      PROVE Inv'
  <2>1. RequestOK([pc |-> place, order |-> NoOrder, value |-> value])
    BY <1>3, NoOrderRecord DEF RequestOK, Places, Booking
  <2>. QED BY <1>0, <1>3, <2>1, NoOrderRecord, BeginInv
<1>4. CASE PostOrder(h)
  BY <1>1, <1>4 DEF PostOrder
<1>5. CASE PostClose(h)
  BY <1>2, <1>5 DEF PostClose
<1>6. CASE GetAccount(h)
  BY <1>3, <1>6 DEF GetAccount
<1>7. CASE PutBalance(h)
  BY <1>3, <1>7 DEF PutBalance
<1>8. CASE PostReset(h)
  BY <1>3, <1>8 DEF PostReset
<1>. QED BY <1>4, <1>5, <1>6, <1>7, <1>8 DEF Request

\* What is known of a handler that is serving a request.
LEMMA Serving ==
  ASSUME Inv, NEW h \in Handlers
  PROVE  /\ RequestOK(req[h]) /\ KeepsAccount(req[h], accounts) /\ MongoOK /\ clock \in Nat
         /\ "admin" \notin mode => Len(accounts) = 1
         /\ "overlap" \notin mode => Len(accounts) \in {0, 1}
         /\ accounts # <<>> => accounts[1] \in AccountRecords /\ accounts[1].cash \in Int
<1>1. RequestOK(req[h]) /\ KeepsAccount(req[h], accounts) /\ MongoOK /\ clock \in Nat
  BY DEF Inv, AccountKept, TypeOK, MongoOK, AccountRecords
<1>2. accounts # <<>> => accounts[1] \in AccountRecords
  BY <1>1 DEF MongoOK
<1>. QED BY <1>1, <1>2 DEF Inv, AccountKept, AccountRecords

\* The account is found, or it has to be initialized.
LEMMA FindAccountInv ==
  ASSUME Inv, NEW h \in Handlers, UNCHANGED <<mode, began, mongo, clock>>,
         req[h].pc \in {"account", "initialize"},
         NEW p \in {"initialize", "insert"},
         IF accounts = <<>> THEN Goto(h, p) ELSE HaveAccount(h, accounts[1].cash)
  PROVE  Inv'
<1>1. MongoOK' /\ accounts' = accounts
  BY Serving DEF MongoOK, mongo
<1>2. CASE accounts = <<>>
  <2>1. Len(accounts') = 0 /\ "admin" \in mode
    BY <1>1, <1>2, Serving
  <2>2. p \in Onward /\ p \notin Booking
    BY DEF Onward, Places, Booking
  <2>. QED BY <1>1, <1>2, <2>1, <2>2, GotoInv DEF At
<1>3. CASE accounts # <<>>
  <2>1. HaveAccount(h, accounts[1].cash) /\ accounts[1].cash \in Int
    BY <1>3, Serving
  <2>2. /\ DOMAIN req' = Handlers /\ \A g \in Handlers : RequestOK(req'[g])
        /\ \A g \in Handlers \ {h} : req'[g] = req[g]
        /\ \/ req'[h] = Idle
           \/ /\ req'[h].pc = "save"
              /\ Filled(req'[h].order) /\ req'[h].order.action = "BUY"
                   => accounts[1].cash >= Cost(req'[h].order)
    BY <2>1, HaveAccountStep
  <2>3. Len(accounts) \in Nat /\ Len(accounts) # 0
    BY <1>3, Serving DEF MongoOK
  <2>4. KeepsAccount(req'[h], accounts)
    <3>1. "overlap" \notin mode => Len(accounts) = 1
      BY <2>3 DEF Inv, AccountKept
    <3>2. "admin" \notin mode => Len(accounts) = 1
      BY DEF Inv, AccountKept
    <3>3. req'[h].pc \in {"idle", "save"}
      BY <2>2 DEF Idle
    <3>4. req'[h].pc = "save" => (Filled(req'[h].order) /\ req'[h].order.action = "BUY"
                             => accounts[1].cash >= Cost(req'[h].order))
      BY <2>2 DEF Idle
    <3>. QED BY <3>1, <3>2, <3>3, <3>4 DEF KeepsAccount, AdminPlaces, Covers
  <2>. QED BY <1>1, <2>2, <2>4, Serving, HandlerStep DEF At
<1>. QED BY <1>2, <1>3

\* Without overlap nobody inserts an account beside this one.
LEMMA InsertAccountInv == ASSUME Inv, NEW h \in Handlers, InsertAccount(h) PROVE Inv'
<1>1. accounts' \in Seq(AccountRecords) /\ Len(accounts') = Len(accounts) + 1
  BY Serving, NewAccountType DEF InsertAccount, MongoOK
<1>2. MongoOK'
  BY <1>1, Serving DEF InsertAccount, MongoOK
<1>3. "admin" \in mode
  BY Serving DEF KeepsAccount, InsertAccount, Awaits, At, AdminPlaces
<1>4. "overlap" \notin mode => Len(accounts) = 0 /\ accounts'[1] = NewAccount /\ Len(accounts') = 1
  <2>1. "overlap" \notin mode => Len(accounts) = 0
    BY Serving DEF KeepsAccount, InsertAccount, Awaits, At
  <2>2. Len(accounts) = 0 => accounts'[1] = NewAccount
    BY Serving, NewAccountType DEF InsertAccount, MongoOK
  <2>. QED BY <2>1, <2>2, <1>1
<1>5. /\ DOMAIN req' = Handlers /\ \A g \in Handlers : RequestOK(req'[g])
      /\ \A g \in Handlers \ {h} : req'[g] = req[g]
      /\ \/ req'[h] = Idle
         \/ /\ req'[h].pc = "save"
            /\ Filled(req'[h].order) /\ req'[h].order.action = "BUY"
                 => InitialBalance >= Cost(req'[h].order)
  BY HaveAccountStep DEF InsertAccount, Awaits, At
<1>6. KeepsAccount(req'[h], accounts')
  <2>1. "overlap" \notin mode => Len(accounts') = 1 /\ accounts'[1].cash = InitialBalance
    BY <1>4 DEF NewAccount
  <2>2. req'[h].pc \in {"idle", "save"}
    BY <1>5 DEF Idle
  <2>3. req'[h].pc = "save" => (Filled(req'[h].order) /\ req'[h].order.action = "BUY"
                           => InitialBalance >= Cost(req'[h].order))
    BY <1>5 DEF Idle
  <2>. QED BY <1>3, <2>1, <2>2, <2>3 DEF KeepsAccount, Covers
<1>. QED BY <1>2, <1>5, <1>6, Serving, HandlerStep DEF InsertAccount, Awaits, At

\* A handler that is at work on an order.
LEMMA OrderServed ==
  ASSUME Inv, NEW h \in Handlers, req[h].pc \in Booking \cup {"close", "save"}
  PROVE  /\ req[h].order \in OrderRecords /\ req[h].order.symbol \in Symbols
         /\ req[h].value \in Nat /\ ~At(h, "idle")
         /\ Filled(req[h].order) => req[h].order.filled \in 1..req[h].order.quantity
         /\ req[h].pc \in Booking =>
              Filled(req[h].order) /\ req[h].order.filled \in Nat /\ req[h].order.filled > 0
         /\ req[h].pc \in {"insert position", "set position"} => req[h].value > 0
<1>1. RequestOK(req[h])
  BY Serving
<1>2. req[h].order # NoOrder
  BY <1>1, NoOrderRecord DEF RequestOK
<1>3. req[h].order \in OrderRecords /\ req[h].order.quantity \in Nat
  BY <1>1 DEF RequestOK, OrderRecords
<1>4. req[h].pc \in Booking =>
        Filled(req[h].order) /\ req[h].order.filled \in Nat /\ req[h].order.filled > 0
  <2>1. req[h].pc \in Booking => Filled(req[h].order)
    BY <1>1 DEF RequestOK
  <2>2. Filled(req[h].order) => req[h].order.filled \in 1..req[h].order.quantity
    BY <1>1 DEF RequestOK
  <2>3. \A n \in 1..req[h].order.quantity : n \in Nat /\ n > 0
    BY <1>3
  <2>. QED BY <2>1, <2>2, <2>3
<1>. QED BY <1>1, <1>2, <1>3, <1>4 DEF RequestOK, Placed, At, Booking

\* The order is saved, or another has its id.
LEMMA SaveOrderInv == ASSUME Inv, NEW h \in Handlers, SaveOrder(h) PROVE Inv'
<1>1. At(h, "save") /\ ~At(h, "idle") /\ UNCHANGED <<mode, began, accounts, positions, clock>>
  BY DEF SaveOrder, Awaits, At
<1>2. req[h].order \in OrderRecords
  BY <1>1, OrderServed DEF At
<1>3. MongoOK'
  <2>1. orders' \in Seq(OrderRecords)
    <3>1. orders \in Seq(OrderRecords)
      BY Serving DEF MongoOK
    <3>. QED BY <1>2, <3>1 DEF SaveOrder
  <2>. QED BY <1>1, <2>1, Serving DEF MongoOK
<1>4. CASE Done(h)
  BY <1>1, <1>3, <1>4, Serving, DoneInv
<1>5. CASE ~Done(h)
  <2>1. Goto(h, "cash") /\ Filled(req[h].order)
    BY <1>5 DEF SaveOrder
  <2>2. DOMAIN req' = Handlers /\ \A g \in Handlers : RequestOK(req'[g])
    BY <1>1, <2>1, GotoStep DEF Inv, Places, At
  <2>3. req'[h].pc = "cash" /\ req'[h].order = req[h].order /\ \A g \in Handlers \ {h} : req'[g] = req[g]
    BY <2>1, GotoRequest DEF Places
  <2>4. KeepsAccount(req[h], accounts) /\ req[h].pc = "save"
    BY <1>1, Serving DEF At
  <2>5. KeepsAccount(req'[h], accounts')
    BY <1>1, <2>3, <2>4 DEF KeepsAccount, AdminPlaces
  <2>. QED BY <1>1, <1>3, <2>2, <2>3, <2>5, Serving, HandlerStep
<1>. QED BY <1>4, <1>5

\* The account after the $inc of an order.
LEMMA ChargeType ==
  \A a \in AccountRecords, o \in OrderRecords : Charged(a, o) \in AccountRecords
<1>1. \A o \in OrderRecords : Delta(o) \in Int /\ o.commission \in Nat
  BY CostType DEF OrderRecords
<1>. QED BY <1>1 DEF Charged, AccountRecords

\* update_one on the account keeps what is known of the documents.
LEMMA UpdateFirstInv ==
  ASSUME Inv, NEW h \in Handlers, UNCHANGED <<mode, began, positions, orders, clock>>,
         NEW d, UpdateFirst(d), accounts # <<>> => d \in AccountRecords
  PROVE  /\ MongoOK'
         /\ "admin" \notin mode => Len(accounts') = 1
         /\ "overlap" \notin mode => Len(accounts') \in {0, 1}
<1>1. accounts \in Seq(AccountRecords)
  BY Serving DEF MongoOK
<1>2. accounts' \in Seq(AccountRecords) /\ Len(accounts') = Len(accounts)
  BY <1>1, UpdateFirstStep
<1>3. MongoOK'
  BY <1>2, Serving DEF MongoOK
<1>. QED BY <1>2, <1>3, Serving

\* The order is charged.
LEMMA UpdateBalanceInv == ASSUME Inv, NEW h \in Handlers, UpdateBalance(h) PROVE Inv'
<1>. DEFINE o == req[h].order
            d == Charged(accounts[1], o)
<1>1. req[h].pc = "cash" /\ UNCHANGED <<mode, began, positions, orders, clock>> /\ UpdateFirst(d)
  BY DEF UpdateBalance, Awaits, At
<1>2. o \in OrderRecords /\ o.commission \in Nat /\ Delta(o) \in Int /\ Filled(o) /\ ~At(h, "idle")
  BY <1>1, OrderServed, CostType DEF Booking, OrderRecords
<1>3. accounts # <<>> => d \in AccountRecords
  BY <1>2, Serving, ChargeType
<1>4. Goto(h, "position") /\ "position" \in Onward /\ "position" \notin AdminPlaces
  BY DEF UpdateBalance, Onward, Places, AdminPlaces
<1>5. /\ MongoOK'
      /\ "admin" \notin mode => Len(accounts') = 1
      /\ "overlap" \notin mode => Len(accounts') \in {0, 1}
  BY <1>1, <1>3, UpdateFirstInv
<1>. QED BY <1>1, <1>2, <1>4, <1>5, GotoInv DEF At

\* The P&L of a sale is booked.
LEMMA RealizeInv == ASSUME Inv, NEW h \in Handlers, Realize(h) PROVE Inv'
<1>. DEFINE d == [accounts[1] EXCEPT !.realized = @ + req[h].order.filled]
<1>1. /\ req[h].pc = "realize" /\ UNCHANGED <<mode, began, positions, orders, clock>>
      /\ UpdateFirst(d) /\ Done(h)
  BY DEF Realize, Awaits, At
<1>2. req[h].order.filled \in Nat /\ ~At(h, "idle")
  BY <1>1, OrderServed DEF Booking, OrderRecords
<1>3. accounts # <<>> => d \in AccountRecords
  BY <1>2, Serving DEF AccountRecords
<1>4. /\ MongoOK'
      /\ "admin" \notin mode => Len(accounts') = 1
      /\ "overlap" \notin mode => Len(accounts') \in {0, 1}
  BY <1>1, <1>3, UpdateFirstInv
<1>. QED BY <1>1, <1>2, <1>4, Serving, DoneInv

\* The balance is set, and the account read again.
LEMMA SetBalanceInv == ASSUME Inv, NEW h \in Handlers, SetBalance(h) PROVE Inv'
<1>. DEFINE d == [accounts[1] EXCEPT !.cash = req[h].value]
            r == [pc |-> "account", order |-> NoOrder, value |-> 0]
<1>1. /\ req[h].pc = "balance" /\ ~At(h, "idle") /\ UNCHANGED <<mode, began, positions, orders, clock>>
      /\ UpdateFirst(d) /\ req' = [req EXCEPT ![h] = r]
  BY DEF SetBalance, Awaits, At
<1>2. req[h].value \in Nat /\ DOMAIN req = Handlers
  BY Serving DEF RequestOK, Inv, TypeOK
<1>3. accounts # <<>> => d \in AccountRecords
  BY <1>2, Serving DEF AccountRecords
<1>4. /\ MongoOK'
      /\ "admin" \notin mode => Len(accounts') = 1
      /\ "overlap" \notin mode => Len(accounts') \in {0, 1}
  BY <1>1, <1>3, UpdateFirstInv
<1>5. RequestOK(r)
  BY NoOrderRecord DEF RequestOK, Booking, Places
<1>6. DOMAIN req' = Handlers /\ \A g \in Handlers : RequestOK(req'[g])
  BY <1>1, <1>5, RequestStep DEF Inv
<1>7. req'[h].pc = "account" /\ \A g \in Handlers \ {h} : req'[g] = req[g]
  BY <1>1, <1>2
<1>8. KeepsAccount(req'[h], accounts')
  BY <1>4, <1>7 DEF KeepsAccount, AdminPlaces
<1>. QED BY <1>1, <1>4, <1>6, <1>7, <1>8, Serving, HandlerStep

\* A handler goes on with its order, to write a position.
LEMMA WriteInv ==
  ASSUME Inv, NEW h \in Handlers, At(h, "position"), UNCHANGED <<mode, began, mongo, clock>>,
         NEW place \in {"insert position", "set position", "delete position"}, NEW q \in Nat,
         place # "delete position" => q > 0,
         req' = [req EXCEPT ![h] = [pc |-> place, order |-> req[h].order, value |-> q]]
  PROVE  Inv'
<1>. DEFINE r == [pc |-> place, order |-> req[h].order, value |-> q]
<1>1. RequestOK(req[h]) /\ DOMAIN req = Handlers /\ req[h].pc = "position"
  BY Serving DEF At, Inv, TypeOK
<1>2. req[h].order \in OrderRecords /\ ~At(h, "idle") /\ Filled(req[h].order)
  BY <1>1, OrderServed DEF Booking
<1>3. r.pc = place /\ r.order = req[h].order /\ r \in [pc : Places, order : OrderRecords, value : Nat]
  BY <1>2 DEF Places
<1>4. RequestOK(r)
  BY <1>1, <1>2, <1>3 DEF RequestOK, Placed
<1>5. DOMAIN req' = Handlers /\ \A g \in Handlers : RequestOK(req'[g])
  BY <1>4, RequestStep DEF Inv
<1>6. req'[h].pc = place /\ \A g \in Handlers \ {h} : req'[g] = req[g]
  BY <1>1
<1>7. MongoOK' /\ accounts' = accounts
  BY Serving DEF MongoOK, mongo
<1>8. KeepsAccount(req'[h], accounts')
  BY <1>6, <1>7, Serving DEF KeepsAccount, AdminPlaces
<1>. QED BY <1>2, <1>5, <1>6, <1>7, <1>8, Serving, HandlerStep

\* What is written depends on what was read.
LEMMA ReadPositionInv == ASSUME Inv, NEW h \in Handlers, ReadPosition(h) PROVE Inv'
<1>. DEFINE o == req[h].order
<1>1. At(h, "position") /\ ~At(h, "idle") /\ UNCHANGED <<mode, began, mongo, clock>>
  BY DEF ReadPosition, Awaits, At
<1>2. o.filled \in Nat /\ o.filled > 0 /\ o.symbol \in Symbols
  BY <1>1, OrderServed DEF Booking, OrderRecords, At
<1>3. Held(h).quantity \in Nat
  BY <1>2, Serving DEF Held, MongoOK, Positions, NoPosition
<1>4. CASE Done(h)
  <2>1. MongoOK' /\ accounts' = accounts
    BY <1>1, Serving DEF MongoOK, mongo
  <2>. QED BY <1>1, <1>4, <2>1, Serving, DoneInv
<1>5. CASE ~Done(h)
  <2>1. \E place \in {"insert position", "set position", "delete position"}, q \in Nat :
          /\ place # "delete position" => q > 0
          /\ req' = [req EXCEPT ![h] = [pc |-> place, order |-> req[h].order, value |-> q]]
    <3>1. CASE req' = [req EXCEPT ![h] = [pc |-> "insert position", order |-> o, value |-> o.filled]]
      BY <1>2, <3>1
    <3>2. CASE req' = [req EXCEPT ![h] =
                         [pc |-> "set position", order |-> o, value |-> Held(h).quantity + o.filled]]
      <4>1. Held(h).quantity + o.filled \in Nat /\ Held(h).quantity + o.filled > 0
        BY <1>2, <1>3
      <4>. QED BY <3>2, <4>1
    <3>3. CASE req' = [req EXCEPT ![h] = [pc |-> "delete position", order |-> o, value |-> 0]]
      BY <3>3
    <3>4. CASE /\ Held(h).quantity - o.filled > 0
               /\ req' = [req EXCEPT ![h] =
                            [pc |-> "set position", order |-> o, value |-> Held(h).quantity - o.filled]]
      <4>1. Held(h).quantity - o.filled > 0
        BY <3>4
      <4>2. Held(h).quantity - o.filled \in Nat
        BY <1>2, <1>3, <4>1
      <4>. QED BY <3>4, <4>1, <4>2
    <3>5. ~(Held(h).quantity - o.filled <= 0) => Held(h).quantity - o.filled > 0
      BY <1>2, <1>3
    <3>. QED BY <1>5, <3>1, <3>2, <3>3, <3>4, <3>5 DEF ReadPosition
  <2>. QED BY <1>1, <2>1, WriteInv
<1>. QED BY <1>4, <1>5

\* The position was written: the request is done, or goes on to the account.
LEMMA PositionWrittenInv ==
  ASSUME Inv, NEW h \in Handlers, UNCHANGED <<mode, began, accounts, orders, clock>>,
         req[h].pc \in {"set position", "delete position", "insert position"},
         positions' \in [Symbols -> Positions],
         PositionWritten(h) \/ Done(h)
  PROVE  Inv'
<1>1. MongoOK'
  BY Serving DEF MongoOK
<1>2. ~At(h, "idle") /\ ~At(h, "close") /\ Filled(req[h].order)
  BY OrderServed DEF At, Booking
<1>3. CASE Done(h)
  BY <1>1, <1>2, <1>3, Serving, DoneInv
<1>4. CASE Goto(h, "realize")
  <2>1. "realize" \in Onward /\ "realize" \notin AdminPlaces
    BY DEF Onward, Places, AdminPlaces
  <2>. QED BY <1>1, <1>2, <1>4, <2>1, Serving, GotoInv
<1>. QED BY <1>3, <1>4 DEF PositionWritten

\* A position is inserted unless there is one by now.
LEMMA InsertPositionInv == ASSUME Inv, NEW h \in Handlers, InsertPosition(h) PROVE Inv'
<1>1. req[h].pc = "insert position" /\ UNCHANGED <<mode, began, accounts, orders, clock>> /\ Done(h)
  BY DEF InsertPosition, Awaits, At
<1>2. req[h].value \in Nat /\ req[h].value > 0
  BY <1>1, OrderServed DEF Booking
<1>3. positions' \in [Symbols -> Positions]
  <2>1. positions \in [Symbols -> Positions]
    BY Serving DEF MongoOK
  <2>2. [quantity |-> req[h].value, realized |-> 0] \in Positions
    BY <1>2 DEF Positions
  <2>. QED BY <2>1, <2>2 DEF InsertPosition, WritePosition
<1>. QED BY <1>1, <1>3, PositionWrittenInv

\* A position is set unless it is gone by now.
LEMMA SetPositionInv == ASSUME Inv, NEW h \in Handlers, SetPosition(h) PROVE Inv'
<1>1. /\ req[h].pc = "set position" /\ UNCHANGED <<mode, began, accounts, orders, clock>>
      /\ PositionWritten(h)
  BY DEF SetPosition, Awaits, At
<1>2. /\ req[h].value \in Nat /\ req[h].value > 0
      /\ req[h].order.filled \in Nat /\ req[h].order.symbol \in Symbols
  BY <1>1, OrderServed DEF Booking
<1>3. Held(h).realized \in Nat
  BY <1>2, Serving DEF Held, MongoOK, Positions, NoPosition
<1>4. positions' \in [Symbols -> Positions]
  <2>1. positions \in [Symbols -> Positions]
    BY Serving DEF MongoOK
  <2>2. \A n \in Nat : [quantity |-> req[h].value, realized |-> n] \in Positions
    BY <1>2 DEF Positions
  <2>3. Held(h).realized + (IF req[h].order.action = "SELL" THEN req[h].order.filled ELSE 0) \in Nat
    BY <1>2, <1>3
  <2>. QED BY <2>1, <2>2, <2>3 DEF SetPosition, WritePosition
<1>. QED BY <1>1, <1>4, PositionWrittenInv

\* A position is deleted.
LEMMA DeletePositionInv == ASSUME Inv, NEW h \in Handlers, DeletePosition(h) PROVE Inv'
<1>1. /\ req[h].pc = "delete position" /\ UNCHANGED <<mode, began, accounts, orders, clock>>
      /\ PositionWritten(h)
  BY DEF DeletePosition, Awaits, At
<1>2. positions' \in [Symbols -> Positions]
  BY Serving DEF DeletePosition, WritePosition, MongoOK, Positions
<1>. QED BY <1>1, <1>2, PositionWrittenInv

\* A position that is held is sold as a whole.
LEMMA ClosePositionInv == ASSUME Inv, NEW h \in Handlers, ClosePosition(h) PROVE Inv'
<1>1. /\ req[h].pc = "close" /\ ~At(h, "idle") /\ UNCHANGED <<mode, began>>
      /\ accounts' = accounts /\ positions' = positions /\ orders' = orders
  BY DEF ClosePosition, Awaits, At, mongo
<1>2. req[h].order.symbol \in Symbols /\ clock \in Nat /\ DOMAIN req = Handlers
  BY <1>1, OrderServed, Serving DEF Inv, TypeOK
<1>3. MongoOK'
  BY <1>1, Serving DEF MongoOK
<1>4. CASE Held(h) = NoPosition
  <2>1. Done(h) /\ clock' \in Nat
    BY <1>2, <1>4 DEF ClosePosition
  <2>. QED BY <1>1, <1>3, <2>1, Serving, DoneInv
<1>5. CASE Held(h) # NoPosition
  <2>1. PICK t \in {clock, clock + 1} :
          /\ clock' = t
          /\ req' = [req EXCEPT ![h] =
               [pc |-> "account", value |-> 0,
                order |-> Order(t, req[h].order.symbol, "SELL", Held(h).quantity)]]
    BY <1>2, <1>5 DEF ClosePosition
  <2>. DEFINE o == Order(t, req[h].order.symbol, "SELL", Held(h).quantity)
              r == [pc |-> "account", value |-> 0, order |-> o]
  <2>2. t \in Nat /\ Held(h).quantity \in Nat \ {0}
    <3>1. Held(h) \in Positions
      BY <1>2, Serving DEF Held, MongoOK
    <3>. QED BY <1>2, <1>5, <3>1 DEF Positions
  <2>3. o \in OrderRecords /\ ~Filled(o) /\ o.filled = 0 /\ o.symbol \in Symbols /\ o.quantity = Held(h).quantity
    BY <1>2, <2>2 DEF Order, OrderRecords, Filled, Actions
  <2>4. Held(h).quantity > 0
    BY <2>2
  <2>5. RequestOK(r)
    BY <2>3, <2>4 DEF RequestOK, Placed, Places, Booking
  <2>6. DOMAIN req' = Handlers /\ \A g \in Handlers : RequestOK(req'[g])
    BY <2>1, <2>5, RequestStep DEF Inv
  <2>7. req'[h].pc = "account" /\ \A g \in Handlers \ {h} : req'[g] = req[g]
    BY <1>2, <2>1
  <2>8. KeepsAccount(req'[h], accounts')
    BY <1>1, <2>7, Serving DEF KeepsAccount, AdminPlaces
  <2>. QED BY <1>1, <1>3, <2>1, <2>2, <2>6, <2>7, <2>8, HandlerStep
<1>. QED BY <1>4, <1>5

\* A reset empties the collections one by one; only with administrators.
LEMMA ResetInv ==
  ASSUME Inv, NEW h \in Handlers, DeleteOrders(h) \/ DeletePositions(h) \/ DeleteAccount(h)
  PROVE  Inv'
<1>1. /\ ~At(h, "idle") /\ ~At(h, "close") /\ req[h].pc \in AdminPlaces
      /\ mode' = mode /\ began' = began /\ clock' = clock
  BY DEF DeleteOrders, DeletePositions, DeleteAccount, Awaits, At, AdminPlaces
<1>2. "admin" \in mode
  BY <1>1, Serving DEF KeepsAccount
<1>3. PICK p \in {"reset positions", "reset account", "initialize"} : Goto(h, p)
  BY DEF DeleteOrders, DeletePositions, DeleteAccount
<1>4. p \in Onward /\ p \notin Booking
  BY DEF Onward, Places, Booking
<1>5. /\ accounts' = accounts \/ accounts' = <<>>
      /\ positions' = positions \/ positions' = [s \in Symbols |-> NoPosition]
      /\ orders' = orders \/ orders' = <<>>
  BY DEF DeleteOrders, DeletePositions, DeleteAccount
<1>6. MongoOK'
  <2>1. [s \in Symbols |-> NoPosition] \in [Symbols -> Positions]
    BY DEF Positions
  <2>2. MongoOK
    BY Serving
  <2>3. accounts' \in Seq(AccountRecords)
    <3>1. CASE accounts' = accounts
      BY <2>2, <3>1 DEF MongoOK
    <3>2. CASE accounts' = <<>>
      BY <3>2, EmptySeq
    <3>. QED BY <1>5, <3>1, <3>2
  <2>4. orders' \in Seq(OrderRecords)
    <3>1. CASE orders' = orders
      BY <2>2, <3>1 DEF MongoOK
    <3>2. CASE orders' = <<>>
      BY <3>2, EmptySeq
    <3>. QED BY <1>5, <3>1, <3>2
  <2>. QED BY <1>5, <2>1, <2>2, <2>3, <2>4 DEF MongoOK
<1>7. "overlap" \notin mode => Len(accounts') \in {0, 1}
  <2>1. CASE accounts' = accounts
    BY <2>1 DEF Inv, AccountKept
  <2>2. CASE accounts' = <<>>
    BY <2>2
  <2>. QED BY <1>5, <2>1, <2>2
<1>8. p # "insert"
  OBVIOUS
<1>. QED BY <1>1, <1>2, <1>3, <1>4, <1>6, <1>7, <1>8, GotoInv

\* A call raises: the handler is done.
LEMMA RaisesInv == ASSUME Inv, NEW h \in Handlers, Raises(h) PROVE Inv'
<1>1. UNCHANGED <<mode, mongo, clock, began>> /\ ~At(h, "idle") /\ Done(h)
  BY DEF Raises
<1>2. MongoOK' /\ accounts' = accounts
  BY <1>1, Serving DEF MongoOK, mongo
<1>. QED BY <1>1, <1>2, Serving, DoneInv

\* After a restart there is an account, and nobody is served.
LEMMA RestartInv == ASSUME Inv, Restart PROVE Inv'
<1>1. \A h \in Handlers : req'[h] = Idle
  BY DEF Restart
<1>2. DOMAIN req' = Handlers
  BY DEF Restart
<1>3. accounts \in Seq(AccountRecords)
  BY DEF Inv, TypeOK, AccountRecords
<1>4. accounts' \in Seq(AccountRecords) /\ (Len(accounts') = 1 \/ accounts' = accounts)
  BY <1>3, NewAccountType DEF Restart
<1>5. RequestOK(Idle)
  BY NoOrderRecord DEF Idle, RequestOK, Booking, Places
<1>6. TypeOK'
  <2>1. \A h \in Handlers : RequestOK(req'[h])
    BY <1>1, <1>5
  <2>. QED BY <1>2, <1>4, <2>1 DEF Inv, TypeOK, AccountRecords, Restart
<1>7. Alone'
  <2>1. \A h \in Handlers : req'[h].pc = "idle"
    BY <1>1 DEF Idle
  <2>. QED BY <2>1 DEF Alone, At
<1>8. "admin" \notin mode => Len(accounts') = 1
  BY <1>4 DEF Inv, AccountKept
<1>9. mode' = mode
  BY DEF Restart
<1>10. AccountKept'
  <2>1. "admin" \notin mode => Len(accounts') = 1
    BY <1>8, <1>9
  <2>2. "overlap" \notin mode => Len(accounts') \in {0, 1}
    BY <1>4 DEF Inv, AccountKept
  <2>3. \A h \in Handlers : req'[h].pc = "idle"
    BY <1>1 DEF Idle
  <2>. QED BY <1>9, <2>1, <2>2, <2>3 DEF AccountKept, KeepsAccount, AdminPlaces
<1>. QED BY <1>6, <1>7, <1>10 DEF Inv

\* Every step keeps the invariant.
LEMMA NextInv == ASSUME Inv, [Next]_vars PROVE Inv'
<1>1. ASSUME NEW h \in Handlers, Handler(h) PROVE Inv'
  <2>1. CASE ReadAccount(h)
    <3>1. req[h].pc = "account" /\ UNCHANGED <<mode, began, mongo, clock>>
      BY <2>1 DEF ReadAccount, Awaits, At
    <3>2. IF accounts = <<>> THEN Goto(h, "initialize") ELSE HaveAccount(h, accounts[1].cash)
      BY <2>1 DEF ReadAccount
    <3>. QED BY <3>1, <3>2, FindAccountInv
  <2>2. CASE Initialize(h)
    <3>1. req[h].pc = "initialize" /\ UNCHANGED <<mode, began, mongo, clock>>
      BY <2>2 DEF Initialize, Awaits, At
    <3>2. IF accounts = <<>> THEN Goto(h, "insert") ELSE HaveAccount(h, accounts[1].cash)
      BY <2>2 DEF Initialize
    <3>. QED BY <3>1, <3>2, FindAccountInv
  <2>3. CASE InsertAccount(h) \/ SaveOrder(h) \/ UpdateBalance(h) \/ ReadPosition(h)
    BY <2>3, InsertAccountInv, SaveOrderInv, UpdateBalanceInv, ReadPositionInv
  <2>4. CASE InsertPosition(h) \/ SetPosition(h) \/ DeletePosition(h) \/ Realize(h)
    BY <2>4, InsertPositionInv, SetPositionInv, DeletePositionInv, RealizeInv
  <2>5. CASE ClosePosition(h) \/ SetBalance(h)
    BY <2>5, ClosePositionInv, SetBalanceInv
  <2>6. CASE DeleteOrders(h) \/ DeletePositions(h) \/ DeleteAccount(h)
    BY <2>6, ResetInv
  <2>. QED BY <1>1, <2>1, <2>2, <2>3, <2>4, <2>5, <2>6 DEF Handler, PlaceOrder
<1>2. CASE UNCHANGED vars
  <2>1. TypeOK'
    BY <1>2 DEF Inv, TypeOK, vars, mongo
  <2>2. Alone'
    BY <1>2 DEF Inv, Alone, At, vars, mongo
  <2>3. AccountKept'
    BY <1>2 DEF Inv, AccountKept, KeepsAccount, vars, mongo
  <2>. QED BY <2>1, <2>2, <2>3 DEF Inv
<1>. QED BY <1>1, <1>2, RequestInv, RaisesInv, RestartInv DEF Next

\* The gateway starts with one account and no requests.
LEMMA InitInv == Init => Inv
<1>. SUFFICES ASSUME Init PROVE Inv
  OBVIOUS
<1>1. RequestOK(Idle) /\ Idle.pc = "idle"
  BY NoOrderRecord DEF Idle, RequestOK, Booking, Places
<1>2. accounts \in Seq(AccountRecords) /\ Len(accounts) = 1
  BY NewAccountType DEF Init
<1>3. TypeOK
  <2>1. positions \in [Symbols -> Positions]
    BY DEF Init, Positions
  <2>2. orders \in Seq(OrderRecords)
    BY DEF Init
  <2>. QED BY <1>1, <1>2, <2>1, <2>2 DEF Init, TypeOK, AccountRecords
<1>4. Alone
  BY <1>1 DEF Init, Alone, At
<1>5. AccountKept
  BY <1>1, <1>2 DEF Init, AccountKept, KeepsAccount, AdminPlaces
<1>. QED BY <1>3, <1>4, <1>5 DEF Inv

\* The invariant holds throughout.
LEMMA Invariance == Spec => []Inv
  BY InitInv, NextInv, PTL DEF Spec

\* The database and the handlers keep their types: no position is short, and every fill is of
\* a positive quantity, at most the one ordered.
THEOREM PaperTypeCorrect == Spec => []TypeOK
<1>1. Inv => TypeOK
  BY DEF Inv
<1>. QED BY <1>1, Invariance, PTL

\* Unless a reset runs beside other requests, there is one account at most, and one when a
\* fill is charged.
THEOREM PaperOneAccount == Spec => []OneAccount
<1>1. Inv => OneAccount
  <2>. SUFFICES ASSUME Inv, ~({"overlap", "admin"} \subseteq mode)
                PROVE  Len(accounts) \in {0, 1} /\ \A h \in Handlers : At(h, "cash") => Len(accounts) = 1
    BY DEF OneAccount
  <2>1. CASE "admin" \notin mode
    BY <2>1 DEF Inv, AccountKept
  <2>2. CASE "overlap" \notin mode
    <3>1. Len(accounts) \in {0, 1}
      BY <2>2 DEF Inv, AccountKept
    <3>2. ASSUME NEW h \in Handlers, At(h, "cash") PROVE Len(accounts) = 1
      <4>1. KeepsAccount(req[h], accounts) /\ req[h].pc = "cash"
        BY <3>2, Serving DEF At
      <4>2. req[h].pc \in {"save", "cash"}
        BY <4>1
      <4>. QED BY <2>2, <4>1, <4>2 DEF KeepsAccount
    <3>. QED BY <3>1, <3>2
  <2>. QED BY <2>1, <2>2
<1>. QED BY <1>1, Invariance, PTL

\* With requests one at a time no purchase overdraws the account, whatever fails.
THEOREM PaperNoOverdraft == Spec => NoOverdraft
<1>1. Inv /\ [Next]_vars =>
        [\A h \in Handlers : "overlap" \notin mode /\ Purchase(h) => accounts'[1].cash >= 0]_vars
  <2>. SUFFICES ASSUME Inv, Next, NEW h \in Handlers, "overlap" \notin mode, Purchase(h)
                PROVE  accounts'[1].cash >= 0
    OBVIOUS
  <2>. DEFINE o == req[h].order
  <2>1. req[h].pc = "cash" /\ UpdateFirst(Charged(accounts[1], o)) /\ o.action = "BUY"
    BY DEF Purchase, UpdateBalance, Awaits, At
  <2>2. o \in OrderRecords /\ Filled(o)
    BY <2>1, OrderServed DEF Booking
  <2>3. KeepsAccount(req[h], accounts) /\ accounts \in Seq(AccountRecords)
    BY Serving DEF MongoOK
  <2>4. Len(accounts) = 1 /\ accounts[1].cash >= Cost(o)
    <3>1. req[h].pc \in {"save", "cash"} /\ Filled(req[h].order) /\ req[h].order.action = "BUY"
      BY <2>1, <2>2
    <3>. QED BY <2>3, <3>1 DEF KeepsAccount, Covers
  <2>5. accounts # <<>> /\ accounts[1] \in AccountRecords /\ accounts[1].cash \in Int
    <3>1. accounts # <<>>
      BY <2>4, EmptySeq
    <3>2. accounts[1] \in AccountRecords
      BY <2>3, <2>4
    <3>. QED BY <3>1, <3>2 DEF AccountRecords
  <2>6. accounts' = [accounts EXCEPT ![1] = Charged(accounts[1], o)]
    BY <2>1, <2>5 DEF UpdateFirst
  <2>7. accounts'[1] = Charged(accounts[1], o)
    BY <2>3, <2>4, <2>6
  <2>8. accounts'[1].cash = accounts[1].cash + Delta(o)
    BY <2>7 DEF Charged
  <2>9. Delta(o) = -Cost(o) /\ Cost(o) \in Nat
    BY <2>1, <2>2, CostType
  <2>. QED BY <2>4, <2>5, <2>8, <2>9
<1>. QED BY <1>1, Invariance, PTL DEF Spec, NoOverdraft

-----------------------------------------------------------------------------
(* The books: what the account and the positions have to do with the       *)
(* orders.  A sum over the orders leaves out those of the handlers that    *)
(* have not done yet what the sum is compared with.                        *)

\* The ids of the orders that handlers hold at some places.
IdsAt(r, places) == {r[g].order.id : g \in {f \in Handlers : r[f].pc \in places}}

\* No two orders have the same id.
Apart(q) == \A i, j \in 1..Len(q) : q[i].id = q[j].id => i = j

\* What V says of each order, but for those with the given ids.
Counted(q, V, ids) == [i \in 1..Len(q) |-> IF q[i].id \in ids THEN 0 ELSE V[q[i]]]

\* One number per order.
LEMMA CountedTyped ==
  ASSUME NEW q \in Seq(OrderRecords), NEW V \in [OrderRecords -> Int], NEW ids
  PROVE  /\ Counted(q, V, ids) \in Seq(Int) /\ Len(Counted(q, V, ids)) = Len(q)
         /\ \A i \in 1..Len(q) : Counted(q, V, ids)[i] = (IF q[i].id \in ids THEN 0 ELSE V[q[i]])
<1>1. \A i \in 1..Len(q) : q[i] \in OrderRecords
  OBVIOUS
<1>2. \A i \in 1..Len(q) : (IF q[i].id \in ids THEN 0 ELSE V[q[i]]) \in Int
  BY <1>1
<1>3. Len(q) \in Nat
  OBVIOUS
<1>. QED BY <1>2, <1>3 DEF Counted

\* One more order.
LEMMA CountedAppend ==
  ASSUME NEW q \in Seq(OrderRecords), NEW o \in OrderRecords, NEW V \in [OrderRecords -> Int], NEW ids
  PROVE  Total(Counted(Append(q, o), V, ids))
           = Total(Counted(q, V, ids)) + (IF o.id \in ids THEN 0 ELSE V[o])
<1>. DEFINE c == Counted(q, V, ids)
            d == Counted(Append(q, o), V, ids)
            x == IF o.id \in ids THEN 0 ELSE V[o]
<1>1. c \in Seq(Int) /\ Len(c) = Len(q) /\ x \in Int
  BY CountedTyped
<1>2. /\ Append(q, o) \in Seq(OrderRecords) /\ Len(Append(q, o)) = Len(q) + 1
      /\ Append(q, o)[Len(q) + 1] = o /\ \A i \in 1..Len(q) : Append(q, o)[i] = q[i]
  OBVIOUS
<1>3. /\ d \in Seq(Int) /\ Len(d) = Len(q) + 1
      /\ \A i \in 1..(Len(q) + 1) :
           d[i] = (IF Append(q, o)[i].id \in ids THEN 0 ELSE V[Append(q, o)[i]])
  <2>. DEFINE p == Append(q, o)
  <2>1. p \in Seq(OrderRecords) /\ Len(p) = Len(q) + 1
    BY <1>2
  <2>. HIDE DEF p
  <2>2. /\ Counted(p, V, ids) \in Seq(Int) /\ Len(Counted(p, V, ids)) = Len(q) + 1
        /\ \A i \in 1..(Len(q) + 1) :
             Counted(p, V, ids)[i] = (IF p[i].id \in ids THEN 0 ELSE V[p[i]])
    BY <2>1, CountedTyped
  <2>. QED BY <2>2 DEF p
<1>4. \A i \in 1..Len(q) : d[i] = c[i]
  <2>1. SUFFICES ASSUME NEW i \in 1..Len(q) PROVE d[i] = c[i]
    OBVIOUS
  <2>2. i \in 1..(Len(q) + 1) /\ Append(q, o)[i] = q[i]
    BY <1>2
  <2>3. d[i] = (IF q[i].id \in ids THEN 0 ELSE V[q[i]])
    BY <1>3, <2>2
  <2>4. c[i] = (IF q[i].id \in ids THEN 0 ELSE V[q[i]])
    BY CountedTyped
  <2>. QED BY <2>3, <2>4
<1>5. Len(q) \in Nat /\ d[Len(q) + 1] = x
  BY <1>2, <1>3
<1>. DEFINE e == Append(c, x)
<1>6. d = e
  <2>. HIDE DEF c, d, x
  <2>1. e \in Seq(Int) /\ Len(e) = Len(q) + 1
    BY <1>1
  <2>2. \A i \in 1..(Len(q) + 1) : d[i] = e[i]
    BY <1>1, <1>4, <1>5
  <2>. HIDE DEF e
  <2>3. e \in [1..(Len(q) + 1) -> Int]
    BY <2>1
  <2>4. d \in [1..(Len(q) + 1) -> Int]
    BY <1>3
  <2>. QED BY <2>2, <2>3, <2>4
<1>. QED BY <1>1, <1>6, TotalAppend

\* Ids that no order has do not matter.
LEMMA CountedSame ==
  ASSUME NEW q \in Seq(OrderRecords), NEW V, NEW ids, NEW others,
         \A i \in 1..Len(q) : q[i].id \in ids <=> q[i].id \in others
  PROVE  Counted(q, V, others) = Counted(q, V, ids)
  BY DEF Counted

\* An order that is no longer left out is counted.
LEMMA CountedRelease ==
  ASSUME NEW q \in Seq(OrderRecords), NEW V \in [OrderRecords -> Int], NEW ids, Apart(q),
         NEW k \in 1..Len(q), q[k].id \in ids
  PROVE  Total(Counted(q, V, ids \ {q[k].id})) = Total(Counted(q, V, ids)) + V[q[k]]
<1>. DEFINE c == Counted(q, V, ids)
            d == Counted(q, V, ids \ {q[k].id})
<1>1. c \in Seq(Int) /\ d \in Seq(Int) /\ Len(c) = Len(q) /\ Len(d) = Len(q)
  BY CountedTyped
<1>2. \A i \in 1..Len(q) : i # k => d[i] = c[i]
  <2>1. SUFFICES ASSUME NEW i \in 1..Len(q), i # k PROVE d[i] = c[i]
    OBVIOUS
  <2>2. d[i] = (IF q[i].id \in ids \ {q[k].id} THEN 0 ELSE V[q[i]])
    BY CountedTyped
  <2>3. c[i] = (IF q[i].id \in ids THEN 0 ELSE V[q[i]])
    BY CountedTyped
  <2>4. q[i].id # q[k].id
    BY <2>1 DEF Apart
  <2>. QED BY <2>2, <2>3, <2>4
<1>3. c[k] = 0 /\ d[k] = V[q[k]] /\ V[q[k]] \in Int
  BY CountedTyped
<1>4. Total(d) = Total(c) + (d[k] - c[k])
  <2>1. k \in 1..Len(q) /\ \A i \in 1..Len(q) : i # k => d[i] = c[i]
    BY <1>2
  <2>. DEFINE n == Len(q)
  <2>. HIDE DEF c, d, n
  <2>2. Len(c) = n /\ Len(d) = n /\ k \in 1..n /\ \A i \in 1..n : i # k => d[i] = c[i]
    BY <1>1, <2>1 DEF n
  <2>3. c \in Seq(Int) /\ d \in Seq(Int)
    BY <1>1
  <2>. HIDE PaperAssumption
  <2>. QED BY <2>2, <2>3, TotalChange
<1>. QED BY <1>1, <1>3, <1>4, TotalIsInt

\* Leaving out fewer orders does not count less.
LEMMA CountedMore ==
  ASSUME NEW q \in Seq(OrderRecords), NEW V \in [OrderRecords -> Nat], NEW ids, NEW fewer,
         \A i \in 1..Len(q) : q[i].id \in fewer => q[i].id \in ids
  PROVE  Total(Counted(q, V, ids)) <= Total(Counted(q, V, fewer))
<1>. DEFINE c == Counted(q, V, ids)
            d == Counted(q, V, fewer)
<1>0. V \in [OrderRecords -> Int]
  OBVIOUS
<1>1. c \in Seq(Int) /\ d \in Seq(Int) /\ Len(c) = Len(q) /\ Len(d) = Len(q)
  BY <1>0, CountedTyped
<1>2. \A i \in 1..Len(q) : c[i] <= d[i]
  <2>1. \A i \in 1..Len(q) : /\ c[i] = (IF q[i].id \in ids THEN 0 ELSE V[q[i]])
                             /\ d[i] = (IF q[i].id \in fewer THEN 0 ELSE V[q[i]])
    BY <1>0, CountedTyped
  <2>2. ASSUME NEW i \in 1..Len(q) PROVE c[i] <= d[i]
    <3>1. V[q[i]] \in Nat
      OBVIOUS
    <3>2. CASE q[i].id \in ids
      <4>1. c[i] = 0 /\ d[i] \in {0, V[q[i]]}
        BY <2>1, <3>2
      <4>. QED BY <3>1, <4>1
    <3>3. CASE q[i].id \notin ids
      <4>1. c[i] = V[q[i]] /\ d[i] = V[q[i]]
        BY <2>1, <3>3
      <4>. QED BY <3>1, <4>1
    <3>. QED BY <3>2, <3>3
  <2>. QED BY <2>2
<1>. HIDE DEF c, d
<1>3. Total(c) <= Total(d)
  BY <1>1, <1>2, TotalAtMost
<1>. QED BY <1>3 DEF c, d

\* Between these places an order is saved and not yet booked on its position; at Saved the
\* position has not been read either.
Pending == {"cash", "position", "insert position", "set position", "delete position"}
Saved == {"cash", "position"}
Unsettled == Pending \cup {"reset positions"}

\* Without administrators, orders have ids of their own, and handlers orders of their own.
OrdersInv ==
  "admin" \notin mode =>
    /\ Apart(orders)
    /\ \A h \in Handlers : req[h].pc \in Saved => \E i \in 1..Len(orders) : orders[i] = req[h].order
    /\ \A g, h \in Handlers :
         req[g].pc \in Saved /\ req[h].pc \in Saved /\ req[g].order.id = req[h].order.id => g = h

\* The steps that leave the books alone.
Bystander(g) ==
  \/ req'[g] = req[g]
  \/ req'[g].pc \notin Unsettled /\ ("failure" \notin mode => req[g].pc \notin Unsettled)
Quiet ==
  /\ UNCHANGED <<mode, orders, positions>> /\ \A g \in Handlers : Bystander(g)
  /\ "admin" \notin mode => /\ accounts'[1].cash = accounts[1].cash
                            /\ accounts'[1].commission = accounts[1].commission

\* A step of one handler, away from the places where something is booked.
LEMMA QuietStep ==
  ASSUME Inv, NEW h \in Handlers, UNCHANGED <<mode, orders, positions>>,
         \A g \in Handlers \ {h} : req'[g] = req[g],
         req[h].pc \notin Unsettled \/ "failure" \in mode, req'[h].pc \notin Unsettled,
         "admin" \notin mode => /\ accounts'[1].cash = accounts[1].cash
                                /\ accounts'[1].commission = accounts[1].commission
  PROVE  Quiet
  BY DEF Quiet, Bystander

\* A request begins, or the account is looked for.
LEMMA RequestQuiet == ASSUME Inv, NEW h \in Handlers, Request(h) PROVE Quiet
<1>1. PICK place \in {"account", "close", "balance", "reset"} :
        \E o, v : Begin(h, place, o, v)
  <2>1. CASE PostOrder(h)
    BY <2>1 DEF PostOrder
  <2>2. CASE PostClose(h)
    BY <2>2 DEF PostClose
  <2>3. CASE GetAccount(h)
    BY <2>3 DEF GetAccount
  <2>4. CASE PutBalance(h)
    BY <2>4 DEF PutBalance
  <2>5. CASE PostReset(h)
    BY <2>5 DEF PostReset
  <2>. QED BY <2>1, <2>2, <2>3, <2>4, <2>5 DEF Request
<1>2. PICK o, v : Begin(h, place, o, v)
  BY <1>1
<1>3. /\ req[h].pc = "idle" /\ UNCHANGED <<mode, accounts, orders, positions>>
      /\ req' = [req EXCEPT ![h] = [pc |-> place, order |-> o, value |-> v]]
  BY <1>2 DEF Begin, At, mongo
<1>4. req'[h].pc = place /\ \A g \in Handlers \ {h} : req'[g] = req[g]
  BY <1>3 DEF Inv, TypeOK
<1>5. "idle" \notin Unsettled /\ place \notin Unsettled
  BY DEF Unsettled, Pending
<1>. QED BY <1>3, <1>4, <1>5, QuietStep

\* Where HaveAccount leads to.
LEMMA HaveAccountPlace ==
  ASSUME Inv, NEW h \in Handlers, NEW cash, HaveAccount(h, cash)
  PROVE  req'[h].pc \notin Unsettled /\ \A g \in Handlers \ {h} : req'[g] = req[g]
<1>1. DOMAIN req = Handlers
  BY DEF Inv, TypeOK
<1>2. CASE Done(h)
  <2>1. req'[h].pc = "idle" /\ \A g \in Handlers \ {h} : req'[g] = req[g]
    BY <1>2, DoneRequest DEF Idle
  <2>. QED BY <2>1 DEF Unsettled, Pending
<1>3. CASE ~Done(h)
  <2>1. PICK e \in SlippageEstimates : \E x \in Executions(req[h].order, cash, e) :
          req' = [req EXCEPT ![h] = [pc |-> "save", order |-> x, value |-> 0]]
    BY <1>3 DEF HaveAccount
  <2>2. PICK x : req' = [req EXCEPT ![h] = [pc |-> "save", order |-> x, value |-> 0]]
    BY <2>1
  <2>3. req'[h].pc = "save" /\ \A g \in Handlers \ {h} : req'[g] = req[g]
    BY <1>1, <2>2
  <2>. QED BY <2>3 DEF Unsettled, Pending
<1>. QED BY <1>2, <1>3

\* The account is read or initialized, or its balance is set.
LEMMA AccountQuiet ==
  ASSUME Inv, NEW h \in Handlers,
         ReadAccount(h) \/ Initialize(h) \/ InsertAccount(h) \/ SetBalance(h) \/ DeleteAccount(h)
  PROVE  Quiet
<1>1. req[h].pc \in {"account", "initialize", "insert", "balance", "reset account"}
      /\ UNCHANGED <<mode, orders, positions>>
  BY DEF ReadAccount, Initialize, InsertAccount, SetBalance, DeleteAccount, Awaits, At, mongo
<1>2. req[h].pc \notin Unsettled
  BY <1>1 DEF Unsettled, Pending
<1>3. "admin" \notin mode => UNCHANGED accounts
  <2>1. "admin" \notin mode => req[h].pc \notin AdminPlaces
    BY Serving DEF KeepsAccount
  <2>. QED BY <2>1 DEF AdminPlaces, ReadAccount, Initialize, InsertAccount, SetBalance,
                       DeleteAccount, Awaits, At, mongo
<1>4. req'[h].pc \notin Unsettled /\ \A g \in Handlers \ {h} : req'[g] = req[g]
  <2>1. CASE \E cash : HaveAccount(h, cash)
    BY <2>1, HaveAccountPlace
  <2>2. CASE \E p \in {"initialize", "insert"} : Goto(h, p)
    <3>1. PICK p \in {"initialize", "insert"} : Goto(h, p)
      BY <2>2
    <3>2. p \in Places /\ p \notin Unsettled
      BY DEF Places, Unsettled, Pending
    <3>. QED BY <3>1, <3>2, GotoRequest
  <2>3. CASE SetBalance(h)
    <3>1. req' = [req EXCEPT ![h] = [pc |-> "account", order |-> NoOrder, value |-> 0]]
      BY <2>3 DEF SetBalance
    <3>2. req'[h].pc = "account" /\ \A g \in Handlers \ {h} : req'[g] = req[g]
      BY <3>1 DEF Inv, TypeOK
    <3>. QED BY <3>2 DEF Unsettled, Pending
  <2>. QED BY <2>1, <2>2, <2>3 DEF ReadAccount, Initialize, InsertAccount, DeleteAccount
<1>. QED BY <1>1, <1>2, <1>3, <1>4, QuietStep

\* An answer, a failure or a restart.
LEMMA EndQuiet ==
  ASSUME Inv, Restart \/ \E h \in Handlers : ClosePosition(h) \/ Realize(h) \/ Raises(h)
  PROVE  Quiet
<1>1. ASSUME NEW h \in Handlers, ClosePosition(h) PROVE Quiet
  <2>1. req[h].pc = "close" /\ UNCHANGED <<mode, accounts, orders, positions>>
    BY <1>1 DEF ClosePosition, Awaits, At, mongo
  <2>2. req'[h].pc \in {"idle", "account"} /\ \A g \in Handlers \ {h} : req'[g] = req[g]
    <3>1. CASE Done(h)
      BY <3>1, DoneRequest DEF Idle
    <3>2. CASE ~Done(h)
      <4>1. PICK t, q : req' = [req EXCEPT ![h] =
              [pc |-> "account", value |-> 0, order |-> Order(t, req[h].order.symbol, "SELL", q)]]
        BY <1>1, <3>2 DEF ClosePosition, Inv, TypeOK
      <4>. QED BY <4>1 DEF Inv, TypeOK
    <3>. QED BY <3>1, <3>2
  <2>3. req[h].pc \notin Unsettled /\ req'[h].pc \notin Unsettled
    BY <2>1, <2>2 DEF Unsettled, Pending
  <2>. QED BY <2>1, <2>2, <2>3, QuietStep
<1>2. ASSUME NEW h \in Handlers, Realize(h) PROVE Quiet
  <2>. DEFINE d == [accounts[1] EXCEPT !.realized = @ + req[h].order.filled]
  <2>1. req[h].pc = "realize" /\ UNCHANGED <<mode, orders, positions>> /\ Done(h) /\ UpdateFirst(d)
    BY <1>2 DEF Realize, Awaits, At
  <2>2. req'[h].pc = "idle" /\ \A g \in Handlers \ {h} : req'[g] = req[g]
    BY <2>1, DoneRequest DEF Idle
  <2>3. req[h].pc \notin Unsettled /\ req'[h].pc \notin Unsettled
    BY <2>1, <2>2 DEF Unsettled, Pending
  <2>4. "admin" \notin mode => /\ accounts'[1].cash = accounts[1].cash
                               /\ accounts'[1].commission = accounts[1].commission
    <3>. SUFFICES ASSUME "admin" \notin mode
                  PROVE  /\ accounts'[1].cash = accounts[1].cash
                         /\ accounts'[1].commission = accounts[1].commission
      OBVIOUS
    <3>1. accounts \in Seq(AccountRecords) /\ accounts # <<>>
      <4>1. accounts \in Seq(AccountRecords) /\ Len(accounts) = 1
        BY Serving DEF MongoOK
      <4>. QED BY <4>1
    <3>2. accounts[1] \in AccountRecords
      BY <3>1
    <3>3. req[h].order.filled \in Nat
      BY <2>1, OrderServed DEF Booking
    <3>4. d \in AccountRecords /\ d.cash = accounts[1].cash /\ d.commission = accounts[1].commission
      BY <3>2, <3>3 DEF AccountRecords
    <3>5. accounts'[1] = d
      <4>. HIDE DEF d
      <4>. QED BY <2>1, <3>1, <3>4, UpdateFirstStep
    <3>. QED BY <3>4, <3>5
  <2>. QED BY <2>1, <2>2, <2>3, <2>4, QuietStep
<1>3. ASSUME NEW h \in Handlers, Raises(h) PROVE Quiet
  <2>1. "failure" \in mode /\ UNCHANGED <<mode, accounts, orders, positions>> /\ Done(h)
    BY <1>3 DEF Raises, mongo
  <2>2. req'[h].pc = "idle" /\ \A g \in Handlers \ {h} : req'[g] = req[g]
    BY <2>1, DoneRequest DEF Idle
  <2>3. req'[h].pc \notin Unsettled
    BY <2>2 DEF Unsettled, Pending
  <2>. QED BY <2>1, <2>2, <2>3, QuietStep
<1>4. CASE Restart
  <2>1. "failure" \in mode /\ UNCHANGED <<mode, positions, orders>>
    BY <1>4 DEF Restart
  <2>2. \A g \in Handlers : req'[g].pc = "idle"
    BY <1>4 DEF Restart, Idle
  <2>3. "idle" \notin Unsettled
    BY DEF Unsettled, Pending
  <2>4. "admin" \notin mode => UNCHANGED accounts
    <3>1. "admin" \notin mode => Len(accounts) = 1
      BY DEF Inv, AccountKept
    <3>2. accounts = <<>> => Len(accounts) = 0
      OBVIOUS
    <3>. QED BY <1>4, <3>1, <3>2 DEF Restart
  <2>. QED BY <2>1, <2>2, <2>3, <2>4 DEF Quiet, Bystander
<1>. QED BY <1>1, <1>2, <1>3, <1>4

\* The steps that book something or empty the books; all others are quiet.
PutPosition(h) == InsertPosition(h) \/ SetPosition(h) \/ DeletePosition(h)
Books(h) == SaveOrder(h) \/ UpdateBalance(h) \/ ReadPosition(h) \/ PutPosition(h)
Empties(h) == DeleteOrders(h) \/ DeletePositions(h)

\* A step leaves the books alone, books an order or empties them.
LEMMA StepKinds ==
  ASSUME Inv, [Next]_vars
  PROVE  /\ Quiet \/ \E h \in Handlers : Books(h) \/ Empties(h)
         /\ \A h \in Handlers : Empties(h) => "admin" \in mode
<1>1. Quiet \/ \E h \in Handlers : Books(h) \/ Empties(h)
  <2>1. CASE UNCHANGED vars
    BY <2>1 DEF vars, mongo, Quiet, Bystander
  <2>2. CASE Restart
    BY <2>2, EndQuiet
  <2>3. ASSUME NEW h \in Handlers, Request(h) \/ Handler(h) \/ Raises(h)
        PROVE  Quiet \/ Books(h) \/ Empties(h)
    BY <2>3, RequestQuiet, AccountQuiet, EndQuiet
       DEF Handler, PlaceOrder, Books, Empties, PutPosition
  <2>. QED BY <2>1, <2>2, <2>3 DEF Next
<1>2. ASSUME NEW h \in Handlers, Empties(h) PROVE "admin" \in mode
  <2>1. req[h].pc \in AdminPlaces
    BY <1>2 DEF Empties, DeleteOrders, DeletePositions, Awaits, At, AdminPlaces
  <2>. QED BY <2>1, Serving DEF KeepsAccount
<1>. QED BY <1>1, <1>2

\* What the steps on the books do.
LEMMA SaveFacts ==
  ASSUME Inv, NEW h \in Handlers, SaveOrder(h)
  PROVE  /\ req[h].pc = "save" /\ UNCHANGED <<mode, accounts, positions>>
         /\ req[h].order \in OrderRecords /\ req[h].order.symbol \in Symbols
         /\ \A g \in Handlers \ {h} : req'[g] = req[g]
         /\ \/ orders' = orders /\ req'[h].pc = "idle"
            \/ /\ orders' = Append(orders, req[h].order)
               /\ \A i \in 1..Len(orders) : orders[i].id # req[h].order.id
               /\ \/ Filled(req[h].order) /\ req'[h].pc = "cash" /\ req'[h].order = req[h].order
                  \/ ~Filled(req[h].order) /\ req'[h].pc = "idle"
<1>1. req[h].pc = "save" /\ UNCHANGED <<mode, accounts, positions>>
  BY DEF SaveOrder, Awaits, At
<1>2. req[h].order \in OrderRecords /\ req[h].order.symbol \in Symbols
  BY <1>1, OrderServed
<1>3. Done(h) => req'[h].pc = "idle" /\ \A g \in Handlers \ {h} : req'[g] = req[g]
  BY DoneRequest DEF Idle
<1>4. Goto(h, "cash") =>
        req'[h].pc = "cash" /\ req'[h].order = req[h].order /\ \A g \in Handlers \ {h} : req'[g] = req[g]
  BY GotoRequest DEF Places
<1>5. CASE \E i \in 1..Len(orders) : orders[i].id = req[h].order.id
  BY <1>1, <1>2, <1>3, <1>5 DEF SaveOrder
<1>6. CASE ~\E i \in 1..Len(orders) : orders[i].id = req[h].order.id
  BY <1>1, <1>2, <1>3, <1>4, <1>6 DEF SaveOrder
<1>. QED BY <1>5, <1>6

\* The order is charged once, and nothing else changes.
LEMMA ChargeFacts ==
  ASSUME Inv, NEW h \in Handlers, UpdateBalance(h)
  PROVE  /\ req[h].pc = "cash" /\ UNCHANGED <<mode, positions, orders>>
         /\ req[h].order \in OrderRecords /\ req[h].order.symbol \in Symbols /\ Filled(req[h].order)
         /\ req'[h].pc = "position" /\ req'[h].order = req[h].order
         /\ \A g \in Handlers \ {h} : req'[g] = req[g]
         /\ UpdateFirst(Charged(accounts[1], req[h].order))
<1>1. req[h].pc = "cash" /\ UNCHANGED <<mode, positions, orders>> /\ Goto(h, "position")
      /\ UpdateFirst(Charged(accounts[1], req[h].order))
  BY DEF UpdateBalance, Awaits, At
<1>2. req[h].order \in OrderRecords /\ req[h].order.symbol \in Symbols /\ Filled(req[h].order)
  BY <1>1, OrderServed DEF Booking
<1>3. req'[h].pc = "position" /\ req'[h].order = req[h].order /\ \A g \in Handlers \ {h} : req'[g] = req[g]
  BY <1>1, GotoRequest DEF Places
<1>. QED BY <1>1, <1>2, <1>3

\* What is going to be written follows from the position read.
LEMMA ReadFacts ==
  ASSUME Inv, NEW h \in Handlers, ReadPosition(h)
  PROVE  /\ req[h].pc = "position" /\ UNCHANGED <<mode, accounts, positions, orders>>
         /\ req[h].order \in OrderRecords /\ req[h].order.symbol \in Symbols
         /\ req[h].order.filled \in Nat \ {0} /\ Held(h) \in Positions
         /\ \A g \in Handlers \ {h} : req'[g] = req[g]
         /\ \/ req'[h].pc = "idle" /\ req[h].order.action = "SELL" /\ Held(h) = NoPosition
            \/ /\ req'[h].order = req[h].order
               /\ \/ /\ req'[h].pc = "insert position" /\ req[h].order.action = "BUY"
                     /\ Held(h) = NoPosition /\ req'[h].value = req[h].order.filled
                  \/ /\ req'[h].pc = "set position" /\ req[h].order.action = "BUY"
                     /\ Held(h) # NoPosition
                     /\ req'[h].value = Held(h).quantity + req[h].order.filled
                  \/ /\ req'[h].pc = "set position" /\ req[h].order.action = "SELL"
                     /\ Held(h) # NoPosition /\ Held(h).quantity > req[h].order.filled
                     /\ req'[h].value = Held(h).quantity - req[h].order.filled
                  \/ /\ req'[h].pc = "delete position" /\ req[h].order.action = "SELL"
                     /\ Held(h) # NoPosition /\ Held(h).quantity <= req[h].order.filled
<1>. DEFINE o == req[h].order
            R(place, q) == req' = [req EXCEPT ![h] = [pc |-> place, order |-> o, value |-> q]]
<1>1. req[h].pc = "position" /\ UNCHANGED <<mode, accounts, positions, orders>>
  BY DEF ReadPosition, Awaits, At, mongo
<1>2. o \in OrderRecords /\ o.symbol \in Symbols /\ o.filled \in Nat \ {0}
  <2>1. o \in OrderRecords /\ o.symbol \in Symbols /\ o.filled \in Nat /\ o.filled > 0
    BY <1>1, OrderServed DEF Booking
  <2>. QED BY <2>1
<1>3. Held(h) \in Positions /\ Held(h).quantity \in Nat
  <2>1. Held(h) \in Positions
    BY <1>2, Serving DEF Held, MongoOK
  <2>. QED BY <2>1 DEF Positions, NoPosition
<1>4. ASSUME NEW place, NEW q, R(place, q)
      PROVE  /\ req'[h].pc = place /\ req'[h].order = o /\ req'[h].value = q
             /\ \A g \in Handlers \ {h} : req'[g] = req[g]
  BY <1>4 DEF Inv, TypeOK
<1>5. CASE o.action = "BUY" /\ Held(h) = NoPosition /\ R("insert position", o.filled)
  BY <1>1, <1>2, <1>3, <1>4, <1>5
<1>6. CASE o.action = "BUY" /\ Held(h) # NoPosition /\ R("set position", Held(h).quantity + o.filled)
  BY <1>1, <1>2, <1>3, <1>4, <1>6
<1>7. CASE o.action = "SELL" /\ Held(h) = NoPosition /\ Done(h)
  BY <1>1, <1>2, <1>3, <1>7, DoneRequest DEF Idle
<1>8. CASE /\ o.action = "SELL" /\ Held(h) # NoPosition /\ Held(h).quantity - o.filled <= 0
           /\ R("delete position", 0)
  <2>1. Held(h).quantity <= o.filled
    <3>1. \A m, n \in Nat : m - n <= 0 => m <= n
      OBVIOUS
    <3>. QED BY <1>2, <1>3, <1>8, <3>1
  <2>. QED BY <1>1, <1>2, <1>3, <1>4, <1>8, <2>1
<1>9. CASE /\ o.action = "SELL" /\ Held(h) # NoPosition /\ ~(Held(h).quantity - o.filled <= 0)
           /\ R("set position", Held(h).quantity - o.filled)
  <2>1. Held(h).quantity > o.filled
    <3>1. \A m, n \in Nat : ~(m - n <= 0) => m > n
      OBVIOUS
    <3>. QED BY <1>2, <1>3, <1>9, <3>1
  <2>. QED BY <1>1, <1>2, <1>3, <1>4, <1>9, <2>1
<1>. QED BY <1>5, <1>6, <1>7, <1>8, <1>9 DEF ReadPosition

\* Writing a position ends the booking of its order.
LEMMA PutFacts ==
  ASSUME Inv, NEW h \in Handlers, PutPosition(h)
  PROVE  /\ req[h].pc \in {"insert position", "set position", "delete position"}
         /\ UNCHANGED <<mode, accounts, orders>> /\ req[h].order.symbol \in Symbols
         /\ req[h].order.filled \in Nat \ {0} /\ req[h].value \in Nat
         /\ req'[h].pc \in {"idle", "realize"} /\ \A g \in Handlers \ {h} : req'[g] = req[g]
<1>1. /\ req[h].pc \in {"insert position", "set position", "delete position"}
      /\ UNCHANGED <<mode, accounts, orders>>
  BY DEF PutPosition, InsertPosition, SetPosition, DeletePosition, Awaits, At
<1>2. Done(h) \/ Goto(h, "realize")
  BY DEF PutPosition, InsertPosition, SetPosition, DeletePosition, PositionWritten
<1>3. req'[h].pc \in {"idle", "realize"} /\ \A g \in Handlers \ {h} : req'[g] = req[g]
  <2>1. CASE Done(h)
    BY <2>1, DoneRequest DEF Idle
  <2>2. CASE Goto(h, "realize")
    BY <2>2, GotoRequest DEF Places
  <2>. QED BY <1>2, <2>1, <2>2
<1>4. /\ req[h].order.symbol \in Symbols /\ req[h].value \in Nat
      /\ req[h].order.filled \in Nat /\ req[h].order.filled > 0
  BY <1>1, OrderServed DEF Booking
<1>5. req[h].order.filled \in Nat \ {0}
  BY <1>4
<1>. QED BY <1>1, <1>3, <1>4, <1>5

\* Nobody takes an order to these places but by saving it.
LEMMA OrdersStay ==
  ASSUME OrdersInv, mode' = mode, orders' = orders,
         \A g \in Handlers : req'[g].pc \in Saved => req[g].pc \in Saved /\ req'[g].order = req[g].order
  PROVE  OrdersInv'
  BY DEF OrdersInv

\* An order that is saved is new, and its handler is the one that charges it.
LEMMA SaveKeepsOrders == ASSUME Inv, OrdersInv, NEW h \in Handlers, SaveOrder(h) PROVE OrdersInv'
<1>. DEFINE o == req[h].order
            n == Len(orders)
<1>1. /\ req[h].pc = "save" /\ mode' = mode /\ o \in OrderRecords
      /\ \A g \in Handlers \ {h} : req'[g] = req[g]
  BY SaveFacts
<1>2. CASE req'[h].pc = "idle" /\ orders' = orders
  <2>1. \A g \in Handlers : req'[g].pc \in Saved => req[g].pc \in Saved /\ req'[g].order = req[g].order
    BY <1>1, <1>2 DEF Saved
  <2>. QED BY <1>1, <1>2, <2>1, OrdersStay
<1>3. CASE /\ orders' = Append(orders, o) /\ \A i \in 1..n : orders[i].id # o.id
           /\ req'[h].pc \in {"cash", "idle"} /\ (req'[h].pc = "cash" => req'[h].order = o)
  <2>. SUFFICES ASSUME "admin" \notin mode PROVE OrdersInv'
    BY <1>1 DEF OrdersInv
  <2>1. orders \in Seq(OrderRecords) /\ n \in Nat
    BY Serving DEF MongoOK
  <2>2. Len(orders') = n + 1 /\ orders'[n + 1] = o /\ \A i \in 1..n : orders'[i] = orders[i]
    BY <1>1, <1>3, <2>1
  <2>3. Apart(orders')
    <3>1. SUFFICES ASSUME NEW i \in 1..(n + 1), NEW j \in 1..(n + 1), orders'[i].id = orders'[j].id
                   PROVE  i = j
      BY <2>2 DEF Apart
    <3>2. CASE i \in 1..n /\ j \in 1..n
      BY <2>2, <3>1, <3>2 DEF OrdersInv, Apart
    <3>3. CASE i \in 1..n /\ j = n + 1
      BY <1>3, <2>2, <3>1, <3>3
    <3>4. CASE i = n + 1 /\ j \in 1..n
      BY <1>3, <2>2, <3>1, <3>4
    <3>. QED BY <2>1, <3>2, <3>3, <3>4
  <2>4. ASSUME NEW g \in Handlers, req'[g].pc \in Saved
        PROVE  /\ \E i \in 1..Len(orders') : orders'[i] = req'[g].order
               /\ g # h => req[g].pc \in Saved /\ req'[g].order = req[g].order
                           /\ \E i \in 1..n : orders[i].id = req[g].order.id
    <3>1. CASE g = h
      <4>1. orders'[n + 1] = req'[g].order /\ n + 1 \in 1..Len(orders')
        BY <1>3, <2>1, <2>2, <2>4, <3>1 DEF Saved
      <4>. QED BY <3>1, <4>1
    <3>2. CASE g # h
      <4>1. req'[g] = req[g]
        BY <1>1, <3>2
      <4>2. PICK i \in 1..n : orders[i] = req[g].order
        BY <2>4, <4>1 DEF OrdersInv
      <4>3. i \in 1..Len(orders') /\ orders'[i] = req'[g].order
        BY <2>1, <2>2, <4>1, <4>2
      <4>. QED BY <2>4, <4>1, <4>2, <4>3
    <3>. QED BY <3>1, <3>2
  <2>5. ASSUME NEW f \in Handlers, NEW g \in Handlers, req'[f].pc \in Saved, req'[g].pc \in Saved,
               req'[f].order.id = req'[g].order.id
        PROVE  f = g
    <3>1. CASE f # h /\ g # h
      BY <2>4, <2>5, <3>1 DEF OrdersInv
    <3>2. CASE f = h /\ g # h
      <4>1. req'[f].order = o
        BY <1>3, <2>5, <3>2 DEF Saved
      <4>. QED BY <1>3, <2>4, <2>5, <3>2, <4>1
    <3>3. CASE f # h /\ g = h
      <4>1. req'[g].order = o
        BY <1>3, <2>5, <3>3 DEF Saved
      <4>. QED BY <1>3, <2>4, <2>5, <3>3, <4>1
    <3>. QED BY <3>1, <3>2, <3>3
  <2>. QED BY <2>3, <2>4, <2>5 DEF OrdersInv
<1>. QED BY <1>2, <1>3, SaveFacts

\* Orders stay told apart.
LEMMA OrdersStep == ASSUME Inv, OrdersInv, [Next]_vars PROVE OrdersInv'
<1>1. CASE Quiet
  <2>1. \A g \in Handlers : req'[g].pc \in Saved => req[g].pc \in Saved /\ req'[g].order = req[g].order
    BY <1>1 DEF Quiet, Bystander, Unsettled, Pending, Saved
  <2>. QED BY <1>1, <2>1, OrdersStay DEF Quiet
<1>2. ASSUME NEW h \in Handlers, UpdateBalance(h) PROVE OrdersInv'
  <2>1. \A g \in Handlers : req'[g].pc \in Saved => req[g].pc \in Saved /\ req'[g].order = req[g].order
    BY <1>2, ChargeFacts DEF Saved
  <2>. QED BY <1>2, <2>1, ChargeFacts, OrdersStay
<1>3. ASSUME NEW h \in Handlers, ReadPosition(h) PROVE OrdersInv'
  <2>1. req'[h].pc \notin Saved /\ \A g \in Handlers \ {h} : req'[g] = req[g]
    BY <1>3, ReadFacts DEF Saved
  <2>2. mode' = mode /\ orders' = orders
    BY <1>3, ReadFacts
  <2>. QED BY <2>1, <2>2, OrdersStay
<1>4. ASSUME NEW h \in Handlers, PutPosition(h) PROVE OrdersInv'
  <2>1. req'[h].pc \notin Saved /\ \A g \in Handlers \ {h} : req'[g] = req[g]
    BY <1>4, PutFacts DEF Saved
  <2>2. mode' = mode /\ orders' = orders
    BY <1>4, PutFacts
  <2>. QED BY <2>1, <2>2, OrdersStay
<1>5. ASSUME NEW h \in Handlers, Empties(h) PROVE OrdersInv'
  <2>1. "admin" \in mode /\ mode' = mode
    BY <1>5, StepKinds DEF Empties, DeleteOrders, DeletePositions, Awaits
  <2>. QED BY <2>1 DEF OrdersInv
<1>. QED BY <1>1, <1>2, <1>3, <1>4, <1>5, StepKinds, SaveKeepsOrders DEF Books

\* How the ids at some places change with the requests.
LEMMA IdsSame ==
  ASSUME NEW r, NEW t, NEW places,
         \A g \in Handlers : r[g] = t[g] \/ (r[g].pc \notin places /\ t[g].pc \notin places)
  PROVE  IdsAt(t, places) = IdsAt(r, places)
<1>. DEFINE in(q) == {f \in Handlers : q[f].pc \in places}
<1>1. in(t) = in(r) /\ \A g \in in(r) : t[g] = r[g]
  OBVIOUS
<1>2. IdsAt(t, places) = {t[g].order.id : g \in in(t)} /\ IdsAt(r, places) = {r[g].order.id : g \in in(r)}
  BY DEF IdsAt
<1>. HIDE DEF in
<1>. QED BY <1>1, <1>2

\* A handler that gets there adds the id of its order.
LEMMA IdsEnter ==
  ASSUME NEW r, NEW t, NEW places, NEW h \in Handlers, \A g \in Handlers \ {h} : t[g] = r[g],
         r[h].pc \notin places, t[h].pc \in places
  PROVE  IdsAt(t, places) = IdsAt(r, places) \cup {t[h].order.id}
  BY DEF IdsAt

\* A handler that leaves takes the id of its order along.
LEMMA IdsLeave ==
  ASSUME NEW r, NEW t, NEW places, NEW h \in Handlers, \A g \in Handlers \ {h} : t[g] = r[g],
         r[h].pc \in places, t[h].pc \notin places,
         \A g \in Handlers : r[g].pc \in places /\ r[g].order.id = r[h].order.id => g = h
  PROVE  IdsAt(t, places) = IdsAt(r, places) \ {r[h].order.id}
  BY DEF IdsAt

\* An order that is saved is not counted before it is booked; one that is not filled is
\* counted at once.
LEMMA CountAfterSave ==
  ASSUME Inv, NEW h \in Handlers, SaveOrder(h), NEW V \in [OrderRecords -> Int],
         NEW places \in {{"cash"}, Saved}
  PROVE  \E x \in {0, V[req[h].order]} :
           /\ Total(Counted(orders', V, IdsAt(req', places)))
                = Total(Counted(orders, V, IdsAt(req, places))) + x
           /\ Filled(req[h].order) => x = 0
<1>. DEFINE o == req[h].order
            c == Total(Counted(orders, V, IdsAt(req, places)))
            d == Total(Counted(orders', V, IdsAt(req', places)))
<1>1. /\ req[h].pc = "save" /\ o \in OrderRecords /\ \A g \in Handlers \ {h} : req'[g] = req[g]
      /\ "save" \notin places /\ "idle" \notin places /\ "cash" \in places
  BY SaveFacts DEF Saved
<1>2. orders \in Seq(OrderRecords)
  BY Serving DEF MongoOK
<1>3. c \in Int /\ V[o] \in Int
  <2>1. V[o] \in Int
    BY <1>1
  <2>. QED BY <1>2, <2>1, CountedTyped, TotalIsInt
<1>4. ASSUME req'[h].pc = "idle" PROVE IdsAt(req', places) = IdsAt(req, places)
  <2>1. \A g \in Handlers : req[g] = req'[g] \/ (req[g].pc \notin places /\ req'[g].pc \notin places)
    <3>1. req[h].pc \notin places /\ req'[h].pc \notin places
      BY <1>1, <1>4
    <3>2. \A g \in Handlers : g = h \/ req'[g] = req[g]
      BY <1>1
    <3>. QED BY <3>1, <3>2
  <2>. QED BY <2>1, IdsSame
<1>5. CASE orders' = orders /\ req'[h].pc = "idle"
  <2>1. d = c
    BY <1>4, <1>5
  <2>2. d = c + 0
    BY <1>3, <2>1
  <2>. QED BY <2>2
<1>6. CASE orders' = Append(orders, o) /\ ~Filled(o) /\ req'[h].pc = "idle"
  <2>. DEFINE x == IF o.id \in IdsAt(req, places) THEN 0 ELSE V[o]
  <2>1. d = c + x
    BY <1>1, <1>2, <1>4, <1>6, CountedAppend
  <2>. QED BY <1>6, <2>1
<1>7. CASE /\ orders' = Append(orders, o) /\ \A i \in 1..Len(orders) : orders[i].id # o.id
           /\ req'[h].pc = "cash" /\ req'[h].order = o
  <2>. DEFINE ids == IdsAt(req, places) \cup {o.id}
  <2>1. IdsAt(req', places) = ids
    <3>1. req[h].pc \notin places /\ req'[h].pc \in places /\ req'[h].order.id = o.id
      BY <1>1, <1>7
    <3>2. \A g \in Handlers \ {h} : req'[g] = req[g]
      BY <1>1
    <3>3. IdsAt(req', places) = IdsAt(req, places) \cup {req'[h].order.id}
      BY <3>1, <3>2, IdsEnter
    <3>. QED BY <3>1, <3>3
  <2>2. Total(Counted(Append(orders, o), V, ids)) = Total(Counted(orders, V, ids)) + 0
    <3>1. o.id \in ids
      OBVIOUS
    <3>. HIDE DEF ids
    <3>2. Total(Counted(Append(orders, o), V, ids))
            = Total(Counted(orders, V, ids)) + (IF o.id \in ids THEN 0 ELSE V[o])
      BY <1>1, <1>2, CountedAppend
    <3>. QED BY <3>1, <3>2
  <2>3. Counted(orders, V, ids) = Counted(orders, V, IdsAt(req, places))
    <3>1. \A i \in 1..Len(orders) : orders[i].id \in IdsAt(req, places) <=> orders[i].id \in ids
      BY <1>7
    <3>. HIDE DEF ids
    <3>. QED BY <1>2, <3>1, CountedSame
  <2>4. d = c + 0
    BY <1>7, <2>1, <2>2, <2>3
  <2>. QED BY <2>4
<1>. QED BY <1>5, <1>6, <1>7, SaveFacts

\* An order that leaves the places is counted from then on.
LEMMA CountAfterBooking ==
  ASSUME Inv, OrdersInv, "admin" \notin mode, NEW h \in Handlers, orders' = orders,
         NEW V \in [OrderRecords -> Int], NEW places \in {{"cash"}, Saved},
         \A g \in Handlers \ {h} : req'[g] = req[g], req[h].pc \in places, req'[h].pc \notin places
  PROVE  Total(Counted(orders', V, IdsAt(req', places)))
           = Total(Counted(orders, V, IdsAt(req, places))) + V[req[h].order]
<1>1. orders \in Seq(OrderRecords)
  BY Serving DEF MongoOK
<1>2. req[h].pc \in Saved /\ \A g \in Handlers : req[g].pc \in places => req[g].pc \in Saved
  BY DEF Saved
<1>3. PICK k \in 1..Len(orders) : orders[k] = req[h].order
  BY <1>2 DEF OrdersInv
<1>4. IdsAt(req', places) = IdsAt(req, places) \ {orders[k].id}
  <2>1. \A g \in Handlers : req[g].pc \in places /\ req[g].order.id = req[h].order.id => g = h
    BY <1>2 DEF OrdersInv
  <2>2. \A g \in Handlers \ {h} : req'[g] = req[g]
    OBVIOUS
  <2>3. IdsAt(req', places) = IdsAt(req, places) \ {req[h].order.id}
    BY <2>1, <2>2 DEF IdsAt
  <2>. QED BY <1>3, <2>3
<1>5. orders[k].id \in IdsAt(req, places)
  BY <1>3 DEF IdsAt
<1>6. Apart(orders)
  BY DEF OrdersInv
<1>7. Total(Counted(orders, V, IdsAt(req, places) \ {orders[k].id}))
        = Total(Counted(orders, V, IdsAt(req, places))) + V[orders[k]]
  <2>. DEFINE ids == IdsAt(req, places)
  <2>1. orders[k].id \in ids
    BY <1>5
  <2>. HIDE PaperAssumption DEF ids
  <2>2. Total(Counted(orders, V, ids \ {orders[k].id})) = Total(Counted(orders, V, ids)) + V[orders[k]]
    BY <1>1, <1>6, <2>1, CountedRelease
  <2>. QED BY <2>2 DEF ids
<1>. QED BY <1>3, <1>4, <1>7

-----------------------------------------------------------------------------
(* Cash and commission.                                                    *)

CashOf == [o \in OrderRecords |-> IF Filled(o) THEN Delta(o) ELSE 0]
CommissionOf == [o \in OrderRecords |-> IF Filled(o) THEN o.commission ELSE 0]

\* What an order changes is a number.
LEMMA CashTyped ==
  /\ CashOf \in [OrderRecords -> Int] /\ CommissionOf \in [OrderRecords -> Int]
  /\ \A o \in OrderRecords :
       /\ Filled(o) => CashOf[o] = Delta(o) /\ CommissionOf[o] = o.commission
       /\ ~Filled(o) => CashOf[o] = 0 /\ CommissionOf[o] = 0
<1>1. \A o \in OrderRecords : Delta(o) \in Int /\ o.commission \in Int
  BY CostType DEF OrderRecords
<1>. QED BY <1>1 DEF CashOf, CommissionOf

\* The first account has the cash and the commission of the orders that were charged.
ChargedSum(V, q, r) == Total(Counted(q, V, IdsAt(r, {"cash"})))
CashInv ==
  mode \cap {"admin", "failure"} = {} =>
    /\ accounts[1].cash = InitialBalance + ChargedSum(CashOf, orders, req)
    /\ accounts[1].commission = ChargedSum(CommissionOf, orders, req)

\* Nothing is charged.
LEMMA CashStays ==
  ASSUME CashInv, mode' = mode, orders' = orders, accounts'[1].cash = accounts[1].cash,
         accounts'[1].commission = accounts[1].commission,
         \A g \in Handlers : req[g] = req'[g] \/ (req[g].pc # "cash" /\ req'[g].pc # "cash")
  PROVE  CashInv'
<1>1. IdsAt(req', {"cash"}) = IdsAt(req, {"cash"})
  <2>1. \A g \in Handlers : req[g] = req'[g] \/ (req[g].pc \notin {"cash"} /\ req'[g].pc \notin {"cash"})
    OBVIOUS
  <2>. QED BY <2>1, IdsSame
<1>2. \A V : ChargedSum(V, orders', req') = ChargedSum(V, orders, req)
  BY <1>1 DEF ChargedSum
<1>. QED BY <1>2 DEF CashInv

\* A filled order that is saved is not charged yet, one that is not filled never is.
LEMMA SaveKeepsCash == ASSUME Inv, CashInv, NEW h \in Handlers, SaveOrder(h) PROVE CashInv'
<1>. DEFINE o == req[h].order
<1>1. mode' = mode /\ accounts' = accounts /\ o \in OrderRecords
  BY SaveFacts
<1>2. ASSUME NEW V \in [OrderRecords -> Int], ~Filled(o) => V[o] = 0
      PROVE ChargedSum(V, orders', req') = ChargedSum(V, orders, req)
  <2>1. PICK x \in {0, V[o]} :
          /\ Total(Counted(orders', V, IdsAt(req', {"cash"})))
               = Total(Counted(orders, V, IdsAt(req, {"cash"}))) + x
          /\ Filled(o) => x = 0
    BY CountAfterSave
  <2>2. x = 0
    BY <1>2, <2>1
  <2>3. Total(Counted(orders, V, IdsAt(req, {"cash"}))) \in Int
    BY Serving, CountedTyped, TotalIsInt DEF MongoOK
  <2>. QED BY <2>1, <2>2, <2>3 DEF ChargedSum
<1>3. /\ ChargedSum(CashOf, orders', req') = ChargedSum(CashOf, orders, req)
      /\ ChargedSum(CommissionOf, orders', req') = ChargedSum(CommissionOf, orders, req)
  BY <1>1, <1>2, CashTyped
<1>. QED BY <1>1, <1>3 DEF CashInv

\* A filled order is charged.
LEMMA ChargeKeepsCash ==
  ASSUME Inv, OrdersInv, CashInv, NEW h \in Handlers, UpdateBalance(h) PROVE CashInv'
<1>. DEFINE o == req[h].order
<1>. SUFFICES ASSUME mode' \cap {"admin", "failure"} = {}
              PROVE  /\ accounts'[1].cash = InitialBalance + ChargedSum(CashOf, orders', req')
                     /\ accounts'[1].commission = ChargedSum(CommissionOf, orders', req')
  BY DEF CashInv
<1>1. /\ req[h].pc = "cash" /\ UNCHANGED <<mode, positions, orders>>
      /\ o \in OrderRecords /\ Filled(o) /\ req'[h].pc = "position"
      /\ \A g \in Handlers \ {h} : req'[g] = req[g] /\ UpdateFirst(Charged(accounts[1], o))
  BY ChargeFacts
<1>2. "admin" \notin mode /\ accounts \in Seq(AccountRecords) /\ Len(accounts) = 1
  <2>1. "admin" \notin mode
    BY <1>1
  <2>. QED BY <2>1, Serving DEF MongoOK
<1>3. accounts[1] \in AccountRecords /\ accounts # <<>>
  BY <1>2
<1>4. /\ accounts'[1].cash = accounts[1].cash + Delta(o)
      /\ accounts'[1].commission = accounts[1].commission + o.commission
  <2>. DEFINE d == Charged(accounts[1], o)
  <2>1. d \in AccountRecords
    BY <1>1, <1>3, ChargeType
  <2>2. d.cash = accounts[1].cash + Delta(o) /\ d.commission = accounts[1].commission + o.commission
    BY DEF Charged
  <2>3. UpdateFirst(d)
    BY ChargeFacts
  <2>. HIDE DEF d
  <2>4. accounts'[1] = d
    BY <1>2, <1>3, <2>1, <2>3, UpdateFirstStep
  <2>. QED BY <2>2, <2>4
<1>5. ASSUME NEW V \in [OrderRecords -> Int]
      PROVE  ChargedSum(V, orders', req') = ChargedSum(V, orders, req) + V[o]
             /\ ChargedSum(V, orders, req) \in Int
  <2>1. Total(Counted(orders', V, IdsAt(req', {"cash"})))
          = Total(Counted(orders, V, IdsAt(req, {"cash"}))) + V[o]
    <3>1. req[h].pc \in {"cash"} /\ req'[h].pc \notin {"cash"} /\ orders' = orders
      BY <1>1
    <3>2. \A g \in Handlers \ {h} : req'[g] = req[g]
      BY ChargeFacts
    <3>. QED BY <1>2, <3>1, <3>2, CountAfterBooking
  <2>2. Total(Counted(orders, V, IdsAt(req, {"cash"}))) \in Int
    BY Serving, CountedTyped, TotalIsInt DEF MongoOK
  <2>. QED BY <2>1, <2>2 DEF ChargedSum
<1>6. /\ ChargedSum(CashOf, orders', req') = ChargedSum(CashOf, orders, req) + Delta(o)
      /\ ChargedSum(CommissionOf, orders', req') = ChargedSum(CommissionOf, orders, req) + o.commission
      /\ ChargedSum(CashOf, orders, req) \in Int /\ ChargedSum(CommissionOf, orders, req) \in Int
  BY <1>1, <1>5, CashTyped
<1>7. /\ accounts[1].cash = InitialBalance + ChargedSum(CashOf, orders, req)
      /\ accounts[1].commission = ChargedSum(CommissionOf, orders, req)
  BY <1>1 DEF CashInv
<1>8. Delta(o) \in Int /\ o.commission \in Int
  BY <1>1, CostType DEF OrderRecords
<1>9. \A b, s, x \in Int : (b + s) + x = b + (s + x)
  OBVIOUS
<1>10. accounts'[1].cash = InitialBalance + ChargedSum(CashOf, orders', req')
  BY <1>4, <1>6, <1>7, <1>8, <1>9
<1>. QED BY <1>4, <1>6, <1>7, <1>10

\* The account goes on following the orders.
LEMMA CashStep == ASSUME Inv, OrdersInv, CashInv, [Next]_vars PROVE CashInv'
<1>1. CASE Quiet
  <2>. SUFFICES ASSUME mode \cap {"admin", "failure"} = {} PROVE CashInv'
    BY <1>1 DEF Quiet, CashInv
  <2>1. \A g \in Handlers : req[g] = req'[g] \/ (req[g].pc # "cash" /\ req'[g].pc # "cash")
    BY <1>1 DEF Quiet, Bystander, Unsettled, Pending
  <2>2. mode' = mode /\ orders' = orders /\ accounts'[1].cash = accounts[1].cash
        /\ accounts'[1].commission = accounts[1].commission
    BY <1>1 DEF Quiet
  <2>. QED BY <2>1, <2>2, CashStays
<1>2. ASSUME NEW h \in Handlers, ReadPosition(h) PROVE CashInv'
  <2>1. req[h].pc # "cash" /\ req'[h].pc # "cash" /\ \A g \in Handlers \ {h} : req'[g] = req[g]
    BY <1>2, ReadFacts
  <2>2. mode' = mode /\ orders' = orders /\ accounts' = accounts
    BY <1>2, ReadFacts
  <2>. QED BY <2>1, <2>2, CashStays
<1>3. ASSUME NEW h \in Handlers, PutPosition(h) PROVE CashInv'
  <2>1. req[h].pc # "cash" /\ req'[h].pc # "cash" /\ \A g \in Handlers \ {h} : req'[g] = req[g]
    BY <1>3, PutFacts
  <2>2. mode' = mode /\ orders' = orders /\ accounts' = accounts
    BY <1>3, PutFacts
  <2>. QED BY <2>1, <2>2, CashStays
<1>4. ASSUME NEW h \in Handlers, Empties(h) PROVE CashInv'
  <2>1. "admin" \in mode /\ mode' = mode
    BY <1>4, StepKinds DEF Empties, DeleteOrders, DeletePositions, Awaits
  <2>. QED BY <2>1 DEF CashInv
<1>. QED BY <1>1, <1>2, <1>3, <1>4, StepKinds, SaveKeepsCash, ChargeKeepsCash DEF Books

\* What CashFollowsOrders says is what the invariant says.
LEMMA CashFollows == Inv /\ CashInv => CashFollowsOrders
<1>. SUFFICES ASSUME Inv, CashInv, mode \cap {"admin", "failure"} = {} PROVE CashFollowsOrders
  BY DEF CashFollowsOrders
<1>. DEFINE changes == [i \in DOMAIN orders |-> IF Booked(orders[i]) THEN Delta(orders[i]) ELSE 0]
            charged == [i \in DOMAIN orders |-> IF Booked(orders[i]) THEN orders[i].commission ELSE 0]
            ids == IdsAt(req, {"cash"})
<1>1. DOMAIN orders = 1..Len(orders) /\ \A i \in 1..Len(orders) : orders[i] \in OrderRecords
  BY DEF Inv, TypeOK
<1>2. \A o : Booked(o) <=> Filled(o) /\ o.id \notin ids
  BY DEF Booked, Uncharged, IdsAt, At
<1>3. \A i \in 1..Len(orders) :
        /\ (IF Booked(orders[i]) THEN Delta(orders[i]) ELSE 0)
             = (IF orders[i].id \in ids THEN 0 ELSE CashOf[orders[i]])
        /\ (IF Booked(orders[i]) THEN orders[i].commission ELSE 0)
             = (IF orders[i].id \in ids THEN 0 ELSE CommissionOf[orders[i]])
  BY <1>1, <1>2, CashTyped
<1>4. changes = Counted(orders, CashOf, ids) /\ charged = Counted(orders, CommissionOf, ids)
  BY <1>1, <1>3 DEF Counted
<1>5. accounts[1].cash = InitialBalance + Total(changes) /\ accounts[1].commission = Total(charged)
  BY <1>4 DEF CashInv, ChargedSum
<1>. QED BY <1>5 DEF CashFollowsOrders

-----------------------------------------------------------------------------
(* No shares are made up: a position is at most what was bought by the     *)
(* orders that have been read for it, and so is what is about to be        *)
(* written.                                                                *)

SharesOf(s) == [o \in OrderRecords |-> IF o.symbol = s /\ o.action = "BUY" THEN o.filled ELSE 0]
SharesRead(s, q, r) == Total(Counted(q, SharesOf(s), IdsAt(r, Saved)))

\* The shares an order buys are a number.
LEMMA SharesTyped ==
  ASSUME NEW s
  PROVE  /\ SharesOf(s) \in [OrderRecords -> Nat] /\ SharesOf(s) \in [OrderRecords -> Int]
         /\ \A o \in OrderRecords :
              /\ SharesOf(s)[o] \in Nat
              /\ o.symbol = s /\ o.action = "BUY" => SharesOf(s)[o] = o.filled
<1>1. \A o \in OrderRecords : o.filled \in Nat
  BY DEF OrderRecords
<1>. QED BY <1>1 DEF SharesOf

\* So is the sum of them.
LEMMA SharesReadTyped ==
  ASSUME NEW q \in Seq(OrderRecords), NEW r, NEW s PROVE SharesRead(s, q, r) \in Int
  BY SharesTyped, CountedTyped, TotalIsInt DEF SharesRead

\* The numbers of a position and of a request.
LEMMA PositionNumbers == \A p \in Positions : p.quantity \in Nat /\ p.realized \in Nat
  BY DEF Positions, NoPosition

\* So is what a handler is about to write.
LEMMA ValueNumber == ASSUME Inv, NEW h \in Handlers PROVE req[h].value \in Nat
<1>1. RequestOK(req[h])
  BY DEF Inv, TypeOK
<1>. QED BY <1>1 DEF RequestOK

\* What was read does not become less.
SharesGrown == \A s : SharesRead(s, orders, req) <= SharesRead(s, orders', req')

\* At most what is at most.
LEMMA AtMostTrans == \A m \in Nat, n, k \in Int : m <= n /\ n <= k => m <= k
  OBVIOUS

HeldInv ==
  "admin" \notin mode =>
    /\ \A s \in Symbols : positions[s].quantity <= SharesRead(s, orders, req)
    /\ \A h \in Handlers : req[h].pc \in {"insert position", "set position"} =>
         req[h].value <= SharesRead(req[h].order.symbol, orders, req)

\* The orders that were read become more.
LEMMA SharesGrow ==
  ASSUME Inv, NEW s, orders' = orders,
         \A g \in Handlers : req'[g].pc \in Saved => req[g].pc \in Saved /\ req'[g].order = req[g].order
  PROVE  SharesRead(s, orders, req) <= SharesRead(s, orders', req')
<1>1. IdsAt(req', Saved) \subseteq IdsAt(req, Saved)
  BY DEF IdsAt
<1>2. orders \in Seq(OrderRecords)
  BY DEF Inv, TypeOK
<1>3. Total(Counted(orders, SharesOf(s), IdsAt(req, Saved)))
        <= Total(Counted(orders, SharesOf(s), IdsAt(req', Saved)))
  <2>1. \A i \in 1..Len(orders) : orders[i].id \in IdsAt(req', Saved) => orders[i].id \in IdsAt(req, Saved)
    BY <1>1
  <2>. QED BY <1>2, <2>1, SharesTyped, CountedMore
<1>. QED BY <1>3 DEF SharesRead

\* An order that is saved is not read yet.
LEMMA SharesGrowBySaving ==
  ASSUME Inv, NEW s, NEW h \in Handlers, SaveOrder(h)
  PROVE  SharesRead(s, orders, req) <= SharesRead(s, orders', req')
<1>0. orders \in Seq(OrderRecords)
  BY DEF Inv, TypeOK
<1>1. PICK x \in {0, SharesOf(s)[req[h].order]} :
        Total(Counted(orders', SharesOf(s), IdsAt(req', Saved)))
          = Total(Counted(orders, SharesOf(s), IdsAt(req, Saved))) + x
  BY CountAfterSave, SharesTyped
<1>2. SharesOf(s)[req[h].order] \in Nat
  BY SaveFacts, SharesTyped
<1>3. SharesRead(s, orders', req') = SharesRead(s, orders, req) + x
  BY <1>1 DEF SharesRead
<1>. QED BY <1>0, <1>1, <1>2, <1>3, SharesReadTyped

\* Positions stay, and so does what is to be written.
LEMMA HeldStays ==
  ASSUME Inv, Inv', HeldInv, mode' = mode, positions' = positions,
         SharesGrown,
         \A g \in Handlers :
           req'[g].pc \in {"insert position", "set position"} => req'[g] = req[g]
  PROVE  HeldInv'
<1>. SUFFICES ASSUME "admin" \notin mode
              PROVE  /\ \A s \in Symbols : positions'[s].quantity <= SharesRead(s, orders', req')
                     /\ \A h \in Handlers : req'[h].pc \in {"insert position", "set position"} =>
                          req'[h].value <= SharesRead(req'[h].order.symbol, orders', req')
  BY DEF HeldInv
<1>1. \A s : SharesRead(s, orders, req) \in Int /\ SharesRead(s, orders', req') \in Int
  <2>1. orders \in Seq(OrderRecords) /\ orders' \in Seq(OrderRecords)
    BY DEF Inv, TypeOK
  <2>. QED BY <2>1, SharesReadTyped
<1>2. ASSUME NEW s \in Symbols PROVE positions'[s].quantity <= SharesRead(s, orders', req')
  <2>1. positions[s] \in Positions
    BY DEF Inv, TypeOK
  <2>2. positions[s].quantity \in Nat
    BY <2>1, PositionNumbers
  <2>3. positions[s].quantity <= SharesRead(s, orders, req)
    BY DEF HeldInv
  <2>4. SharesRead(s, orders, req) <= SharesRead(s, orders', req')
    BY DEF SharesGrown
  <2>5. positions[s].quantity <= SharesRead(s, orders', req')
    BY <1>1, <2>2, <2>3, <2>4, AtMostTrans
  <2>. QED BY <2>5
<1>3. ASSUME NEW h \in Handlers, req'[h].pc \in {"insert position", "set position"}
      PROVE  req'[h].value <= SharesRead(req'[h].order.symbol, orders', req')
  <2>1. req'[h] = req[h]
    BY <1>3
  <2>2. req[h].value \in Nat
    BY ValueNumber
  <2>3. req[h].value <= SharesRead(req[h].order.symbol, orders, req)
    BY <1>3, <2>1 DEF HeldInv
  <2>4. SharesRead(req[h].order.symbol, orders, req) <= SharesRead(req[h].order.symbol, orders', req')
    BY DEF SharesGrown
  <2>5. req[h].value <= SharesRead(req[h].order.symbol, orders', req')
    BY <1>1, <2>2, <2>3, <2>4, AtMostTrans
  <2>. QED BY <2>1, <2>5
<1>. QED BY <1>2, <1>3

\* The handler that reads a position knows how much it is going to be.
LEMMA ReadKeepsHeld ==
  ASSUME Inv, Inv', OrdersInv, HeldInv, NEW h \in Handlers, ReadPosition(h) PROVE HeldInv'
<1>. DEFINE o == req[h].order
            s == o.symbol
<1>. SUFFICES ASSUME "admin" \notin mode PROVE HeldInv'
  BY ReadFacts DEF HeldInv
<1>1. /\ req[h].pc = "position" /\ mode' = mode /\ positions' = positions /\ orders' = orders
      /\ o \in OrderRecords /\ s \in Symbols /\ o.filled \in Nat /\ Held(h) \in Positions
      /\ req'[h].pc \notin Saved
  BY ReadFacts DEF Saved
<1>2. \A g \in Handlers \ {h} : req'[g] = req[g]
  BY ReadFacts
<1>3. SharesGrown
  <2>1. \A g \in Handlers : req'[g].pc \in Saved => req[g].pc \in Saved /\ req'[g].order = req[g].order
    BY <1>1, <1>2
  <2>. QED BY <1>1, <2>1, SharesGrow DEF SharesGrown
<1>4. /\ SharesRead(s, orders, req) \in Int /\ SharesRead(s, orders', req') \in Int
      /\ SharesRead(s, orders, req) <= SharesRead(s, orders', req')
  <2>1. orders \in Seq(OrderRecords) /\ orders' \in Seq(OrderRecords)
    BY DEF Inv, TypeOK
  <2>. QED BY <1>3, <2>1, SharesReadTyped DEF SharesGrown
<1>5. o.action = "BUY" => SharesRead(s, orders', req') = SharesRead(s, orders, req) + o.filled
  <2>1. Total(Counted(orders', SharesOf(s), IdsAt(req', Saved)))
          = Total(Counted(orders, SharesOf(s), IdsAt(req, Saved))) + SharesOf(s)[o]
    <3>1. req[h].pc \in Saved
      BY <1>1 DEF Saved
    <3>. QED BY <1>1, <1>2, <3>1, SharesTyped, CountAfterBooking
  <2>. QED BY <1>1, <2>1, SharesTyped DEF SharesRead
<1>6. Held(h).quantity \in Nat /\ Held(h).quantity <= SharesRead(s, orders, req)
  <2>1. Held(h) = positions[s]
    BY DEF Held
  <2>2. positions[s].quantity <= SharesRead(s, orders, req)
    BY <1>1 DEF HeldInv
  <2>. QED BY <1>1, <2>1, <2>2, PositionNumbers
<1>7. ASSUME req'[h].pc \in {"insert position", "set position"}
      PROVE  /\ req'[h].order = o
             /\ \/ o.action = "BUY" /\ Held(h) = NoPosition /\ req'[h].value = o.filled
                \/ o.action = "BUY" /\ req'[h].value = Held(h).quantity + o.filled
                \/ req'[h].value = Held(h).quantity - o.filled
  <2>1. req'[h].pc \notin {"idle", "delete position"}
    BY <1>7
  <2>. QED BY <2>1, ReadFacts
<1>8. req'[h].pc \in {"insert position", "set position"} =>
        /\ req'[h].order = o
        /\ req'[h].value <= SharesRead(s, orders', req')
  <2>1. \A q, f \in Nat, m, n \in Int : q <= m /\ m <= n =>
          (q - f <= n) /\ (n = m + f => q + f <= n) /\ (n = m + f /\ q = 0 => f <= n)
    OBVIOUS
  <2>. DEFINE q == Held(h).quantity
              f == o.filled
              m == SharesRead(s, orders, req)
              n == SharesRead(s, orders', req')
  <2>2. /\ q \in Nat /\ f \in Nat /\ m \in Int /\ n \in Int /\ q <= m /\ m <= n
        /\ o.action = "BUY" => n = m + f
        /\ Held(h) = NoPosition => q = 0
    BY <1>1, <1>4, <1>5, <1>6 DEF NoPosition
  <2>3. /\ q - f <= n /\ (o.action = "BUY" => q + f <= n)
        /\ o.action = "BUY" /\ Held(h) = NoPosition => f <= n
    <3>. HIDE DEF q, f, m, n
    <3>. QED BY <2>1, <2>2
  <2>. QED BY <1>7, <2>3
<1>9. \A t \in Symbols : positions'[t].quantity <= SharesRead(t, orders', req')
  <2>1. SUFFICES ASSUME NEW t \in Symbols PROVE positions'[t].quantity <= SharesRead(t, orders', req')
    OBVIOUS
  <2>2. positions[t].quantity \in Nat /\ positions[t].quantity <= SharesRead(t, orders, req)
    BY PositionNumbers DEF HeldInv, Inv, TypeOK
  <2>3. SharesRead(t, orders, req) \in Int /\ SharesRead(t, orders', req') \in Int
    <3>1. orders \in Seq(OrderRecords) /\ orders' \in Seq(OrderRecords)
      BY DEF Inv, TypeOK
    <3>. QED BY <3>1, SharesReadTyped
  <2>4. SharesRead(t, orders, req) <= SharesRead(t, orders', req')
    BY <1>3 DEF SharesGrown
  <2>5. positions[t].quantity <= SharesRead(t, orders', req')
    BY <2>2, <2>3, <2>4, AtMostTrans
  <2>. QED BY <1>1, <2>5
<1>10. ASSUME NEW g \in Handlers \ {h}, req'[g].pc \in {"insert position", "set position"}
       PROVE  req'[g].value <= SharesRead(req'[g].order.symbol, orders', req')
  <2>1. req'[g] = req[g]
    BY <1>2
  <2>2. req[g].value \in Nat /\ req[g].value <= SharesRead(req[g].order.symbol, orders, req)
    BY <1>10, <2>1, ValueNumber DEF HeldInv
  <2>3. \A t : SharesRead(t, orders, req) \in Int /\ SharesRead(t, orders', req') \in Int
    <3>1. orders \in Seq(OrderRecords) /\ orders' \in Seq(OrderRecords)
      BY DEF Inv, TypeOK
    <3>. QED BY <3>1, SharesReadTyped
  <2>4. SharesRead(req[g].order.symbol, orders, req) <= SharesRead(req[g].order.symbol, orders', req')
    BY <1>3 DEF SharesGrown
  <2>5. req[g].value <= SharesRead(req[g].order.symbol, orders', req')
    BY <2>2, <2>3, <2>4, AtMostTrans
  <2>. QED BY <2>1, <2>5
<1>11. \A g \in Handlers : req'[g].pc \in {"insert position", "set position"} =>
         req'[g].value <= SharesRead(req'[g].order.symbol, orders', req')
  BY <1>8, <1>10
<1>. QED BY <1>9, <1>11 DEF HeldInv

\* A position becomes what was written, or nothing.
LEMMA PutKeepsHeld ==
  ASSUME Inv, Inv', HeldInv, NEW h \in Handlers, PutPosition(h) PROVE HeldInv'
<1>. DEFINE s == req[h].order.symbol
<1>. SUFFICES ASSUME "admin" \notin mode PROVE HeldInv'
  BY PutFacts DEF HeldInv
<1>1. /\ req[h].pc \in {"insert position", "set position", "delete position"}
      /\ mode' = mode /\ orders' = orders /\ s \in Symbols
      /\ req'[h].pc \notin Saved /\ req'[h].pc \notin {"insert position", "set position"}
  BY PutFacts DEF Saved
<1>2. \A g \in Handlers \ {h} : req'[g] = req[g]
  BY PutFacts
<1>3. SharesGrown
  <2>1. \A g \in Handlers : req'[g].pc \in Saved => req[g].pc \in Saved /\ req'[g].order = req[g].order
    BY <1>1, <1>2
  <2>. QED BY <1>1, <2>1, SharesGrow DEF SharesGrown
<1>4. \A t : SharesRead(t, orders, req) \in Int /\ SharesRead(t, orders', req') \in Int
  <2>1. orders \in Seq(OrderRecords) /\ orders' \in Seq(OrderRecords)
    BY DEF Inv, TypeOK
  <2>. QED BY <2>1, SharesReadTyped
<1>5. ASSUME NEW t \in Symbols
      PROVE  \/ positions'[t] = positions[t]
             \/ t = s /\ positions'[t].quantity = 0
             \/ t = s /\ req[h].pc \in {"insert position", "set position"}
                /\ positions'[t].quantity = req[h].value
  <2>1. ASSUME NEW p, WritePosition(h, p)
        PROVE  positions'[t] = positions[t] \/ (t = s /\ positions'[t] = p)
    BY <1>1, <2>1 DEF WritePosition, Inv, TypeOK
  <2>2. CASE InsertPosition(h)
    <3>1. req[h].pc = "insert position"
          /\ (positions' = positions \/ \E p : p.quantity = req[h].value /\ WritePosition(h, p))
      BY <2>2 DEF InsertPosition, Awaits, At
    <3>. QED BY <2>1, <3>1
  <2>3. CASE SetPosition(h)
    <3>0. \A n : [quantity |-> req[h].value, realized |-> n].quantity = req[h].value
      OBVIOUS
    <3>1. req[h].pc = "set position"
          /\ (positions' = positions \/ \E p : p.quantity = req[h].value /\ WritePosition(h, p))
      BY <2>3, <3>0 DEF SetPosition, Awaits, At
    <3>. QED BY <2>1, <3>1
  <2>4. CASE DeletePosition(h)
    <3>1. WritePosition(h, NoPosition) /\ NoPosition.quantity = 0
      BY <2>4 DEF DeletePosition, NoPosition
    <3>. QED BY <2>1, <3>1
  <2>. QED BY <2>2, <2>3, <2>4 DEF PutPosition
<1>6. ASSUME NEW t \in Symbols PROVE positions'[t].quantity <= SharesRead(t, orders', req')
  <2>1. positions[t].quantity \in Nat /\ positions[t].quantity <= SharesRead(t, orders, req)
    BY PositionNumbers DEF HeldInv, Inv, TypeOK
  <2>2. SharesRead(t, orders, req) <= SharesRead(t, orders', req')
    BY <1>3 DEF SharesGrown
  <2>3. req[h].value \in Nat
    BY ValueNumber
  <2>4. positions'[t].quantity \in Nat /\ positions'[t].quantity <= SharesRead(t, orders, req)
    <3>1. CASE positions'[t] = positions[t]
      BY <2>1, <3>1
    <3>2. CASE positions'[t].quantity = 0
      <4>1. \A m \in Nat, n \in Int : m <= n => 0 <= n
        OBVIOUS
      <4>. QED BY <1>4, <2>1, <3>2, <4>1
    <3>3. CASE /\ t = s /\ req[h].pc \in {"insert position", "set position"}
               /\ positions'[t].quantity = req[h].value
      <4>1. req[h].value <= SharesRead(s, orders, req)
        BY <3>3 DEF HeldInv
      <4>. QED BY <2>3, <3>3, <4>1
    <3>. QED BY <1>5, <3>1, <3>2, <3>3
  <2>. QED BY <1>4, <2>2, <2>4, AtMostTrans
<1>7. ASSUME NEW g \in Handlers, req'[g].pc \in {"insert position", "set position"}
      PROVE  req'[g].value <= SharesRead(req'[g].order.symbol, orders', req')
  <2>1. req'[g] = req[g]
    BY <1>1, <1>2, <1>7
  <2>2. req[g].value \in Nat /\ req[g].value <= SharesRead(req[g].order.symbol, orders, req)
    BY <1>7, <2>1, ValueNumber DEF HeldInv
  <2>3. SharesRead(req[g].order.symbol, orders, req) <= SharesRead(req[g].order.symbol, orders', req')
    BY <1>3 DEF SharesGrown
  <2>4. req[g].value <= SharesRead(req[g].order.symbol, orders', req')
    BY <1>4, <2>2, <2>3, AtMostTrans
  <2>. QED BY <2>1, <2>4
<1>. QED BY <1>6, <1>7 DEF HeldInv

\* No step makes up shares.
LEMMA HeldStep == ASSUME Inv, Inv', OrdersInv, HeldInv, [Next]_vars PROVE HeldInv'
<1>1. CASE Quiet
  <2>1. \A g \in Handlers : req'[g].pc \in Saved => req[g].pc \in Saved /\ req'[g].order = req[g].order
    BY <1>1 DEF Quiet, Bystander, Unsettled, Pending, Saved
  <2>2. SharesGrown
    BY <1>1, <2>1, SharesGrow DEF Quiet, SharesGrown
  <2>3. \A g \in Handlers : req'[g].pc \in {"insert position", "set position"} => req'[g] = req[g]
    BY <1>1 DEF Quiet, Bystander, Unsettled, Pending
  <2>4. mode' = mode /\ positions' = positions
    BY <1>1 DEF Quiet
  <2>. QED BY <2>2, <2>3, <2>4, HeldStays
<1>2. ASSUME NEW h \in Handlers, SaveOrder(h) PROVE HeldInv'
  <2>1. SharesGrown
    BY <1>2, SharesGrowBySaving DEF SharesGrown
  <2>2. /\ mode' = mode /\ positions' = positions /\ req'[h].pc \in {"idle", "cash"}
        /\ \A g \in Handlers \ {h} : req'[g] = req[g]
    BY <1>2, SaveFacts
  <2>. QED BY <2>1, <2>2, HeldStays
<1>3. ASSUME NEW h \in Handlers, UpdateBalance(h) PROVE HeldInv'
  <2>1. /\ mode' = mode /\ positions' = positions /\ orders' = orders
        /\ req[h].pc = "cash" /\ req'[h].pc = "position" /\ req'[h].order = req[h].order
        /\ \A g \in Handlers \ {h} : req'[g] = req[g]
    BY <1>3, ChargeFacts
  <2>2. \A g \in Handlers : req'[g].pc \in Saved => req[g].pc \in Saved /\ req'[g].order = req[g].order
    BY <2>1 DEF Saved
  <2>3. SharesGrown
    BY <2>1, <2>2, SharesGrow DEF SharesGrown
  <2>. QED BY <2>1, <2>3, HeldStays
<1>4. ASSUME NEW h \in Handlers, Empties(h) PROVE HeldInv'
  <2>1. "admin" \in mode /\ mode' = mode
    BY <1>4, StepKinds DEF Empties, DeleteOrders, DeletePositions, Awaits
  <2>. QED BY <2>1 DEF HeldInv
<1>. QED BY <1>1, <1>2, <1>3, <1>4, StepKinds, ReadKeepsHeld, PutKeepsHeld DEF Books

\* A position is at most what was bought.
LEMMA HeldBought == Inv /\ HeldInv => HeldWasBought
<1>. SUFFICES ASSUME Inv, HeldInv, "admin" \notin mode, NEW s \in Symbols
              PROVE  positions[s].quantity <= Total(Purchases(orders, s))
  BY DEF HeldWasBought
<1>1. orders \in Seq(OrderRecords) /\ positions[s].quantity \in Nat
  BY PositionNumbers DEF Inv, TypeOK
<1>2. Purchases(orders, s) = Counted(orders, SharesOf(s), {})
  <2>1. DOMAIN orders = 1..Len(orders) /\ \A i \in 1..Len(orders) : orders[i] \in OrderRecords
    BY <1>1
  <2>. QED BY <2>1 DEF Purchases, Counted, SharesOf
<1>3. SharesRead(s, orders, req) <= Total(Counted(orders, SharesOf(s), {}))
  <2>1. \A i \in 1..Len(orders) : orders[i].id \in {} => orders[i].id \in IdsAt(req, Saved)
    OBVIOUS
  <2>. QED BY <1>1, <2>1, SharesTyped, CountedMore DEF SharesRead
<1>4. SharesRead(s, orders, req) \in Int /\ Total(Counted(orders, SharesOf(s), {})) \in Int
  BY <1>1, SharesReadTyped, SharesTyped, CountedTyped, TotalIsInt
<1>5. positions[s].quantity <= SharesRead(s, orders, req)
  BY DEF HeldInv
<1>6. positions[s].quantity <= Total(Counted(orders, SharesOf(s), {}))
  BY <1>1, <1>3, <1>4, <1>5, AtMostTrans
<1>. QED BY <1>2, <1>6

-----------------------------------------------------------------------------
(* The positions, when requests come one at a time.                        *)

\* The position after an order of some symbol, and the recursive function of Comes.
BookedOn(p, o, s) == IF o.symbol = s THEN Book(p, o) ELSE p
CameTo(q, s) ==
  CHOOSE a : a = [k \in 0..Len(q) |->
                    IF k = 0 THEN NoPosition
                    ELSE IF q[k].symbol = s THEN Book(a[k - 1], q[k]) ELSE a[k - 1]]

\* Comes is the last value of the function.
LEMMA ComesIsCameTo == ASSUME NEW q, NEW s PROVE Comes(q, s) = CameTo(q, s)[Len(q)]
  BY DEF Comes, CameTo

\* The recursion, one order after the other.
LEMMA CameToStep ==
  ASSUME NEW q, NEW s, Len(q) \in Nat
  PROVE  /\ CameTo(q, s)[0] = NoPosition
         /\ \A k \in 1..Len(q) : CameTo(q, s)[k] = BookedOn(CameTo(q, s)[k - 1], q[k], s)
<1>. DEFINE Recurs(g, k) == IF k = 0 THEN NoPosition
                            ELSE IF q[k].symbol = s THEN Book(g[k - 1], q[k]) ELSE g[k - 1]
            T == {n \in Nat : \E g : g = [k \in 0..n |-> Recurs(g, k)]}
<1>1. 0 \in T
  <2>1. [k \in 0..0 |-> NoPosition] = [k \in 0..0 |-> Recurs([j \in 0..0 |-> NoPosition], k)]
    OBVIOUS
  <2>. QED BY <2>1
<1>2. ASSUME NEW n \in T PROVE n + 1 \in T
  <2>1. PICK g : g = [k \in 0..n |-> Recurs(g, k)]
    BY <1>2
  <2>. DEFINE h == [k \in 0..(n + 1) |-> IF k = n + 1 THEN Recurs(g, k) ELSE g[k]]
  <2>2. ASSUME NEW k \in 0..(n + 1) PROVE h[k] = Recurs(h, k)
    <3>1. k # 0 => k - 1 \in 0..n /\ h[k - 1] = g[k - 1]
      BY n \in Nat
    <3>2. k # n + 1 => k \in 0..n
      BY n \in Nat
    <3>3. k # n + 1 => h[k] = Recurs(g, k)
      <4>1. k # n + 1 => h[k] = g[k]
        OBVIOUS
      <4>2. \A j \in 0..n : g[j] = Recurs(g, j)
        BY <2>1
      <4>. HIDE DEF h, Recurs
      <4>. QED BY <4>1, <4>2, <3>2
    <3>4. k = n + 1 => h[k] = Recurs(g, k)
      OBVIOUS
    <3>5. Recurs(h, k) = Recurs(g, k)
      <4>. HIDE DEF h
      <4>. QED BY <3>1
    <3>. HIDE DEF h, Recurs
    <3>. QED BY <3>3, <3>4, <3>5
  <2>3. h = [k \in 0..(n + 1) |-> Recurs(h, k)]
    <3>1. h = [k \in 0..(n + 1) |-> h[k]]
      OBVIOUS
    <3>. HIDE DEF h, Recurs
    <3>. QED BY <2>2, <3>1
  <2>. HIDE DEF h, Recurs
  <2>. QED BY <2>3, n \in Nat
<1>3. T = Nat
  <2>. HIDE DEF T
  <2>. QED BY <1>1, <1>2, SetInduction, T \subseteq Nat DEF T
<1>4. \E g : g = [k \in 0..Len(q) |-> Recurs(g, k)]
  BY <1>3
<1>. DEFINE a == CameTo(q, s)
<1>5. a = [k \in 0..Len(q) |-> Recurs(a, k)]
  BY <1>4 DEF CameTo
<1>. HIDE DEF a
<1>6. \A k \in 0..Len(q) : a[k] = Recurs(a, k)
  <2>. HIDE DEF Recurs
  <2>. QED BY <1>5
<1>7. a[0] = NoPosition
  BY <1>6
<1>8. \A k \in 1..Len(q) : a[k] = Recurs(a, k) /\ k # 0
  BY <1>6
<1>. QED BY <1>7, <1>8 DEF a, BookedOn

\* No orders come to no position.
LEMMA ComesOfNothing == ASSUME NEW s PROVE Comes(<<>>, s) = NoPosition
  BY ComesIsCameTo, CameToStep, Len(<<>>) = 0

\* One more order books its symbol.
LEMMA ComesAppend ==
  ASSUME NEW q \in Seq(OrderRecords), NEW o \in OrderRecords, NEW s
  PROVE  Comes(Append(q, o), s) = BookedOn(Comes(q, s), o, s)
<1>. DEFINE n == Len(q)
            r == Append(q, o)
            T == {k \in Nat : k <= n => CameTo(r, s)[k] = CameTo(q, s)[k]}
<1>1. /\ n \in Nat /\ Len(r) = n + 1 /\ Len(r) \in Nat /\ r[n + 1] = o
      /\ \A k \in 1..n : r[k] = q[k]
  OBVIOUS
<1>. HIDE DEF r
<1>2. /\ CameTo(r, s)[0] = NoPosition /\ CameTo(q, s)[0] = NoPosition
      /\ \A k \in 1..(n + 1) : CameTo(r, s)[k] = BookedOn(CameTo(r, s)[k - 1], r[k], s)
      /\ \A k \in 1..n : CameTo(q, s)[k] = BookedOn(CameTo(q, s)[k - 1], q[k], s)
  BY <1>1, CameToStep
<1>3. 0 \in T
  BY <1>2
<1>4. ASSUME NEW k \in T PROVE k + 1 \in T
  <2>. SUFFICES ASSUME k + 1 <= n PROVE CameTo(r, s)[k + 1] = CameTo(q, s)[k + 1]
    OBVIOUS
  <2>1. k + 1 \in 1..n /\ k + 1 \in 1..(n + 1) /\ (k + 1) - 1 = k /\ k <= n
    BY <1>1
  <2>2. CameTo(r, s)[k] = CameTo(q, s)[k]
    BY <2>1
  <2>3. /\ CameTo(r, s)[k + 1] = BookedOn(CameTo(r, s)[k], r[k + 1], s)
        /\ CameTo(q, s)[k + 1] = BookedOn(CameTo(q, s)[k], q[k + 1], s)
    BY <1>2, <2>1
  <2>. QED BY <1>1, <2>1, <2>2, <2>3
<1>5. T = Nat
  <2>. HIDE DEF T
  <2>. QED BY <1>3, <1>4, SetInduction, T \subseteq Nat DEF T
<1>6. CameTo(r, s)[n] = CameTo(q, s)[n]
  BY <1>1, <1>5
<1>7. CameTo(r, s)[n + 1] = BookedOn(CameTo(r, s)[n], r[n + 1], s)
  BY <1>1, <1>2, n + 1 \in 1..(n + 1), (n + 1) - 1 = n
<1>. QED BY <1>1, <1>6, <1>7, ComesIsCameTo DEF r

\* What a handler still owes its position: the books without its last order, and what it
\* is going to write.
Owed(r, q, held) ==
  /\ \A t \in Symbols : Comes(q, t) = BookedOn(held[t], r.order, t)
  /\ r.pc = "insert position" =>
       /\ r.order.action = "BUY" /\ held[r.order.symbol] = NoPosition
       /\ r.value = r.order.filled
  /\ r.pc = "set position" =>
       /\ held[r.order.symbol] # NoPosition
       /\ \/ /\ r.order.action = "BUY"
             /\ r.value = held[r.order.symbol].quantity + r.order.filled
          \/ /\ r.order.action = "SELL" /\ held[r.order.symbol].quantity > r.order.filled
             /\ r.value = held[r.order.symbol].quantity - r.order.filled
  /\ r.pc = "delete position" =>
       r.order.action = "SELL" /\ held[r.order.symbol].quantity <= r.order.filled

Follows(q, held) == \A s \in Symbols : held[s] = Comes(q, s)

FollowInv ==
  mode \cap {"overlap", "failure"} = {} =>
    /\ (\A h \in Handlers : req[h].pc \notin Unsettled) => Follows(orders, positions)
    /\ \A h \in Handlers : req[h].pc = "reset positions" => orders = <<>>
    /\ \A h \in Handlers : req[h].pc \in Pending => Owed(req[h], orders, positions)

\* The handler at work is the only one: it alone has to be looked at, before and after.
Calm == mode \cap {"overlap", "failure"} = {}

\* The positions are settled unless that handler books or resets.
LEMMA FollowBefore ==
  ASSUME Inv, FollowInv, Calm, NEW h \in Handlers, req[h].pc # "idle"
  PROVE  /\ \A g \in Handlers \ {h} : req[g].pc = "idle"
         /\ req[h].pc \notin Unsettled => Follows(orders, positions)
<1>1. \A g \in Handlers \ {h} : req[g].pc = "idle"
  BY DEF Inv, Alone, At, Calm
<1>2. "idle" \notin Unsettled
  BY DEF Unsettled, Pending
<1>3. ASSUME req[h].pc \notin Unsettled PROVE Follows(orders, positions)
  <2>1. \A g \in Handlers : req[g].pc \notin Unsettled
    BY <1>1, <1>2, <1>3
  <2>. QED BY <2>1 DEF FollowInv, Calm
<1>. QED BY <1>1, <1>3

\* What remains to be shown of the handler at work, after its step.
LEMMA FollowAfter ==
  ASSUME Inv, Calm, NEW h \in Handlers, req[h].pc # "idle", mode' = mode,
         \A g \in Handlers \ {h} : req'[g] = req[g],
         req'[h].pc \notin Unsettled => Follows(orders', positions'),
         req'[h].pc = "reset positions" => orders' = <<>>,
         req'[h].pc \in Pending => Owed(req'[h], orders', positions')
  PROVE  FollowInv'
<1>1. \A g \in Handlers \ {h} : req'[g].pc = "idle"
  BY DEF Inv, Alone, At, Calm
<1>2. \A g \in Handlers \ {h} : req'[g].pc \notin Pending /\ req'[g].pc # "reset positions"
  BY <1>1 DEF Pending
<1>3. (\A g \in Handlers : req'[g].pc \notin Unsettled) => Follows(orders', positions')
  OBVIOUS
<1>. QED BY <1>2, <1>3 DEF FollowInv

\* Booking what was not filled changes nothing, and selling what is not held neither.
LEMMA BookNothing ==
  ASSUME NEW p \in Positions, NEW o \in OrderRecords
  PROVE  /\ o.filled = 0 => Book(p, o) = p
         /\ o.action # "BUY" => Book(NoPosition, o) = NoPosition
<1>1. /\ o.filled \in Nat /\ p.quantity \in Nat /\ p.realized \in Nat
      /\ p.quantity = 0 => p = NoPosition
      /\ p = [quantity |-> p.quantity, realized |-> p.realized]
  BY DEF OrderRecords, Positions, NoPosition
<1>2. o.action # "BUY" => Book(NoPosition, o) = NoPosition
  BY <1>1 DEF Book, NoPosition
<1>3. ASSUME o.filled = 0 PROVE Book(p, o) = p
  <2>1. CASE o.action = "BUY"
    <3>1. Book(p, o) = [p EXCEPT !.quantity = p.quantity + 0]
      BY <1>3, <2>1 DEF Book
    <3>2. p.quantity + 0 = p.quantity
      BY <1>1
    <3>3. [p EXCEPT !.quantity = p.quantity] = p
      BY <1>1
    <3>. QED BY <3>1, <3>2, <3>3
  <2>2. CASE o.action # "BUY" /\ p.quantity <= 0
    <3>1. p.quantity = 0
      BY <1>1, <2>2
    <3>. QED BY <1>1, <1>3, <2>2, <3>1 DEF Book
  <2>3. CASE o.action # "BUY" /\ ~(p.quantity <= 0)
    <3>1. Book(p, o) = [quantity |-> p.quantity - 0, realized |-> p.realized + 0]
      BY <1>3, <2>3 DEF Book
    <3>2. p.quantity - 0 = p.quantity /\ p.realized + 0 = p.realized
      BY <1>1
    <3>. QED BY <1>1, <3>1, <3>2
  <2>. QED BY <2>1, <2>2, <2>3
<1>. QED BY <1>2, <1>3

\* An order that is saved is owed, if it is filled.
LEMMA SaveFollows == ASSUME Inv, FollowInv, NEW h \in Handlers, SaveOrder(h) PROVE FollowInv'
<1>. DEFINE o == req[h].order
<1>1. /\ req[h].pc = "save" /\ mode' = mode /\ positions' = positions /\ o \in OrderRecords
      /\ o.symbol \in Symbols /\ orders \in Seq(OrderRecords)
      /\ \A g \in Handlers \ {h} : req'[g] = req[g]
  BY SaveFacts DEF Inv, TypeOK
<1>. SUFFICES ASSUME Calm PROVE FollowInv'
  BY <1>1 DEF FollowInv, Calm
<1>2. Follows(orders, positions) /\ req[h].pc # "idle"
  <2>1. "save" \notin Unsettled
    BY DEF Unsettled, Pending
  <2>. QED BY <1>1, <2>1, FollowBefore
<1>3. CASE orders' = orders /\ req'[h].pc = "idle"
  <2>1. req'[h].pc \notin Pending /\ req'[h].pc # "reset positions"
    BY <1>3 DEF Pending
  <2>. QED BY <1>1, <1>2, <1>3, <2>1, FollowAfter
<1>4. ASSUME orders' = Append(orders, o)
      PROVE  \A t \in Symbols : Comes(orders', t) = BookedOn(positions'[t], o, t)
  BY <1>1, <1>2, <1>4, ComesAppend DEF Follows
<1>5. CASE orders' = Append(orders, o) /\ req'[h].pc = "cash" /\ req'[h].order = o
  <2>1. Owed(req'[h], orders', positions')
    BY <1>4, <1>5 DEF Owed
  <2>2. req'[h].pc \in Unsettled /\ req'[h].pc # "reset positions"
    BY <1>5 DEF Unsettled, Pending
  <2>. QED BY <1>1, <1>2, <2>1, <2>2, FollowAfter
<1>6. CASE orders' = Append(orders, o) /\ req'[h].pc = "idle" /\ ~Filled(o)
  <2>1. o.filled = 0
    BY <1>6 DEF Inv, TypeOK, RequestOK
  <2>2. \A t \in Symbols : positions[t] \in Positions
    BY DEF Inv, TypeOK
  <2>3. Follows(orders', positions')
    BY <1>1, <1>4, <1>6, <2>1, <2>2, BookNothing DEF Follows, BookedOn
  <2>4. req'[h].pc \notin Pending /\ req'[h].pc # "reset positions"
    BY <1>6 DEF Pending
  <2>. QED BY <1>1, <1>2, <2>3, <2>4, FollowAfter
<1>. QED BY <1>3, <1>5, <1>6, SaveFacts

\* Charging an order leaves it owed.
LEMMA ChargeFollows == ASSUME Inv, FollowInv, NEW h \in Handlers, UpdateBalance(h) PROVE FollowInv'
<1>1. /\ req[h].pc = "cash" /\ mode' = mode /\ positions' = positions /\ orders' = orders
      /\ req'[h].pc = "position" /\ req'[h].order = req[h].order
      /\ \A g \in Handlers \ {h} : req'[g] = req[g]
  BY ChargeFacts
<1>. SUFFICES ASSUME Calm PROVE FollowInv'
  BY <1>1 DEF FollowInv, Calm
<1>2. Owed(req[h], orders, positions)
  BY <1>1 DEF FollowInv, Calm, Pending
<1>3. Owed(req'[h], orders', positions')
  BY <1>1, <1>2 DEF Owed
<1>4. req'[h].pc \in Unsettled /\ req'[h].pc # "reset positions" /\ req[h].pc # "idle"
  BY <1>1 DEF Unsettled, Pending
<1>. QED BY <1>1, <1>3, <1>4, FollowAfter

\* What is read is what is owed.
LEMMA ReadFollows == ASSUME Inv, FollowInv, NEW h \in Handlers, ReadPosition(h) PROVE FollowInv'
<1>. DEFINE o == req[h].order
<1>1. /\ req[h].pc = "position" /\ mode' = mode /\ positions' = positions /\ orders' = orders
      /\ o \in OrderRecords /\ o.symbol \in Symbols
      /\ \A g \in Handlers \ {h} : req'[g] = req[g]
  BY ReadFacts
<1>. SUFFICES ASSUME Calm PROVE FollowInv'
  BY <1>1 DEF FollowInv, Calm
<1>2. \A t \in Symbols : Comes(orders, t) = BookedOn(positions[t], o, t)
  <2>1. Owed(req[h], orders, positions)
    BY <1>1 DEF FollowInv, Calm, Pending
  <2>. QED BY <2>1 DEF Owed
<1>3. Held(h) = positions[o.symbol]
  BY DEF Held
<1>4. CASE req'[h].pc = "idle" /\ o.action = "SELL" /\ Held(h) = NoPosition
  <2>1. positions[o.symbol] = NoPosition /\ NoPosition \in Positions
    BY <1>3, <1>4 DEF Positions
  <2>2. \A t \in Symbols : BookedOn(positions[t], o, t) = positions[t]
    BY <1>1, <1>4, <2>1, BookNothing DEF BookedOn
  <2>3. Follows(orders', positions')
    BY <1>1, <1>2, <2>2 DEF Follows
  <2>4. req'[h].pc \notin Pending /\ req'[h].pc # "reset positions" /\ req[h].pc # "idle"
    BY <1>1, <1>4 DEF Pending
  <2>. QED BY <1>1, <2>3, <2>4, FollowAfter
<1>5. CASE req'[h].pc # "idle"
  <2>1. /\ req'[h].pc \in {"insert position", "set position", "delete position"}
        /\ Owed(req'[h], orders', positions')
    BY <1>1, <1>2, <1>3, <1>5, ReadFacts DEF Owed
  <2>2. req'[h].pc \in Unsettled /\ req'[h].pc # "reset positions" /\ req[h].pc # "idle"
    BY <1>1, <2>1 DEF Unsettled, Pending
  <2>. QED BY <1>1, <2>1, <2>2, FollowAfter
<1>. QED BY <1>4, <1>5, ReadFacts

\* What is written is what is owed.
LEMMA PutBooks ==
  ASSUME Inv, NEW h \in Handlers, PutPosition(h), Owed(req[h], orders, positions)
  PROVE  \A t \in Symbols : positions'[t] = BookedOn(positions[t], req[h].order, t)
<1>. DEFINE o == req[h].order
            s == o.symbol
            p == positions[s]
<1>1. /\ s \in Symbols /\ o.filled \in Nat \ {0} /\ req[h].value \in Nat
      /\ positions \in [Symbols -> Positions]
  BY PutFacts DEF Inv, TypeOK
<1>2. p \in Positions /\ p.quantity \in Nat /\ p.realized \in Nat /\ Held(h) = p
  BY <1>1, PositionNumbers DEF Held
<1>3. ASSUME NEW x, WritePosition(h, x), x = Book(p, o)
      PROVE  \A t \in Symbols : positions'[t] = BookedOn(positions[t], o, t)
  BY <1>1, <1>3 DEF WritePosition, BookedOn
<1>4. p = [quantity |-> p.quantity, realized |-> p.realized]
  BY <1>2 DEF Positions, NoPosition
<1>5. CASE InsertPosition(h)
  <2>1. o.action = "BUY" /\ p = NoPosition /\ req[h].value = o.filled
    BY <1>5 DEF InsertPosition, Awaits, At, Owed
  <2>2. Book(p, o) = [NoPosition EXCEPT !.quantity = 0 + o.filled]
    BY <2>1 DEF Book, NoPosition
  <2>3. 0 + o.filled = o.filled
    BY <1>1
  <2>4. Book(p, o) = [quantity |-> req[h].value, realized |-> 0]
    BY <2>1, <2>2, <2>3 DEF NoPosition
  <2>5. WritePosition(h, [quantity |-> req[h].value, realized |-> 0])
    BY <1>2, <1>5, <2>1 DEF InsertPosition
  <2>. QED BY <1>3, <2>4, <2>5
<1>6. CASE SetPosition(h)
  <2>. DEFINE sold == IF o.action = "SELL" THEN o.filled ELSE 0
  <2>1. /\ p # NoPosition
        /\ \/ o.action = "BUY" /\ req[h].value = p.quantity + o.filled
           \/ o.action = "SELL" /\ p.quantity > o.filled /\ req[h].value = p.quantity - o.filled
    BY <1>6 DEF SetPosition, Awaits, At, Owed
  <2>2. WritePosition(h, [quantity |-> req[h].value, realized |-> p.realized + sold])
    BY <1>2, <1>6, <2>1 DEF SetPosition
  <2>3. CASE o.action = "BUY" /\ req[h].value = p.quantity + o.filled
    <3>1. Book(p, o) = [p EXCEPT !.quantity = req[h].value]
      BY <2>3 DEF Book
    <3>2. Book(p, o) = [quantity |-> req[h].value, realized |-> p.realized]
      BY <1>4, <3>1
    <3>3. p.realized + sold = p.realized
      BY <1>2, <2>3
    <3>. QED BY <1>3, <2>2, <3>2, <3>3
  <2>4. CASE o.action = "SELL" /\ p.quantity > o.filled /\ req[h].value = p.quantity - o.filled
    <3>1. ~(p.quantity <= o.filled)
      BY <1>1, <1>2, <2>4
    <3>2. Book(p, o) = [quantity |-> req[h].value, realized |-> p.realized + o.filled]
      BY <2>4, <3>1 DEF Book
    <3>3. sold = o.filled
      BY <2>4
    <3>. QED BY <1>3, <2>2, <3>2, <3>3
  <2>. QED BY <2>1, <2>3, <2>4
<1>7. CASE DeletePosition(h)
  <2>1. o.action = "SELL" /\ p.quantity <= o.filled /\ WritePosition(h, NoPosition)
    BY <1>7 DEF DeletePosition, Awaits, At, Owed
  <2>2. Book(p, o) = NoPosition
    BY <2>1 DEF Book
  <2>. QED BY <1>3, <2>1, <2>2
<1>. QED BY <1>5, <1>6, <1>7 DEF PutPosition

\* After that the positions are what the order book comes to.
LEMMA PutFollows == ASSUME Inv, FollowInv, NEW h \in Handlers, PutPosition(h) PROVE FollowInv'
<1>1. /\ req[h].pc \in Pending /\ req[h].pc # "idle" /\ mode' = mode /\ orders' = orders
      /\ req'[h].pc \notin Pending /\ req'[h].pc # "reset positions"
  BY PutFacts DEF Pending
<1>2. \A g \in Handlers \ {h} : req'[g] = req[g]
  BY PutFacts
<1>. SUFFICES ASSUME Calm PROVE FollowInv'
  BY <1>1 DEF FollowInv, Calm
<1>3. Owed(req[h], orders, positions)
  BY <1>1 DEF FollowInv, Calm
<1>4. \A t \in Symbols : Comes(orders, t) = BookedOn(positions[t], req[h].order, t)
  BY <1>3 DEF Owed
<1>5. Follows(orders', positions')
  BY <1>1, <1>3, <1>4, PutBooks DEF Follows
<1>. QED BY <1>1, <1>2, <1>5, FollowAfter

\* A reset empties the order book, and then the positions.
LEMMA EmptiesFollow == ASSUME Inv, FollowInv, NEW h \in Handlers, Empties(h) PROVE FollowInv'
<1>1. mode' = mode /\ req[h].pc # "idle"
  BY DEF Empties, DeleteOrders, DeletePositions, Awaits, At
<1>. SUFFICES ASSUME Calm PROVE FollowInv'
  BY <1>1 DEF FollowInv, Calm
<1>2. CASE DeleteOrders(h)
  <2>1. Goto(h, "reset positions") /\ orders' = <<>>
    BY <1>2 DEF DeleteOrders
  <2>2. req'[h].pc = "reset positions" /\ \A g \in Handlers \ {h} : req'[g] = req[g]
    BY <2>1, GotoRequest DEF Places
  <2>3. req'[h].pc \in Unsettled /\ req'[h].pc \notin Pending
    BY <2>2 DEF Unsettled, Pending
  <2>. QED BY <1>1, <2>1, <2>2, <2>3, FollowAfter
<1>3. CASE DeletePositions(h)
  <2>1. /\ req[h].pc = "reset positions" /\ Goto(h, "reset account") /\ orders' = orders
        /\ positions' = [s \in Symbols |-> NoPosition]
    BY <1>3 DEF DeletePositions, Awaits, At
  <2>2. req'[h].pc = "reset account" /\ \A g \in Handlers \ {h} : req'[g] = req[g]
    BY <2>1, GotoRequest DEF Places
  <2>3. orders' = <<>>
    BY <2>1 DEF FollowInv, Calm
  <2>4. Follows(orders', positions')
    BY <2>1, <2>3, ComesOfNothing DEF Follows
  <2>5. req'[h].pc \notin Pending /\ req'[h].pc # "reset positions"
    BY <2>2 DEF Pending
  <2>. QED BY <1>1, <2>2, <2>4, <2>5, FollowAfter
<1>. QED BY <1>2, <1>3 DEF Empties

\* The positions follow the order book, step by step.
LEMMA FollowStep == ASSUME Inv, FollowInv, [Next]_vars PROVE FollowInv'
<1>1. CASE Quiet
  <2>. SUFFICES ASSUME Calm PROVE FollowInv'
    BY <1>1 DEF Quiet, FollowInv, Calm
  <2>1. \A g \in Handlers :
          req'[g] = req[g] \/ (req'[g].pc \notin Unsettled /\ req[g].pc \notin Unsettled)
    BY <1>1 DEF Quiet, Bystander, Calm
  <2>2. (\A g \in Handlers : req'[g].pc \notin Unsettled) => Follows(orders, positions)
    BY <2>1 DEF FollowInv, Calm
  <2>3. \A g \in Handlers : req'[g].pc = "reset positions" => orders = <<>>
    BY <2>1 DEF FollowInv, Calm, Unsettled
  <2>4. \A g \in Handlers : req'[g].pc \in Pending => Owed(req'[g], orders, positions)
    BY <2>1 DEF FollowInv, Calm, Unsettled
  <2>. QED BY <1>1, <2>2, <2>3, <2>4 DEF Quiet, FollowInv
<1>. QED BY <1>1, StepKinds, SaveFollows, ChargeFollows, ReadFollows, PutFollows, EmptiesFollow
     DEF Books

\* What PositionsFollowOrders says is what the invariant says.
LEMMA FollowBooks == Inv /\ FollowInv => PositionsFollowOrders
<1>. SUFFICES ASSUME FollowInv, mode \cap {"overlap", "failure"} = {}, \A h \in Handlers : Settled(h)
              PROVE  \A s \in Symbols : positions[s] = Comes(orders, s)
  BY DEF PositionsFollowOrders
<1>1. \A h \in Handlers : req[h].pc \notin Unsettled
  BY DEF Settled, Unsettled, Pending
<1>. QED BY <1>1 DEF FollowInv, Follows

-----------------------------------------------------------------------------
(* The books.                                                              *)

BooksIInv == Inv /\ OrdersInv /\ CashInv /\ HeldInv /\ FollowInv

\* At first there are no orders, and nothing is held.
LEMMA InitBooks == Init => BooksIInv
<1>. SUFFICES ASSUME Init PROVE BooksIInv
  OBVIOUS
<1>1. /\ Inv /\ orders = <<>> /\ positions = [s \in Symbols |-> NoPosition]
      /\ \A h \in Handlers : req[h].pc = "idle"
  BY InitInv DEF Init, Idle
<1>2. \A V, ids : Total(Counted(orders, V, ids)) = 0
  <2>1. \A V, ids : Counted(orders, V, ids) = <<>>
    BY <1>1 DEF Counted
  <2>. QED BY <2>1, TotalOfNothing
<1>3. OrdersInv
  <2>1. \A h \in Handlers : req[h].pc \notin Saved
    BY <1>1 DEF Saved
  <2>2. Apart(orders)
    BY <1>1 DEF Apart
  <2>. QED BY <2>1, <2>2 DEF OrdersInv
<1>4. CashInv
  <2>1. accounts[1] = NewAccount /\ InitialBalance + 0 = InitialBalance
    BY PaperAssumption DEF Init
  <2>. QED BY <1>2, <2>1 DEF CashInv, ChargedSum, NewAccount
<1>5. HeldInv
  <2>1. \A s \in Symbols : positions[s].quantity = 0
    BY <1>1 DEF NoPosition
  <2>2. \A s : SharesRead(s, orders, req) = 0
    BY <1>2 DEF SharesRead
  <2>3. \A s \in Symbols : positions[s].quantity <= SharesRead(s, orders, req)
    BY <2>1, <2>2, 0 <= 0
  <2>4. \A h \in Handlers : req[h].pc \notin {"insert position", "set position"}
    BY <1>1
  <2>. QED BY <2>3, <2>4 DEF HeldInv
<1>6. FollowInv
  <2>1. Follows(orders, positions)
    BY <1>1, ComesOfNothing DEF Follows
  <2>2. \A h \in Handlers : req[h].pc \notin Pending /\ req[h].pc # "reset positions"
    BY <1>1 DEF Pending
  <2>. QED BY <2>1, <2>2 DEF FollowInv
<1>. QED BY <1>1, <1>3, <1>4, <1>5, <1>6 DEF BooksIInv

\* Cash and commission are those of the filled orders, each charged once; the positions are
\* what the order book comes to when requests come one at a time; and no position is larger
\* than what was bought, whatever runs together: in the modes in which the orders tell.
THEOREM PaperBooksFollow == Spec => []BooksInv
<1>1. BooksIInv /\ [Next]_vars => BooksIInv'
  <2>. SUFFICES ASSUME BooksIInv, [Next]_vars PROVE BooksIInv'
    OBVIOUS
  <2>1. Inv /\ OrdersInv /\ CashInv /\ HeldInv /\ FollowInv
    BY DEF BooksIInv
  <2>2. Inv'
    BY <2>1, NextInv
  <2>. QED BY <2>1, <2>2, OrdersStep, CashStep, HeldStep, FollowStep DEF BooksIInv
<1>2. BooksIInv => BooksInv
  BY CashFollows, HeldBought, FollowBooks DEF BooksIInv, BooksInv
<1>. QED BY InitBooks, <1>1, <1>2, PTL DEF Spec

HIDE PaperAssumption

-----------------------------------------------------------------------------
(* The admin API.  The counts of the manual closes and of the broadcast    *)
(* are cardinalities, of which a step moves one element.                   *)

\* An element moves between two sets that are alike otherwise.
LEMMA OneMoves ==
  ASSUME NEW S, NEW T, IsFiniteSet(S), NEW x, \A y : y # x => (y \in S <=> y \in T)
  PROVE  /\ IsFiniteSet(T) /\ Cardinality(S) \in Nat /\ Cardinality(T) \in Nat
         /\ x \notin S /\ x \in T => Cardinality(T) = Cardinality(S) + 1
         /\ x \in S /\ x \notin T => Cardinality(S) = Cardinality(T) + 1
         /\ (x \in S <=> x \in T) => T = S
<1>1. CASE x \in S <=> x \in T
  <2>1. T = S
    BY <1>1
  <2>. QED BY <1>1, <2>1, FS_CardinalityType
<1>2. CASE x \notin S /\ x \in T
  <2>1. T = S \cup {x}
    BY <1>2
  <2>. QED BY <1>2, <2>1, FS_AddElement, FS_CardinalityType
<1>3. CASE x \in S /\ x \notin T
  <2>1. T = S \ {x}
    BY <1>3
  <2>2. IsFiniteSet(T) /\ Cardinality(T) = Cardinality(S) - 1
    BY <1>3, <2>1, FS_RemoveElement
  <2>3. Cardinality(S) \in Nat /\ Cardinality(T) \in Nat
    BY <2>2, FS_CardinalityType
  <2>. QED BY <1>3, <2>2, <2>3
<1>. QED BY <1>1, <1>2, <1>3

RequestRecords == [at: Stages, ids: SUBSET Ids, change: Updates, clean: BOOLEAN]

\* A creation asks for a follower that can be stored, and if nobody wrote since it looked,
\* for an email that no follower has.
CreationOK(r, followers) ==
  /\ r.at \in {"byEmail", "insert"} => r.change \in [email: Emails, status: Statuses]
  /\ r.at = "insert" /\ r.clean =>
       \A id \in Ids : followers[id] \notin {Absent, Removed} => followers[id].email # r.change.email

StoreInv ==
  /\ store \in [Ids -> Followers \cup {Absent, Removed}]
  /\ request \in [Requests -> RequestRecords]
  /\ \A r \in Requests : CreationOK(request[r], store)
  /\ failures \in 0..MaxFailures

\* The requests whose alert is still to be written, and those that may have inserted an operation.
Announcing(q) == {r \in Requests : q[r].at = "alert"}
PastClose(q) == {r \in Requests : q[r].at \in {"alert", "answered"}}
CountsInv ==
  /\ operations \in Nat /\ alerts \in Nat /\ operations <= Cardinality(PastClose(request))
  /\ operations - alerts - Cardinality(Announcing(request)) \in 0..failures * Cardinality(Requests)

Met(sockets) == {s \in Sockets : sockets[s] \notin {"new", "accepting"}}
SocketsInv ==
  /\ socket \in [Sockets -> SocketStates]
  /\ connections \in Seq(Sockets) /\ Len(connections) <= Cardinality(Met(socket))

PresentIn(followers) == {id \in Ids : followers[id] \notin {Absent, Removed}}
FeedInv ==
  /\ feed \in [at: FeedSteps, total: 0..Cardinality(Ids), next: Nat \ {0}, size: Nat,
               inactive: -Cardinality(Ids)..Cardinality(Ids), writes: Nat]
  /\ feed.size <= Len(connections) /\ feed.next <= feed.size + 1
  /\ feed.at = "countActive" =>
       feed.total - Cardinality(PresentIn(store)) \in -feed.writes..feed.writes

AdminInv == StoreInv /\ CountsInv /\ SocketsInv /\ FeedInv

\* The parts of a set of requests, followers or sockets are finite.
LEMMA FiniteParts ==
  /\ \A S \in SUBSET Ids : IsFiniteSet(S) /\ Cardinality(S) \in Nat /\ Cardinality(S) <= Cardinality(Ids)
  /\ \A S \in SUBSET Requests :
       IsFiniteSet(S) /\ Cardinality(S) \in Nat /\ Cardinality(S) <= Cardinality(Requests)
  /\ \A S \in SUBSET Sockets :
       IsFiniteSet(S) /\ Cardinality(S) \in Nat /\ Cardinality(S) <= Cardinality(Sockets)
  BY AdminAssumption, SocketsAssumption, FS_Subset, FS_CardinalityType DEF Ids

-----------------------------------------------------------------------------
(* Requests. *)

\* The new and the answered requests have their types.
LEMMA PlainRequests ==
  /\ NewRequest \in RequestRecords /\ Answered \in RequestRecords /\ NoChange \in Updates
  /\ NewRequest.at = "new" /\ Answered.at = "answered"
  /\ \A followers : CreationOK(NewRequest, followers) /\ CreationOK(Answered, followers)
  BY DEF NewRequest, Answered, NoChange, RequestRecords, Stages, Updates, CreationOK

\* What MoveTo does to the requests.
LEMMA Moving ==
  ASSUME StoreInv, NEW r \in Requests, NEW stage \in Stages, MoveTo(r, stage)
  PROVE  /\ request' \in [Requests -> RequestRecords] /\ request'[r].at = stage
         /\ \A q \in Requests \ {r} : request'[q] = request[q]
         /\ stage = "answered" => request'[r] = Answered
         /\ stage # "answered" => request'[r].change = request[r].change
                                  /\ request'[r].clean = request[r].clean
<1>1. request[r] \in RequestRecords
  BY DEF StoreInv
<1>2. [request[r] EXCEPT !.at = stage] \in RequestRecords
  BY <1>1 DEF RequestRecords
<1>3. request'[r] = IF stage = "answered" THEN Answered ELSE [request[r] EXCEPT !.at = stage]
  BY DEF MoveTo, StoreInv
<1>4. request'[r] \in RequestRecords /\ request'[r].at = stage
  BY <1>1, <1>2, <1>3, PlainRequests DEF RequestRecords
<1>5. request' \in [Requests -> RequestRecords]
  BY <1>2, PlainRequests DEF MoveTo, StoreInv
<1>6. \A q \in Requests \ {r} : request'[q] = request[q]
  BY DEF MoveTo, StoreInv
<1>7. stage # "answered" => request'[r].change = request[r].change /\ request'[r].clean = request[r].clean
  BY <1>1, <1>3 DEF RequestRecords
<1>. QED BY <1>3, <1>4, <1>5, <1>6, <1>7

\* A step on r that does not write keeps the store's invariant if r is fine.
LEMMA StoreStays ==
  ASSUME StoreInv, NEW r \in Requests, store' = store, failures' \in 0..MaxFailures,
         request' \in [Requests -> RequestRecords],
         \A q \in Requests \ {r} : request'[q] = request[q], CreationOK(request'[r], store)
  PROVE  StoreInv'
  BY DEF StoreInv

\* A write makes every other creation unclean.
LEMMA Writing ==
  ASSUME StoreInv, NEW r \in Requests, NEW id \in Ids, NEW doc \in Followers \cup {Removed},
         Write(r, id, doc), failures' = failures
  PROVE  /\ StoreInv' /\ request'[r] = Answered
         /\ \A q \in Requests \ {r} : request'[q].at = request[q].at
         /\ \A i \in Ids \ {id} : store'[i] = store[i]
         /\ store'[id] = doc
<1>1. store' \in [Ids -> Followers \cup {Absent, Removed}] /\ store'[id] = doc
      /\ \A i \in Ids \ {id} : store'[i] = store[i]
  BY DEF Write, StoreInv
<1>2. request'[r] = Answered
  BY DEF Write
<1>3. ASSUME NEW q \in Requests \ {r}
      PROVE  /\ request'[q] \in RequestRecords /\ request'[q].at = request[q].at
             /\ CreationOK(request'[q], store')
  <2>1. request[q] \in RequestRecords /\ CreationOK(request[q], store)
    BY DEF StoreInv
  <2>2. request'[q] = [request[q] EXCEPT !.clean = request[q].clean /\ request[q].at # "insert"]
    BY DEF Write
  <2>3. /\ request'[q].at = request[q].at /\ request'[q].change = request[q].change
        /\ request'[q].clean = (request[q].clean /\ request[q].at # "insert")
        /\ request'[q] \in RequestRecords
    BY <2>1, <2>2 DEF RequestRecords
  <2>. QED BY <2>1, <2>3 DEF CreationOK
<1>4. request' \in [Requests -> RequestRecords]
  <2>1. DOMAIN request' = Requests /\ request' = [q \in Requests |-> request'[q]]
    BY DEF Write
  <2>2. \A q \in Requests : request'[q] \in RequestRecords
    BY <1>2, <1>3, PlainRequests
  <2>. QED BY <2>1, <2>2
<1>5. \A q \in Requests : CreationOK(request'[q], store')
  BY <1>2, <1>3, PlainRequests
<1>. QED BY <1>1, <1>2, <1>3, <1>4, <1>5 DEF StoreInv

\* A step of r that says nothing of closes.
OthersStay(r) == \A q \in Requests \ {r} : request'[q].at = request[q].at
Quietly(r) ==
  /\ UNCHANGED <<operations, alerts, failures>> /\ OthersStay(r)
  /\ request[r].at \notin {"alert", "answered"} /\ request'[r].at # "alert"

\* The writes to the store: of one follower, and never of one that is deleted.
OneWritten ==
  \/ store' = store
  \/ \E id \in Ids : /\ \A i \in Ids \ {id} : store'[i] = store[i]
                     /\ store[id] = Removed => store'[id] = Removed

\* A request begins.
LEMMA ReceiveStep ==
  ASSUME StoreInv, NEW r \in Requests, NEW stage \in {"byEmail", "find", "lookUp"},
         NEW ids \in SUBSET Ids, NEW change \in Updates, Receive(r, stage, ids, change),
         stage = "byEmail" => change \in [email: Emails, status: Statuses]
  PROVE  StoreInv' /\ Quietly(r) /\ OneWritten
<1>. DEFINE x == [at |-> stage, ids |-> ids, change |-> change, clean |-> TRUE]
<1>1. request[r].at = "new" /\ request' = [request EXCEPT ![r] = x]
      /\ UNCHANGED <<store, operations, alerts, failures>>
  BY DEF Receive
<1>2. x \in RequestRecords /\ CreationOK(x, store) /\ x.at = stage
  BY DEF RequestRecords, Stages, CreationOK
<1>. HIDE DEF x
<1>3. /\ request' \in [Requests -> RequestRecords] /\ request'[r] = x
      /\ \A q \in Requests \ {r} : request'[q] = request[q]
  BY <1>1, <1>2 DEF StoreInv
<1>4. StoreInv'
  BY <1>1, <1>2, <1>3, StoreStays DEF StoreInv
<1>5. request'[r].at # "alert" /\ OthersStay(r)
  BY <1>2, <1>3 DEF OthersStay
<1>. QED BY <1>1, <1>4, <1>5 DEF Quietly, OneWritten

\* The requests that begin.
LEMMA BeginStep ==
  ASSUME StoreInv, NEW r \in Requests,
         CreateFollower(r) \/ UpdateFollower(r) \/ DeleteFollower(r) \/ ManualClose(r)
  PROVE  StoreInv' /\ Quietly(r) /\ OneWritten
<1>1. CASE CreateFollower(r)
  <2>1. PICK e \in Emails, s \in Statuses : Receive(r, "byEmail", {}, [email |-> e, status |-> s])
    BY <1>1 DEF CreateFollower
  <2>2. [email |-> e, status |-> s] \in [email: Emails, status: Statuses]
        /\ [email |-> e, status |-> s] \in Updates
    BY DEF Updates
  <2>. QED BY <2>1, <2>2, ReceiveStep
<1>2. CASE UpdateFollower(r)
  BY <1>2, ReceiveStep DEF UpdateFollower
<1>3. CASE DeleteFollower(r)
  BY <1>3, ReceiveStep, PlainRequests DEF DeleteFollower
<1>4. CASE ManualClose(r)
  BY <1>4, ReceiveStep, PlainRequests DEF ManualClose
<1>. QED BY <1>1, <1>2, <1>3, <1>4

\* A request goes on without writing.
LEMMA MoveStep ==
  ASSUME StoreInv, NEW r \in Requests, NEW stage \in Stages, MoveTo(r, stage),
         store' = store, failures' \in 0..MaxFailures,
         stage \in {"byEmail", "insert"} => CreationOK([request[r] EXCEPT !.at = stage], store)
  PROVE  StoreInv' /\ request'[r].at = stage /\ OthersStay(r) /\ OneWritten
<1>1. /\ request' \in [Requests -> RequestRecords] /\ request'[r].at = stage
      /\ \A q \in Requests \ {r} : request'[q] = request[q]
      /\ stage # "answered" => request'[r].change = request[r].change
                               /\ request'[r].clean = request[r].clean
  BY Moving
<1>2. CreationOK(request'[r], store)
  <2>1. CASE stage \notin {"byEmail", "insert"}
    BY <1>1, <2>1 DEF CreationOK
  <2>2. CASE stage \in {"byEmail", "insert"}
    <3>. DEFINE x == [request[r] EXCEPT !.at = stage]
    <3>1. x.at = stage /\ x.change = request[r].change /\ x.clean = request[r].clean
      BY DEF StoreInv, RequestRecords
    <3>2. CreationOK(x, store)
      BY <2>2
    <3>. HIDE DEF x
    <3>. QED BY <1>1, <2>2, <3>1, <3>2 DEF CreationOK
  <2>. QED BY <2>1, <2>2
<1>3. StoreInv'
  BY <1>1, <1>2, StoreStays
<1>. QED BY <1>1, <1>3 DEF OthersStay, OneWritten

\* What a request looks up decides what comes next.
LEMMA FindStep ==
  ASSUME StoreInv, NEW r \in Requests, FindByEmail(r) \/ FindFollower(r) \/ LookUpFollower(r)
  PROVE  StoreInv' /\ Quietly(r) /\ OneWritten
<1>1. UNCHANGED <<store, operations, alerts, failures>> /\ failures' \in 0..MaxFailures
  BY DEF FindByEmail, FindFollower, LookUpFollower, StoreInv
<1>2. CASE FindByEmail(r)
  <2>1. /\ request[r].at = "byEmail"
        /\ \/ MoveTo(r, "answered")
           \/ MoveTo(r, "insert") /\ \A id \in Present : store[id].email # request[r].change.email
    BY <1>2 DEF FindByEmail
  <2>2. CASE MoveTo(r, "answered")
    BY <1>1, <2>1, <2>2, MoveStep DEF Quietly, Stages
  <2>3. CASE MoveTo(r, "insert") /\ \A id \in Present : store[id].email # request[r].change.email
    <3>1. CreationOK([request[r] EXCEPT !.at = "insert"], store)
      <4>1. request[r] \in RequestRecords /\ CreationOK(request[r], store)
        BY DEF StoreInv
      <4>2. request[r].at = "byEmail"
        BY <1>2 DEF FindByEmail
      <4>. QED BY <2>3, <4>1, <4>2 DEF CreationOK, RequestRecords, Present
    <3>2. request[r].at = "byEmail"
      BY <1>2 DEF FindByEmail
    <3>. QED BY <1>1, <2>3, <3>1, <3>2, MoveStep DEF Quietly, Stages
  <2>. QED BY <2>1, <2>2, <2>3
<1>3. CASE FindFollower(r)
  <2>1. request[r].at = "find" /\ \E stage \in {"answered", "delete", "update"} : MoveTo(r, stage)
    BY <1>3 DEF FindFollower
  <2>. QED BY <1>1, <2>1, MoveStep DEF Quietly, Stages
<1>4. CASE LookUpFollower(r)
  <2>1. request[r].at = "lookUp" /\ \E stage \in {"answered", "operation"} : MoveTo(r, stage)
    BY <1>4 DEF LookUpFollower
  <2>. QED BY <1>1, <2>1, MoveStep DEF Quietly, Stages
<1>. QED BY <1>2, <1>3, <1>4

\* What is updated is a follower.
LEMMA UpdatedFollower ==
  ASSUME NEW doc \in Followers, NEW change \in Updates
  PROVE  Updated(doc, change) \in Followers
<1>. DEFINE e == IF change.email = Keep THEN doc.email ELSE change.email
            s == IF change.status = Keep THEN doc.status ELSE change.status
<1>1. Updated(doc, change) = [email |-> e, status |-> s]
  BY DEF Updated
<1>2. e \in Emails /\ s \in Statuses \cup {"none"}
  BY DEF Followers, Updates
<1>. HIDE DEF e, s
<1>. QED BY <1>1, <1>2 DEF Followers

\* Insertions, updates and deletions.
LEMMA WriteStep ==
  ASSUME StoreInv, NEW r \in Requests, InsertFollower(r) \/ UpdateOne(r) \/ DeleteOne(r)
  PROVE  StoreInv' /\ Quietly(r) /\ OneWritten
<1>1. /\ request[r].at \in {"insert", "update", "delete"} /\ failures' = failures
      /\ UNCHANGED <<operations, alerts, failures>> /\ request[r] \in RequestRecords
  BY DEF InsertFollower, UpdateOne, DeleteOne, StoreInv
<1>2. ASSUME NEW id \in Ids, NEW doc \in Followers \cup {Removed}, Write(r, id, doc),
             store[id] = Removed => doc = Removed
      PROVE  StoreInv' /\ Quietly(r) /\ OneWritten
  <2>1. /\ StoreInv' /\ request'[r] = Answered /\ OthersStay(r)
        /\ \A i \in Ids \ {id} : store'[i] = store[i]
        /\ store'[id] = doc
    BY <1>1, <1>2, Writing DEF OthersStay
  <2>2. request'[r].at # "alert"
    BY <2>1, PlainRequests
  <2>. QED BY <1>1, <1>2, <2>1, <2>2 DEF Quietly, OneWritten
<1>3. CASE InsertFollower(r)
  <2>1. PICK id \in ObjectIds : store[id] = Absent /\ Write(r, id, request[r].change)
    BY <1>3 DEF InsertFollower
  <2>2. request[r].change \in Followers /\ id \in Ids /\ store[id] # Removed
    BY <1>3, <2>1, AdminAssumption DEF InsertFollower, StoreInv, CreationOK, Followers, Ids
  <2>. QED BY <1>2, <2>1, <2>2
<1>4. CASE UpdateOne(r)
  <2>1. PICK id \in request[r].ids :
          IF id \in Present THEN Write(r, id, Updated(store[id], request[r].change))
          ELSE MoveTo(r, "answered") /\ UNCHANGED store
    BY <1>4 DEF UpdateOne
  <2>2. CASE id \in Present
    <3>1. id \in Ids /\ store[id] \in Followers /\ store[id] # Removed /\ request[r].change \in Updates
      BY <1>1, <2>2 DEF Present, StoreInv, RequestRecords
    <3>2. Updated(store[id], request[r].change) \in Followers
      BY <3>1, UpdatedFollower
    <3>. QED BY <1>2, <2>1, <2>2, <3>1, <3>2
  <2>3. CASE id \notin Present
    <3>1. MoveTo(r, "answered") /\ store' = store /\ failures' \in 0..MaxFailures /\ "answered" \in Stages
      BY <1>1, <2>1, <2>3 DEF StoreInv, Stages
    <3>2. StoreInv' /\ request'[r].at = "answered" /\ OthersStay(r) /\ OneWritten
      BY <3>1, MoveStep
    <3>. QED BY <1>1, <3>2 DEF Quietly
  <2>. QED BY <2>2, <2>3
<1>5. CASE DeleteOne(r)
  <2>1. PICK id \in request[r].ids : Write(r, id, Removed)
    BY <1>5 DEF DeleteOne
  <2>. QED BY <1>1, <1>2, <2>1 DEF RequestRecords
<1>. QED BY <1>3, <1>4, <1>5

\* An operation, its alert, and the calls that raise.
LEMMA CloseStep ==
  ASSUME StoreInv, NEW r \in Requests, InsertOperation(r) \/ InsertAlert(r) \/ CallRaises(r)
  PROVE  StoreInv' /\ OneWritten /\ OthersStay(r)
         /\ \/ /\ request[r].at = "operation" /\ request'[r].at = "alert"
               /\ operations' = operations + 1 /\ alerts' = alerts /\ failures' = failures
            \/ /\ request[r].at = "alert" /\ request'[r].at = "answered"
               /\ operations' = operations /\ alerts' = alerts + 1 /\ failures' = failures
            \/ /\ request[r].at \notin {"new", "answered"} /\ request'[r].at = "answered"
               /\ alerts' = alerts /\ failures' = failures + 1
               /\ \/ operations' = operations
                  \/ request[r].at = "operation" /\ operations' = operations + 1
<1>1. "alert" \in Stages /\ "answered" \in Stages
  BY DEF Stages
<1>2. CASE InsertOperation(r)
  BY <1>1, <1>2, MoveStep DEF InsertOperation, StoreInv
<1>3. CASE InsertAlert(r)
  BY <1>1, <1>3, MoveStep DEF InsertAlert, StoreInv
<1>4. CASE CallRaises(r)
  <2>1. /\ request[r].at \notin {"new", "answered"} /\ MoveTo(r, "answered") /\ UNCHANGED <<store, alerts>>
        /\ failures < MaxFailures /\ failures' = failures + 1
        /\ \/ operations' = operations
           \/ request[r].at = "operation" /\ operations' = operations + 1
    BY <1>4 DEF CallRaises, UnderWay
  <2>2. failures' \in 0..MaxFailures
    BY <2>1, AdminAssumption DEF StoreInv
  <2>3. StoreInv' /\ request'[r].at = "answered" /\ OthersStay(r) /\ OneWritten
    BY <1>1, <2>1, <2>2, MoveStep
  <2>. QED BY <2>1, <2>3
<1>. QED BY <1>2, <1>3, <1>4

\* Every step of a request keeps the store and writes one follower at most.
LEMMA ServeStep == ASSUME StoreInv, NEW r \in Requests, Serve(r) PROVE StoreInv' /\ OneWritten
  BY BeginStep, FindStep, WriteStep, CloseStep DEF Serve

\* One more failure bounds one more round of requests.
LEMMA OneMoreFailure ==
  \A f, n \in Nat : /\ f * n \in Nat /\ (f + 1) * n = f * n + n
                    /\ \A x \in Int, y \in 0..n : x \in 0..(f * n) => x + y \in 0..((f + 1) * n)
<1>. SUFFICES ASSUME NEW f \in Nat, NEW n \in Nat
              PROVE  /\ f * n \in Nat /\ (f + 1) * n = f * n + n
                     /\ \A x \in Int, y \in 0..n : x \in 0..(f * n) => x + y \in 0..((f + 1) * n)
  OBVIOUS
<1>1. f * n \in Nat /\ (f + 1) * n = f * n + n
  OBVIOUS
<1>2. \A p, q \in Nat : q = p + n => \A x \in Int, y \in 0..n : x \in 0..p => x + y \in 0..q
  OBVIOUS
<1>3. (f + 1) * n \in Nat
  BY <1>1
<1>. QED BY <1>1, <1>2, <1>3

\* The counts of closes, against the requests on their way.
LEMMA ServeCounts ==
  ASSUME StoreInv, CountsInv, NEW r \in Requests, Serve(r)
  PROVE  CountsInv'
<1>. DEFINE A == Announcing(request)
            B == Announcing(request')
            P == PastClose(request)
            Q == PastClose(request')
            N == Cardinality(Requests)
<1>1. failures \in Nat /\ N \in Nat /\ Cardinality(A) \in Nat /\ Cardinality(P) \in Nat
      /\ IsFiniteSet(A) /\ IsFiniteSet(P) /\ N >= 1
  <2>1. {r} \subseteq Requests /\ A \subseteq Requests /\ P \subseteq Requests /\ Requests \subseteq Requests
    BY DEF Announcing, PastClose
  <2>2. Cardinality({r}) = 1
    BY FS_Singleton
  <2>3. /\ Cardinality({r}) <= N /\ N \in Nat /\ Cardinality(A) \in Nat /\ Cardinality(P) \in Nat
        /\ IsFiniteSet(A) /\ IsFiniteSet(P)
    BY <2>1, FiniteParts
  <2>4. failures \in Nat
    BY AdminAssumption DEF StoreInv
  <2>. HIDE DEF A, P, N
  <2>. QED BY <2>2, <2>3, <2>4
<1>2. ASSUME OthersStay(r)
      PROVE  /\ r \notin A /\ r \in B => Cardinality(B) = Cardinality(A) + 1
             /\ r \in A /\ r \notin B => Cardinality(A) = Cardinality(B) + 1
             /\ (r \in A <=> r \in B) => Cardinality(B) = Cardinality(A)
             /\ r \notin P /\ r \in Q => Cardinality(Q) = Cardinality(P) + 1
             /\ (r \in P <=> r \in Q) => Cardinality(Q) = Cardinality(P)
             /\ Cardinality(B) \in Nat /\ Cardinality(Q) \in Nat
  <2>1. \A q : q # r => ((q \in A <=> q \in B) /\ (q \in P <=> q \in Q))
    BY <1>2 DEF OthersStay, Announcing, PastClose
  <2>. HIDE DEF A, B, P, Q
  <2>. QED BY <1>1, <2>1, OneMoves
<1>3. /\ r \in A <=> request[r].at = "alert"
      /\ r \in B <=> request'[r].at = "alert"
      /\ r \in P <=> request[r].at \in {"alert", "answered"}
      /\ r \in Q <=> request'[r].at \in {"alert", "answered"}
  BY DEF Announcing, PastClose
<1>4. /\ operations \in Nat /\ alerts \in Nat /\ operations <= Cardinality(P)
      /\ operations - alerts - Cardinality(A) \in 0..failures * N
  BY DEF CountsInv
<1>5. CountsInv' <=> /\ operations' \in Nat /\ alerts' \in Nat /\ operations' <= Cardinality(Q)
                     /\ operations' - alerts' - Cardinality(B) \in 0..failures' * N
  BY DEF CountsInv
<1>6. failures * N \in Nat /\ \A x \in Int, y \in 0..N : x \in 0..(failures * N) => x + y \in 0..((failures + 1) * N)
  BY <1>1, OneMoreFailure
<1>7. CASE Quietly(r)
  <2>1. OthersStay(r) /\ r \notin A /\ r \notin B /\ r \notin P /\ UNCHANGED <<operations, alerts, failures>>
    BY <1>3, <1>7 DEF Quietly
  <2>2. Cardinality(B) = Cardinality(A) /\ Cardinality(Q) \in {Cardinality(P), Cardinality(P) + 1}
    BY <1>2, <2>1
  <2>. HIDE DEF A, B, P, Q, N
  <2>3. operations <= Cardinality(Q)
    BY <1>1, <1>4, <2>2
  <2>. QED BY <1>4, <1>5, <2>1, <2>2, <2>3
<1>8. CASE /\ OthersStay(r) /\ request[r].at = "operation" /\ request'[r].at = "alert"
           /\ operations' = operations + 1 /\ alerts' = alerts /\ failures' = failures
  <2>1. Cardinality(B) = Cardinality(A) + 1 /\ Cardinality(Q) = Cardinality(P) + 1
    BY <1>2, <1>3, <1>8
  <2>. HIDE DEF A, B, P, Q, N
  <2>2. operations' - alerts' - Cardinality(B) = operations - alerts - Cardinality(A)
        /\ operations' \in Nat /\ operations' <= Cardinality(Q)
    BY <1>1, <1>4, <1>8, <2>1
  <2>. QED BY <1>4, <1>5, <1>8, <2>2
<1>9. CASE /\ OthersStay(r) /\ request[r].at = "alert" /\ request'[r].at = "answered"
           /\ operations' = operations /\ alerts' = alerts + 1 /\ failures' = failures
  <2>1. Cardinality(A) = Cardinality(B) + 1 /\ Cardinality(Q) = Cardinality(P) /\ Cardinality(B) \in Nat
    BY <1>2, <1>3, <1>9
  <2>. HIDE DEF A, B, P, Q, N
  <2>2. operations' - alerts' - Cardinality(B) = operations - alerts - Cardinality(A)
        /\ operations' <= Cardinality(Q) /\ alerts' \in Nat
    BY <1>1, <1>4, <1>9, <2>1
  <2>. QED BY <1>4, <1>5, <1>9, <2>2
<1>10. CASE /\ OthersStay(r) /\ request[r].at \notin {"new", "answered"} /\ request'[r].at = "answered"
            /\ alerts' = alerts /\ failures' = failures + 1
            /\ \/ operations' = operations
               \/ request[r].at = "operation" /\ operations' = operations + 1
  <2>1. r \notin B /\ r \in Q
    BY <1>3, <1>10
  <2>2. PICK y \in {0, 1} : operations' - alerts' - Cardinality(B) = operations - alerts - Cardinality(A) + y
    <3>1. CASE r \in A
      <4>1. Cardinality(A) = Cardinality(B) + 1 /\ operations' = operations /\ Cardinality(B) \in Nat
        BY <1>2, <1>3, <1>10, <2>1, <3>1
      <4>. HIDE DEF A, B, P, Q, N
      <4>. QED BY <1>1, <1>4, <1>10, <4>1
    <3>2. CASE r \notin A
      <4>1. Cardinality(B) = Cardinality(A)
        BY <1>2, <1>10, <2>1, <3>2
      <4>. HIDE DEF A, B, P, Q, N
      <4>. QED BY <1>1, <1>4, <1>10, <4>1
    <3>. QED BY <3>1, <3>2
  <2>3. operations' \in Nat /\ operations' <= Cardinality(Q)
    <3>1. CASE request[r].at = "operation"
      <4>1. Cardinality(Q) = Cardinality(P) + 1
        BY <1>2, <1>3, <1>10, <2>1, <3>1
      <4>. HIDE DEF A, B, P, Q, N
      <4>. QED BY <1>1, <1>4, <1>10, <4>1
    <3>2. CASE request[r].at # "operation"
      <4>1. Cardinality(Q) \in {Cardinality(P), Cardinality(P) + 1}
        BY <1>2, <1>10, <2>1
      <4>. HIDE DEF A, B, P, Q, N
      <4>. QED BY <1>1, <1>4, <1>10, <3>2, <4>1
    <3>. QED BY <3>1, <3>2
  <2>. HIDE DEF A, B, P, Q, N
  <2>4. y \in 0..N /\ operations - alerts - Cardinality(A) \in Int
    BY <1>1, <1>4
  <2>5. operations' - alerts' - Cardinality(B) \in 0..failures' * N
    BY <1>4, <1>6, <1>10, <2>2, <2>4
  <2>. QED BY <1>4, <1>5, <1>10, <2>3, <2>5
<1>. QED BY <1>7, <1>8, <1>9, <1>10, BeginStep, FindStep, WriteStep, CloseStep DEF Serve

-----------------------------------------------------------------------------
(* The dashboards and the counts that are broadcast. *)

\* A write changes the number of followers by one at most.
LEMMA OneWrittenCounts ==
  ASSUME OneWritten
  PROVE  /\ Cardinality(PresentIn(store)) \in Nat /\ Cardinality(PresentIn(store')) \in Nat
         /\ Cardinality(PresentIn(store')) - Cardinality(PresentIn(store)) \in {-1, 0, 1}
<1>. DEFINE S == PresentIn(store)
            T == PresentIn(store')
<1>1. S \in SUBSET Ids /\ T \in SUBSET Ids
  BY DEF PresentIn
<1>2. IsFiniteSet(S) /\ Cardinality(S) \in Nat /\ Cardinality(T) \in Nat
  BY <1>1, FiniteParts
<1>3. ASSUME store' = store PROVE Cardinality(T) - Cardinality(S) \in {-1, 0, 1}
  <2>1. S = T
    BY <1>3
  <2>. HIDE DEF S, T
  <2>. QED BY <1>2, <2>1
<1>4. ASSUME NEW id \in Ids, \A i \in Ids \ {id} : store'[i] = store[i]
      PROVE  Cardinality(T) - Cardinality(S) \in {-1, 0, 1}
  <2>1. \A i : i # id => (i \in S <=> i \in T)
    BY <1>4 DEF PresentIn
  <2>. HIDE DEF S, T
  <2>2. \/ Cardinality(T) = Cardinality(S) + 1
        \/ Cardinality(S) = Cardinality(T) + 1
        \/ T = S
    BY <1>2, <2>1, OneMoves
  <2>. QED BY <1>2, <2>2
<1>. QED BY <1>2, <1>3, <1>4 DEF OneWritten

\* A request that writes is counted.
LEMMA ServeFeed ==
  ASSUME FeedInv, OneWritten, UNCHANGED connections,
         feed' = IF store' # store /\ feed.at = "countActive" THEN [feed EXCEPT !.writes = @ + 1] ELSE feed
  PROVE  FeedInv'
<1>. DEFINE c == Cardinality(PresentIn(store))
            d == Cardinality(PresentIn(store'))
            n == Cardinality(Ids)
<1>1. c \in Nat /\ d \in Nat /\ d - c \in {-1, 0, 1} /\ (store' = store => d = c)
  BY OneWrittenCounts
<1>2. CASE store' # store /\ feed.at = "countActive"
  <2>1. /\ feed' = [at |-> feed.at, total |-> feed.total, next |-> feed.next, size |-> feed.size,
                    inactive |-> feed.inactive, writes |-> feed.writes + 1]
        /\ feed.writes \in Nat /\ feed.total \in 0..n /\ feed.total - c \in -feed.writes..feed.writes
    BY <1>2 DEF FeedInv
  <2>2. feed.total \in Int
    <3>1. n \in Nat
      BY FiniteParts
    <3>. HIDE DEF n
    <3>. QED BY <2>1, <3>1
  <2>3. feed.writes + 1 \in Nat /\ feed.total - d \in -(feed.writes + 1)..(feed.writes + 1)
    <3>. HIDE DEF c, d
    <3>. QED BY <1>1, <2>1, <2>2
  <2>. QED BY <2>1, <2>3 DEF FeedInv
<1>3. CASE ~(store' # store /\ feed.at = "countActive")
  <2>1. feed' = feed /\ (feed.at = "countActive" => d = c)
    BY <1>1, <1>3
  <2>. QED BY <2>1 DEF FeedInv
<1>. QED BY <1>2, <1>3

\* A round that rests, or ends, claims nothing.
LEMMA RestingFeed == ASSUME feed' = Resting, connections' \in Seq(Sockets) PROVE FeedInv'
<1>1. Cardinality(Ids) \in Nat
  BY FiniteParts
<1>2. /\ Resting.at = "sleeping" /\ Resting.total = 0 /\ Resting.inactive = 0 /\ Resting.next = 1
      /\ Resting.size = 0 /\ Resting.writes = 0
      /\ Resting = [at |-> "sleeping", total |-> 0, inactive |-> 0, next |-> 1, size |-> 0, writes |-> 0]
  BY DEF Resting
<1>3. 0 \in 0..Cardinality(Ids) /\ 0 \in -Cardinality(Ids)..Cardinality(Ids) /\ "sleeping" \in FeedSteps
  BY <1>1 DEF FeedSteps
<1>4. Len(connections') \in Nat
  OBVIOUS
<1>. QED BY <1>2, <1>3, <1>4 DEF FeedInv

\* What the feed becomes.
LEMMA FeedBecomes ==
  ASSUME NEW x \in FeedSteps, NEW t \in 0..Cardinality(Ids),
         NEW i \in -Cardinality(Ids)..Cardinality(Ids), NEW k \in Nat \ {0}, NEW z \in Nat, NEW w \in Nat,
         feed' = [at |-> x, total |-> t, inactive |-> i, next |-> k, size |-> z, writes |-> w],
         z <= Len(connections'), k <= z + 1,
         x = "countActive" => t - Cardinality(PresentIn(store')) \in -w..w
  PROVE  FeedInv'
<1>1. /\ feed'.at = x /\ feed'.total = t /\ feed'.inactive = i /\ feed'.next = k
      /\ feed'.size = z /\ feed'.writes = w
  OBVIOUS
<1>2. feed' \in [at: FeedSteps, total: 0..Cardinality(Ids), next: Nat \ {0}, size: Nat,
                inactive: -Cardinality(Ids)..Cardinality(Ids), writes: Nat]
  OBVIOUS
<1>. QED BY <1>1, <1>2 DEF FeedInv

\* The steps of the feed.
LEMMA FeedStep ==
  ASSUME StoreInv, SocketsInv, FeedInv, Feed
  PROVE  FeedInv' /\ UNCHANGED <<storeVars, socket, connections>>
<1>. DEFINE n == Cardinality(Ids)
            p == Cardinality(Present)
            a == Cardinality(Active)
<1>1. UNCHANGED <<storeVars, socket, connections>>
  BY DEF Feed, WakeUp, CountAll, CountActive, SendUpdate, IterationEnds
<1>2. connections' \in Seq(Sockets) /\ store' = store
  BY <1>1 DEF SocketsInv, storeVars
<1>3. /\ n \in Nat /\ p \in 0..n /\ a \in 0..p
      /\ Present = PresentIn(store)
  <2>1. Present \in SUBSET Ids /\ Active \in SUBSET Ids /\ Active \subseteq Present /\ Ids \in SUBSET Ids
        /\ Present = PresentIn(store)
    BY DEF Present, Active, PresentIn
  <2>2. IsFiniteSet(Present) /\ p \in Nat /\ p <= n /\ n \in Nat /\ a \in Nat
    BY <2>1, FiniteParts
  <2>3. a <= p
    BY <2>1, <2>2, FS_Subset
  <2>. HIDE DEF n, p, a
  <2>. QED BY <2>1, <2>2, <2>3
<1>4. CASE WakeUp
  <2>1. feed' = [feed EXCEPT !.at = "countAll"]
    BY <1>4 DEF WakeUp
  <2>. QED BY <1>1, <1>2, <2>1 DEF FeedInv, FeedSteps
<1>5. CASE CountAll
  <2>1. feed' = [at |-> "countActive", total |-> p, inactive |-> 0, next |-> 1, size |-> 0, writes |-> 0]
    BY <1>5 DEF CountAll, Resting
  <2>2. p \in 0..n /\ 0 \in -n..n /\ p - p \in -0..0 /\ 0 <= Len(connections') /\ "countActive" \in FeedSteps
    <3>1. Len(connections') \in Nat
      BY <1>2
    <3>. HIDE DEF n, p
    <3>. QED BY <1>3, <3>1 DEF FeedSteps
  <2>3. Cardinality(PresentIn(store')) = p
    BY <1>2, <1>3
  <2>4. 1 \in Nat \ {0} /\ 0 \in Nat /\ 1 <= 0 + 1
    OBVIOUS
  <2>5. FeedInv'
    BY <2>1, <2>2, <2>3, <2>4, FeedBecomes
  <2>. QED BY <1>1, <2>5
<1>6. CASE CountActive
  <2>1. feed' = [at |-> "sending", total |-> 0, inactive |-> feed.total - a, next |-> 1,
                 size |-> Len(connections), writes |-> 0]
    BY <1>6 DEF CountActive, Resting
  <2>2. feed.total \in 0..n
    BY DEF FeedInv
  <2>3. 0 \in 0..n /\ feed.total - a \in -n..n /\ "sending" \in FeedSteps
    <3>. HIDE DEF n, p, a
    <3>. QED BY <1>3, <2>2 DEF FeedSteps
  <2>4. Len(connections) \in Nat /\ connections' = connections
    BY <1>1 DEF SocketsInv
  <2>5. Len(connections) <= Len(connections') /\ 1 <= Len(connections) + 1 /\ 1 \in Nat \ {0} /\ 0 \in Nat
    BY <2>4
  <2>6. FeedInv'
    BY <2>1, <2>3, <2>4, <2>5, FeedBecomes
  <2>. QED BY <1>1, <2>6
<1>7. CASE IterationEnds
  BY <1>2, <1>7, RestingFeed DEF IterationEnds, RoundRaises
<1>8. CASE SendUpdate
  <2>1. CASE RoundRaises
    <3>1. feed' = Resting
      BY <2>1 DEF RoundRaises
    <3>. QED BY <1>1, <1>2, <3>1, RestingFeed
  <2>2. CASE feed' = [feed EXCEPT !.next = @ + 1]
    <3>1. /\ feed.at = "sending" /\ feed.next <= feed.size /\ feed.next \in Nat \ {0} /\ feed.size \in Nat
      BY <1>8 DEF SendUpdate, FeedInv
    <3>2. feed.next + 1 \in Nat \ {0} /\ feed.next + 1 <= feed.size + 1
      BY <3>1
    <3>3. /\ feed' = [at |-> feed.at, total |-> feed.total, next |-> feed.next + 1, size |-> feed.size,
                      inactive |-> feed.inactive, writes |-> feed.writes]
      BY <2>2 DEF FeedInv
    <3>. QED BY <1>1, <3>1, <3>2, <3>3 DEF FeedInv
  <2>. QED BY <1>8, <2>1, <2>2 DEF SendUpdate
<1>. QED BY <1>1, <1>4, <1>5, <1>6, <1>7, <1>8 DEF Feed

\* A dashboard is stored once it is accepted.
LEMMA SocketStep ==
  ASSUME SocketsInv, FeedInv, NEW s \in Sockets,
         ValidToken(s) \/ Refused(s) \/ Accepted(s) \/ Leaves(s) \/ HandlerEnds(s)
  PROVE  SocketsInv' /\ FeedInv' /\ UNCHANGED storeVars
<1>1. UNCHANGED <<storeVars, feed>> /\ store' = store
  BY DEF ValidToken, Refused, Accepted, Leaves, HandlerEnds, storeVars
<1>2. PICK x \in SocketStates \ {"new"} : socket' = [socket EXCEPT ![s] = x]
  BY DEF ValidToken, Refused, Accepted, Leaves, HandlerEnds, SocketStates
<1>. DEFINE S == Met(socket)
            T == Met(socket')
<1>3. socket' \in [Sockets -> SocketStates] /\ \A t : t # s => (t \in S <=> t \in T)
  BY <1>2 DEF SocketsInv, Met
<1>4. IsFiniteSet(S) /\ Cardinality(S) \in Nat /\ Len(connections) \in Nat /\ Len(connections) <= Cardinality(S)
  <2>1. S \in SUBSET Sockets
    BY DEF Met
  <2>. QED BY <2>1, FiniteParts DEF SocketsInv
<1>5. /\ Cardinality(T) \in Nat
      /\ s \notin S /\ s \in T => Cardinality(T) = Cardinality(S) + 1
      /\ (s \in S <=> s \in T) => Cardinality(T) = Cardinality(S)
  <2>1. IsFiniteSet(S) /\ \A t : t # s => (t \in S <=> t \in T)
    BY <1>3, <1>4
  <2>. HIDE DEF S, T
  <2>2. Cardinality(T) \in Nat /\ (s \notin S /\ s \in T => Cardinality(T) = Cardinality(S) + 1)
        /\ ((s \in S <=> s \in T) => T = S)
    BY <2>1, OneMoves
  <2>. QED BY <2>2
<1>6. s \in S => s \in T
  BY <1>2 DEF SocketsInv, Met, ValidToken, Refused, Accepted, Leaves, HandlerEnds
<1>7. CASE connections' = connections
  <2>1. Len(connections) <= Cardinality(T)
    <3>. HIDE DEF S, T
    <3>. QED BY <1>4, <1>5, <1>6
  <2>. QED BY <1>1, <1>3, <1>7, <2>1 DEF SocketsInv, FeedInv
<1>8. CASE Accepted(s)
  <2>1. connections' = Append(connections, s) /\ s \notin S /\ s \in T
    BY <1>8 DEF Accepted, Met, SocketsInv
  <2>2. connections' \in Seq(Sockets) /\ Len(connections') = Len(connections) + 1
    BY <2>1 DEF SocketsInv
  <2>3. Len(connections') <= Cardinality(T)
    <3>. HIDE DEF S, T
    <3>. QED BY <1>4, <1>5, <2>1, <2>2
  <2>4. feed.size <= Len(connections')
    <3>1. feed.size \in Nat /\ feed.size <= Len(connections)
      BY DEF FeedInv
    <3>. QED BY <1>4, <2>2, <3>1
  <2>. QED BY <1>1, <1>3, <2>2, <2>3, <2>4 DEF SocketsInv, FeedInv
<1>. QED BY <1>7, <1>8, <1>1 DEF ValidToken, Refused, Leaves, HandlerEnds

-----------------------------------------------------------------------------
(* The process as a whole. *)

\* At first nothing is under way.
LEMMA InitAdmin == AdminInit => AdminInv
<1>. SUFFICES ASSUME AdminInit PROVE AdminInv
  OBVIOUS
<1>1. StoreInv
  <2>1. request \in [Requests -> RequestRecords]
    BY PlainRequests DEF AdminInit, InitStore
  <2>2. \A r \in Requests : CreationOK(request[r], store)
    <3>. SUFFICES ASSUME NEW r \in Requests PROVE CreationOK(request[r], store)
      OBVIOUS
    <3>1. request[r] = NewRequest \/ request[r] = Answered
      BY DEF AdminInit, InitStore
    <3>. QED BY <3>1, PlainRequests
  <2>. QED BY <2>1, <2>2, AdminAssumption DEF AdminInit, InitStore, StoreInv
<1>2. CountsInv
  <2>1. Announcing(request) = {}
    BY PlainRequests DEF AdminInit, InitStore, Announcing
  <2>2. PastClose(request) \in SUBSET Requests /\ Requests \in SUBSET Requests
    BY DEF PastClose
  <2>3. Cardinality(PastClose(request)) \in Nat /\ Cardinality(Requests) \in Nat
    BY <2>2, FiniteParts
  <2>4. Cardinality({}) = 0 /\ operations = 0 /\ alerts = 0 /\ failures = 0
    BY FS_EmptySet DEF AdminInit, InitStore
  <2>5. 0 - 0 - 0 \in 0..0 * Cardinality(Requests)
    BY <2>3
  <2>. QED BY <2>1, <2>3, <2>4, <2>5 DEF CountsInv
<1>3. SocketsInv
  <2>1. socket \in [Sockets -> SocketStates] /\ connections = <<>> /\ <<>> \in Seq(Sockets) /\ Len(<<>>) = 0
    BY DEF AdminInit, SocketStates
  <2>2. Met(socket) \in SUBSET Sockets
    BY DEF Met
  <2>3. Cardinality(Met(socket)) \in Nat
    BY <2>2, FiniteParts
  <2>. QED BY <2>1, <2>3 DEF SocketsInv
<1>4. FeedInv
  <2>1. Cardinality(Ids) \in Nat /\ connections = <<>> /\ Len(<<>>) = 0
    BY FiniteParts DEF AdminInit
  <2>2. feed = [at |-> "sleeping", total |-> 0, inactive |-> 0, next |-> 1, size |-> 0, writes |-> 0]
    BY DEF AdminInit, Resting
  <2>3. 0 \in 0..Cardinality(Ids) /\ 0 \in -Cardinality(Ids)..Cardinality(Ids) /\ "sleeping" \in FeedSteps
    BY <2>1 DEF FeedSteps
  <2>. QED BY <2>1, <2>2, <2>3 DEF FeedInv
<1>. QED BY <1>1, <1>2, <1>3, <1>4 DEF AdminInv

\* A restart drops the requests: at most one alert each is lost.
LEMMA RestartStep ==
  ASSUME AdminInv, AdminRestart
  PROVE  AdminInv' /\ store' = store
<1>1. /\ failures < MaxFailures /\ failures' = failures + 1 /\ UNCHANGED <<store, operations, alerts>>
      /\ request' = [r \in Requests |-> IF r \in UnderWay THEN Answered ELSE request[r]]
      /\ connections' = <<>> /\ feed' = Resting
      /\ socket' = [s \in Sockets |-> IF socket[s] = "new" THEN "new" ELSE "closed"]
  BY DEF AdminRestart, DropRequests
<1>2. StoreInv'
  <2>1. \A r \in Requests : request'[r] \in RequestRecords /\ CreationOK(request'[r], store)
    BY <1>1, PlainRequests DEF AdminInv, StoreInv
  <2>2. request' \in [Requests -> RequestRecords]
    BY <1>1, PlainRequests DEF AdminInv, StoreInv
  <2>3. failures' \in 0..MaxFailures
    BY <1>1, AdminAssumption DEF AdminInv, StoreInv
  <2>. QED BY <1>1, <2>1, <2>2, <2>3 DEF AdminInv, StoreInv
<1>3. CountsInv'
  <2>. DEFINE A == Announcing(request)
              P == PastClose(request)
              Q == PastClose(request')
              N == Cardinality(Requests)
  <2>1. Announcing(request') = {} /\ P \subseteq Q
    BY <1>1, PlainRequests DEF Announcing, PastClose, UnderWay
  <2>2. A \in SUBSET Requests /\ P \in SUBSET Requests /\ Q \in SUBSET Requests /\ Requests \in SUBSET Requests
    BY DEF Announcing, PastClose
  <2>3. /\ Cardinality(A) \in 0..N /\ Cardinality(P) \in Nat /\ Cardinality(Q) \in Nat /\ N \in Nat
        /\ Cardinality(P) <= Cardinality(Q) /\ Cardinality({}) = 0
    <3>1. /\ Cardinality(A) \in Nat /\ Cardinality(A) <= N /\ N \in Nat /\ Cardinality(P) \in Nat
          /\ Cardinality(Q) \in Nat /\ IsFiniteSet(Q)
      BY <2>2, FiniteParts
    <3>2. Cardinality(P) <= Cardinality(Q)
      <4>. HIDE DEF P, Q
      <4>. QED BY <2>1, <3>1, FS_Subset
    <3>. HIDE DEF A, P, Q, N
    <3>. QED BY <3>1, <3>2, FS_EmptySet
  <2>4. /\ operations \in Nat /\ alerts \in Nat /\ operations <= Cardinality(P) /\ failures \in Nat
        /\ operations - alerts - Cardinality(A) \in 0..failures * N
    BY AdminAssumption DEF AdminInv, CountsInv, StoreInv
  <2>5. CountsInv' <=> /\ operations' \in Nat /\ alerts' \in Nat /\ operations' <= Cardinality(Q)
                       /\ operations' - alerts' - Cardinality(Announcing(request')) \in 0..failures' * N
    BY DEF CountsInv
  <2>. HIDE DEF A, P, Q, N
  <2>6. operations - alerts - Cardinality(A) \in Int
        /\ operations - alerts - 0 = (operations - alerts - Cardinality(A)) + Cardinality(A)
        /\ operations <= Cardinality(Q)
    BY <2>3, <2>4
  <2>7. operations - alerts - 0 \in 0..(failures + 1) * N
    BY <2>3, <2>4, <2>6, OneMoreFailure
  <2>. QED BY <1>1, <2>1, <2>3, <2>4, <2>5, <2>6, <2>7
<1>4. SocketsInv'
  <2>1. socket' \in [Sockets -> SocketStates] /\ connections' \in Seq(Sockets) /\ Len(connections') = 0
    BY <1>1 DEF SocketStates
  <2>2. Met(socket') \in SUBSET Sockets
    BY DEF Met
  <2>3. Cardinality(Met(socket')) \in Nat
    BY <2>2, FiniteParts
  <2>. QED BY <2>1, <2>3 DEF SocketsInv
<1>5. FeedInv'
  <2>1. connections' \in Seq(Sockets)
    BY <1>1
  <2>. QED BY <1>1, <2>1, RestingFeed
<1>. QED BY <1>1, <1>2, <1>3, <1>4, <1>5 DEF AdminInv

\* A count that raises is one more failure.
LEMMA CountRaisesStep ==
  ASSUME AdminInv, CountRaises
  PROVE  AdminInv' /\ store' = store
<1>1. /\ failures < MaxFailures /\ failures' = failures + 1 /\ feed' = Resting
      /\ UNCHANGED <<store, operations, alerts, request, socket, connections>>
  BY DEF CountRaises, RoundRaises
<1>2. StoreInv'
  <2>1. failures' \in 0..MaxFailures
    BY <1>1, AdminAssumption DEF AdminInv, StoreInv
  <2>. QED BY <1>1, <2>1 DEF AdminInv, StoreInv
<1>3. CountsInv'
  <2>. DEFINE x == operations - alerts - Cardinality(Announcing(request))
              N == Cardinality(Requests)
  <2>1. N \in Nat /\ failures \in Nat /\ x \in 0..failures * N /\ Cardinality(Announcing(request)) \in Nat
    <3>1. Announcing(request) \in SUBSET Requests /\ Requests \in SUBSET Requests
      BY DEF Announcing
    <3>. QED BY <3>1, FiniteParts, AdminAssumption DEF AdminInv, CountsInv, StoreInv
  <2>2. x \in Int
    BY <2>1 DEF AdminInv, CountsInv
  <2>. HIDE DEF x, N
  <2>3. 0 \in 0..N /\ x + 0 = x
    BY <2>1, <2>2
  <2>4. x \in 0..(failures + 1) * N
    BY <2>1, <2>2, <2>3, OneMoreFailure
  <2>. QED BY <1>1, <2>4 DEF AdminInv, CountsInv, x, N
<1>4. SocketsInv' /\ FeedInv'
  <2>1. connections' \in Seq(Sockets)
    BY <1>1 DEF AdminInv, SocketsInv
  <2>. QED BY <1>1, <2>1, RestingFeed DEF AdminInv, SocketsInv
<1>. QED BY <1>1, <1>2, <1>3, <1>4 DEF AdminInv

\* Every step keeps the invariant, and writes one follower at most.
LEMMA AdminStep == ASSUME AdminInv, [AdminNext]_adminVars PROVE AdminInv' /\ OneWritten
<1>1. ASSUME NEW r \in Requests, ServeRequest(r) PROVE AdminInv' /\ OneWritten
  <2>1. Serve(r) /\ UNCHANGED <<socket, connections>>
        /\ feed' = IF store' # store /\ feed.at = "countActive" THEN [feed EXCEPT !.writes = @ + 1] ELSE feed
    BY <1>1 DEF ServeRequest
  <2>2. StoreInv' /\ OneWritten /\ CountsInv'
    BY <2>1, ServeStep, ServeCounts DEF AdminInv
  <2>3. FeedInv'
    BY <2>1, <2>2, ServeFeed DEF AdminInv
  <2>. QED BY <2>1, <2>2, <2>3 DEF AdminInv, SocketsInv
<1>2. ASSUME UNCHANGED storeVars PROVE StoreInv' /\ CountsInv' /\ OneWritten
  BY <1>2 DEF storeVars, AdminInv, StoreInv, CountsInv, OneWritten
<1>3. ASSUME NEW s \in Sockets, ValidToken(s) \/ Refused(s) \/ Accepted(s) \/ Leaves(s) \/ HandlerEnds(s)
      PROVE  AdminInv' /\ OneWritten
  BY <1>2, <1>3, SocketStep DEF AdminInv
<1>4. CASE Feed
  <2>1. FeedInv' /\ UNCHANGED <<storeVars, socket, connections>>
    BY <1>4, FeedStep DEF AdminInv
  <2>. QED BY <1>2, <2>1 DEF AdminInv, SocketsInv
<1>5. CASE CountRaises
  BY <1>5, CountRaisesStep DEF OneWritten
<1>6. CASE AdminRestart
  BY <1>6, RestartStep DEF OneWritten
<1>7. CASE UNCHANGED adminVars
  <2>1. UNCHANGED storeVars /\ UNCHANGED <<store, socket, connections, feed>>
    BY <1>7 DEF adminVars, storeVars
  <2>. QED BY <1>2, <2>1 DEF AdminInv, SocketsInv, FeedInv
<1>. QED BY <1>1, <1>3, <1>4, <1>5, <1>6, <1>7 DEF AdminNext

\* The invariant holds throughout.
LEMMA AdminInvariance == AdminSpec => []AdminInv
<1>1. AdminInv /\ [AdminNext]_adminVars => AdminInv'
  BY AdminStep
<1>. QED BY InitAdmin, <1>1, PTL DEF AdminSpec

\* Types, and every manual close is announced by its alert or about to be, but for those that
\* a failed call or a restart cut short.
THEOREM ClosesAreAnnounced == AdminSpec => []OperationsInv
<1>1. AdminInv => OperationsInv
  <2>. SUFFICES ASSUME AdminInv PROVE OperationsInv
    OBVIOUS
  <2>. DEFINE N == Cardinality(Requests)
              a == Cardinality(Announcing(request))
  <2>1. /\ operations \in Nat /\ alerts \in Nat /\ operations <= Cardinality(PastClose(request))
        /\ operations - alerts - a \in 0..failures * N
    BY DEF AdminInv, CountsInv
  <2>2. a \in Nat /\ N \in Nat /\ Cardinality(PastClose(request)) \in Nat
        /\ Cardinality(PastClose(request)) <= N
    <3>1. /\ PastClose(request) \in SUBSET Requests /\ Announcing(request) \in SUBSET Requests
          /\ Requests \in SUBSET Requests
      BY DEF PastClose, Announcing
    <3>. QED BY <3>1, FiniteParts
  <2>3. OperationsAreAnnounced
    BY <2>1 DEF OperationsAreAnnounced, Announcing
  <2>4. operations \in 0..N /\ alerts \in 0..N
    <3>. HIDE DEF a, N
    <3>. QED BY <2>1, <2>2
  <2>5. \E n \in 0..Cardinality(Sockets) : connections \in [1..n -> Sockets]
    <3>1. Met(socket) \in SUBSET Sockets
      BY DEF Met
    <3>2. /\ Cardinality(Met(socket)) \in Nat /\ Cardinality(Met(socket)) <= Cardinality(Sockets)
          /\ Cardinality(Sockets) \in Nat
      BY <3>1, FiniteParts
    <3>3. connections \in Seq(Sockets) /\ Len(connections) <= Cardinality(Met(socket))
      BY DEF AdminInv, SocketsInv
    <3>4. Len(connections) \in Nat /\ connections \in [1..Len(connections) -> Sockets]
      BY <3>3
    <3>5. Len(connections) \in 0..Cardinality(Sockets)
      BY <3>2, <3>3, <3>4
    <3>. QED BY <3>4, <3>5
  <2>6. /\ feed.at \in FeedSteps /\ {feed.total, feed.inactive} \subseteq -Cardinality(Ids)..Cardinality(Ids)
        /\ feed.size \in 0..Len(connections) /\ feed.next \in 1..feed.size + 1
    <3>1. Cardinality(Ids) \in Nat /\ Len(connections) \in Nat
      BY FiniteParts DEF AdminInv, SocketsInv
    <3>2. /\ feed.at \in FeedSteps /\ feed.total \in 0..Cardinality(Ids)
          /\ feed.inactive \in -Cardinality(Ids)..Cardinality(Ids)
          /\ feed.next \in Nat \ {0} /\ feed.size \in Nat
          /\ feed.size <= Len(connections) /\ feed.next <= feed.size + 1
      BY DEF AdminInv, FeedInv
    <3>3. feed.total \in -Cardinality(Ids)..Cardinality(Ids)
      BY <3>1, <3>2
    <3>. QED BY <3>1, <3>2, <3>3
  <2>7. AdminTypeOK
    BY <2>4, <2>5, <2>6 DEF AdminInv, StoreInv, SocketsInv, RequestRecords, AdminTypeOK
  <2>. QED BY <2>3, <2>7 DEF OperationsInv
<1>. QED BY <1>1, AdminInvariance, PTL

\* The followers that are not active are those present less the active ones.
LEMMA InactiveCount ==
  Cardinality({id \in Present : store[id].status # "active"}) = Cardinality(Present) - Cardinality(Active)
<1>. DEFINE I == {id \in Present : store[id].status # "active"}
<1>1. Present \in SUBSET Ids /\ Active \subseteq Present /\ I = Present \ Active
      /\ Present \cap Active = Active
  BY DEF Present, Active
<1>2. IsFiniteSet(Present)
  BY <1>1, FiniteParts
<1>3. Cardinality(Present \ Active) = Cardinality(Present) - Cardinality(Present \cap Active)
  BY <1>2, FS_Difference
<1>. QED BY <1>1, <1>3

\* Requests that overlap do no more than the write between two calls explains: an email doubles
\* only by a race, a deleted follower stays deleted, and the number that is broadcast is off by
\* no more than what was written between its counts.
THEOREM OverlapExplained == AdminSpec => OverlapIsExplained
<1>. DEFINE D == \A r \in Requests : request[r].at = "insert" /\ store' # store /\ request'[r].at = "answered" =>
                   \/ ~request[r].clean
                   \/ \A id \in Present : store[id].email # request[r].change.email
            R == \A id \in Ids : store[id] = Removed => store'[id] = Removed
            C == feed.at = "countActive" /\ feed'.at = "sending" =>
                   Near(feed'.inactive, feed.writes)
<1>1. AdminInv /\ [AdminNext]_adminVars => [D]_adminVars
  BY DEF AdminInv, StoreInv, CreationOK, Present
<1>2. AdminInv /\ [AdminNext]_adminVars => [R]_adminVars
  <2>. SUFFICES ASSUME AdminInv, [AdminNext]_adminVars PROVE R
    OBVIOUS
  <2>1. OneWritten
    BY AdminStep
  <2>. QED BY <2>1 DEF OneWritten
<1>3. AdminInv /\ [AdminNext]_adminVars => [C]_adminVars
  <2>. SUFFICES ASSUME AdminInv, AdminNext, feed.at = "countActive", feed'.at = "sending"
                PROVE  Near(feed'.inactive, feed.writes)
    OBVIOUS
  <2>1. CountActive
    <3>1. feed' # feed /\ feed'.at # feed.at
      OBVIOUS
    <3>2. ~\E r \in Requests : ServeRequest(r)
      <4>. SUFFICES ASSUME NEW r \in Requests, ServeRequest(r) PROVE FALSE
        OBVIOUS
      <4>1. feed' = [feed EXCEPT !.writes = @ + 1] \/ feed' = feed
        BY DEF ServeRequest
      <4>. QED BY <3>1, <4>1 DEF AdminInv, FeedInv
    <3>3. ~\E s \in Sockets : ValidToken(s) \/ Refused(s) \/ Accepted(s) \/ Leaves(s) \/ HandlerEnds(s)
      BY <3>1 DEF ValidToken, Refused, Accepted, Leaves, HandlerEnds
    <3>4. feed' # Resting
      BY DEF Resting
    <3>. QED BY <3>1, <3>2, <3>3, <3>4 DEF AdminNext, Feed, WakeUp, CountAll, SendUpdate, IterationEnds,
                                          CountRaises, RoundRaises, AdminRestart
  <2>2. feed'.inactive = feed.total - Cardinality(Active)
    BY <2>1 DEF CountActive, Resting
  <2>. DEFINE p == Cardinality(Present)
              a == Cardinality(Active)
              i == Cardinality({id \in Present : store[id].status # "active"})
  <2>3. /\ feed.total \in 0..Cardinality(Ids) /\ feed.writes \in Nat
        /\ feed.total - p \in -feed.writes..feed.writes
    BY DEF AdminInv, FeedInv, PresentIn, Present
  <2>4. p \in Nat /\ a \in Nat /\ Cardinality(Ids) \in Nat
    <3>1. Present \in SUBSET Ids /\ Active \in SUBSET Ids /\ Ids \in SUBSET Ids
      BY DEF Present, Active
    <3>. QED BY <3>1, FiniteParts
  <2>5. i = p - a
    BY InactiveCount
  <2>6. feed.total \in Int
    BY <2>3, <2>4
  <2>. HIDE DEF p, a, i
  <2>7. (feed.total - a) - (p - a) = feed.total - p
    BY <2>4, <2>6
  <2>. QED BY <2>2, <2>3, <2>5, <2>7 DEF a, i, Near
<1>4. AdminSpec => [][D]_adminVars
  <2>. HIDE DEF D
  <2>. QED BY <1>1, AdminInvariance, PTL DEF AdminSpec
<1>5. AdminSpec => [][R]_adminVars
  <2>. HIDE DEF R
  <2>. QED BY <1>2, AdminInvariance, PTL DEF AdminSpec
<1>6. AdminSpec => [][C]_adminVars
  <2>. HIDE DEF C
  <2>. QED BY <1>3, AdminInvariance, PTL DEF AdminSpec
<1>7. AdminSpec => DuplicateOnlyByRace
  BY <1>4 DEF DuplicateOnlyByRace
<1>8. AdminSpec => RemovedStays
  BY <1>5 DEF RemovedStays
<1>9. AdminSpec => InactiveIsRight
  BY <1>6 DEF InactiveIsRight
<1>. QED BY <1>7, <1>8, <1>9 DEF OverlapIsExplained

=============================================================================
