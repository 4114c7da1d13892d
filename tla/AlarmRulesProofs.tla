-------------------------- MODULE AlarmRulesProofs --------------------------
(* The rules of a product in Redis agree with the table, for any rules,    *)
(* products, requests and restarts.                                        *)
EXTENDS AlarmRules, TLAPS

USE RulesAssumption, ProductsAssumption, PlacesAssumption, RestartsAssumption

(* The rows of a product are rows, one for each rule. *)
LEMMA RowsAreRows ==
  ASSUME NEW p
  PROVE  /\ RowsOf(p) \subseteq Row
         /\ \A x, y \in RowsOf(p) : x.id = y.id => x = y
  <1> DEFINE TheRow(r) == [id |-> r, on |-> status[r] = "on"]
  <1>1. \A r \in Rules : TheRow(r) \in Row /\ TheRow(r).id = r
    BY DEF Row
  <1>2. \A x \in RowsOf(p) : \E r \in Rules : x = TheRow(r)
    BY DEF RowsOf, InProduct
  <1> HIDE DEF TheRow
  <1>3. QED  BY <1>1, <1>2

(* A request in flight has one of three forms; what each form gives. *)
LEMMA Forms ==
  ASSUME AlarmTypeOK, NEW q \in Requests
  PROVE  /\ req[q].pc = "idle" => req[q] = Idle
         /\ req[q].pc \in Ops => req[q] \in Change
         /\ req[q].pc \in Pending => req[q] \in Refresh
         /\ req[q].pc \in {"idle"} \cup Ops \cup Pending
         /\ InFlight(q) => req[q].product \in Products
         /\ req[q].alone \in BOOLEAN
  <1>1. req[q] \in Change \cup Refresh \cup {Idle}
    BY DEF AlarmTypeOK
  <1>2. CASE req[q] \in Change
    BY <1>2 DEF Change, Ops, Pending, InFlight
  <1>3. CASE req[q] \in Refresh
    BY <1>3 DEF Refresh, Ops, Pending, InFlight
  <1>4. CASE req[q] = Idle
    BY <1>4 DEF Idle, Ops, Pending, InFlight
  <1>5. QED  BY <1>1, <1>2, <1>3, <1>4

(* Beginning a change gives the request that change, and touches of the    *)
(* other requests nothing but their being alone. *)
LEMMA BeginShape ==
  ASSUME AlarmTypeOK, NEW q \in Requests, NEW change, NEW P, Begin(q, change, P),
         change \in Change \cup Refresh
  PROVE  /\ req' \in [Requests -> Change \cup Refresh \cup {Idle}]
         /\ req'[q].pc = change.pc /\ req'[q].rule = change.rule
         /\ req'[q].product = change.product /\ req'[q].to = change.to
         /\ req'[q].rows = change.rows
         /\ req'[q].alone => Others(q, P) = {}
         /\ \A y \in Requests \ {q} :
              /\ req'[y].pc = req[y].pc /\ req'[y].rule = req[y].rule
              /\ req'[y].product = req[y].product /\ req'[y].to = req[y].to
              /\ req'[y].rows = req[y].rows
              /\ req'[y].alone => req[y].alone
              /\ InFlight(y) /\ req'[y].alone => y \notin Others(q, P)
  <1> DEFINE New(y) == IF y = q THEN [change EXCEPT !.alone = Others(q, P) = {}]
                       ELSE IF y \in Others(q, P) THEN [req[y] EXCEPT !.alone = FALSE]
                       ELSE req[y]
  <1>1. req' = [y \in Requests |-> New(y)]
    BY DEF Begin
  <1>2. New(q) \in Change \cup Refresh
    BY DEF Change, Refresh
  <1>3. ASSUME NEW y \in Requests, y # q
        PROVE  /\ New(y) \in Change \cup Refresh \cup {Idle}
               /\ New(y).pc = req[y].pc /\ New(y).rule = req[y].rule
               /\ New(y).product = req[y].product /\ New(y).to = req[y].to
               /\ New(y).rows = req[y].rows
               /\ New(y).alone => req[y].alone
               /\ InFlight(y) /\ New(y).alone => y \notin Others(q, P)
    <2>1. CASE req[y] \in Change
      BY <1>3, <2>1 DEF Change
    <2>2. CASE req[y] \in Refresh
      BY <1>3, <2>2 DEF Refresh
    <2>3. CASE req[y] = Idle
      <3>1. y \notin Others(q, P) /\ ~InFlight(y)
        BY <2>3 DEF Others, Touches, Idle, InFlight, Ops
      <3>2. New(y) = Idle
        BY <1>3, <2>3, <3>1
      <3> HIDE DEF New
      <3>3. QED  BY <2>3, <3>1, <3>2 DEF Idle
    <2>4. QED  BY <2>1, <2>2, <2>3 DEF AlarmTypeOK
  <1>4. /\ New(q).pc = change.pc /\ New(q).rule = change.rule
        /\ New(q).product = change.product /\ New(q).to = change.to
        /\ New(q).rows = change.rows
        /\ New(q).alone => Others(q, P) = {}
    BY DEF Change, Refresh
  <1> HIDE DEF New
  <1>5. QED  BY <1>1, <1>2, <1>3, <1>4

(* An UPDATE, and the end of a request, concern that request alone. *)
LEMMA UpdateShape ==
  ASSUME AlarmTypeOK, NEW q \in Requests, NEW op \in Ops, Update(q, op)
  PROVE  /\ req' \in [Requests -> Change \cup Refresh \cup {Idle}]
         /\ req[q] \in Change /\ req[q].pc = op
         /\ req'[q] = Refreshes(req[q].product, req[q].alone)
         /\ req'[q] \in Refresh
         /\ \A y \in Requests \ {q} : req'[y] = req[y]
  <1>1. req[q] \in Change /\ req[q].pc = op
    BY Forms DEF Update
  <1>2. Refreshes(req[q].product, req[q].alone) \in Refresh
    BY <1>1 DEF Refreshes, Refresh, Change, Pending
  <1>3. QED  BY <1>1, <1>2 DEF Update, AlarmTypeOK

LEMMA EndShape ==
  ASSUME AlarmTypeOK, NEW q \in Requests, Ends(q)
  PROVE  /\ req' \in [Requests -> Change \cup Refresh \cup {Idle}]
         /\ req'[q] = Idle
         /\ \A y \in Requests \ {q} : req'[y] = req[y]
  BY DEF Ends, AlarmTypeOK

(* Listing, when there are rows. *)
LEMMA ListShape ==
  ASSUME AlarmTypeOK, NEW q \in Requests, NEW rows \in SUBSET Row, req[q].pc = "list",
         req' = [req EXCEPT ![q].pc = "set", ![q].rows = rows]
  PROVE  /\ req' \in [Requests -> Change \cup Refresh \cup {Idle}]
         /\ req[q] \in Refresh
         /\ req'[q].pc = "set" /\ req'[q].rows = rows
         /\ req'[q].product = req[q].product /\ req'[q].alone = req[q].alone
         /\ \A y \in Requests \ {q} : req'[y] = req[y]
  <1>1. req[q] \in Refresh
    BY Forms DEF Pending
  <1> DEFINE new == [req[q] EXCEPT !.pc = "set", !.rows = rows]
  <1>2. /\ new \in Refresh /\ new.pc = "set" /\ new.rows = rows
        /\ new.product = req[q].product /\ new.alone = req[q].alone
    BY <1>1 DEF Refresh, Pending
  <1>3. req' = [req EXCEPT ![q] = new]
    BY DEF AlarmTypeOK
  <1> HIDE DEF new
  <1>4. QED  BY <1>1, <1>2, <1>3 DEF AlarmTypeOK

-----------------------------------------------------------------------------
(* The types. *)

LEMMA RestTyped ==
  ASSUME AlarmTypeOK, req' \in [Requests -> Change \cup Refresh \cup {Idle}],
         \A q \in Requests : \/ req'[q].rows = req[q].rows
                             \/ \A x, y \in req'[q].rows : x.id = y.id => x = y,
         status' \in [Rules -> {"absent", "off", "on", "deleted"}],
         productOf' \in [Rules -> Products \cup {NoProduct}],
         \A r \in Rules : status'[r] # "absent" => productOf'[r] \in Products,
         \A q \in Requests : req'[q].pc \in Ops => status'[req'[q].rule] # "absent",
         UNCHANGED <<cached, restarts>>, dirty' \subseteq Products
  PROVE  AlarmTypeOK'
  BY DEF AlarmTypeOK

LEMMA AddTyped ==
  ASSUME AlarmTypeOK, NEW q \in Requests, NEW r \in Rules, NEW p \in Products, Add(q, r, p)
  PROVE  AlarmTypeOK'
  <1> DEFINE new == Refreshes(p, TRUE)
  <1>1. new \in Refresh /\ new.rows = {} /\ new.pc = "list"
    BY DEF Refreshes, Refresh, Pending
  <1>2. Begin(q, new, {p})
    BY DEF Add
  <1> HIDE DEF new
  <1>3. req' \in [Requests -> Change \cup Refresh \cup {Idle}]
    BY <1>1, <1>2, BeginShape
  <1>4. req'[q].rows = {} /\ req'[q].pc = "list"
    BY <1>1, <1>2, BeginShape DEF Refresh
  <1>5. \A y \in Requests \ {q} : /\ req'[y].rows = req[y].rows /\ req'[y].pc = req[y].pc
                                  /\ req'[y].rule = req[y].rule
    BY <1>1, <1>2, BeginShape
  <1>6. QED  BY <1>3, <1>4, <1>5, RestTyped DEF Add, AlarmTypeOK, Ops

LEMMA ReadTyped ==
  ASSUME AlarmTypeOK, NEW q \in Requests, NEW r \in Rules, NEW op \in Ops,
         NEW to \in Products, Read(q, r, op, to)
  PROVE  AlarmTypeOK'
  <1> DEFINE new == [pc |-> op, rule |-> r, product |-> productOf[r], to |-> to,
                     rows |-> {}, alone |-> TRUE]
  <1>1. new \in Change /\ new.rows = {} /\ new.rule = r
    BY DEF Change, Read, Live, AlarmTypeOK
  <1>2. Begin(q, new, {productOf[r], to})
    BY DEF Read
  <1> HIDE DEF new
  <1>3. req' \in [Requests -> Change \cup Refresh \cup {Idle}]
    BY <1>1, <1>2, BeginShape
  <1>4. req'[q].rows = {} /\ req'[q].rule = r
    BY <1>1, <1>2, BeginShape DEF Change
  <1>5. \A y \in Requests \ {q} : /\ req'[y].rows = req[y].rows /\ req'[y].pc = req[y].pc
                                  /\ req'[y].rule = req[y].rule
    BY <1>1, <1>2, BeginShape
  <1>6. QED  BY <1>3, <1>4, <1>5, RestTyped DEF Read, Live, AlarmTypeOK

LEMMA UpdateTyped ==
  ASSUME AlarmTypeOK, NEW q \in Requests,
         UpdateDeploy(q) \/ UpdateUndeploy(q) \/ UpdateDel(q) \/ UpdateEdit(q)
  PROVE  AlarmTypeOK'
  <1> DEFINE r == req[q].rule
  <1>1. PICK op \in Ops : Update(q, op)
    BY DEF UpdateDeploy, UpdateUndeploy, UpdateRow, UpdateDel, UpdateEdit, Ops
  <1>2. r \in Rules /\ req[q].to \in Products /\ status[r] # "absent" /\ req[q].pc \in Ops
    BY <1>1, UpdateShape DEF Change, AlarmTypeOK
  <1>3. req'[q].rows = {} /\ req'[q].pc \notin Ops
    <2>1. req'[q] = Refreshes(req[q].product, req[q].alone)
      BY <1>1, UpdateShape
    <2>2. QED  BY <2>1 DEF Refreshes, Ops
  <1>4. /\ status' \in [Rules -> {"absent", "off", "on", "deleted"}]
        /\ \A s \in Rules : status'[s] = "absent" <=> status[s] = "absent"
    BY <1>2 DEF UpdateDeploy, UpdateUndeploy, UpdateRow, UpdateDel, UpdateEdit,
                AlarmTypeOK, Live
  <1>5. /\ productOf' \in [Rules -> Products \cup {NoProduct}]
        /\ \A s \in Rules : status[s] # "absent" => productOf'[s] \in Products
    BY <1>2 DEF UpdateDeploy, UpdateUndeploy, UpdateRow, UpdateDel, UpdateEdit,
                AlarmTypeOK
  <1>6. dirty' \subseteq Products
    <2>1. productOf[r] \in Products
      BY <1>2 DEF AlarmTypeOK
    <2>2. QED
      BY <1>2, <2>1 DEF UpdateDeploy, UpdateUndeploy, UpdateRow, UpdateDel,
                        UpdateEdit, AlarmTypeOK, Strays
  <1>7. \A y \in Requests : req'[y].pc \in Ops => status'[req'[y].rule] # "absent"
    <2>1. \A y \in Requests \ {q} : req'[y] = req[y]
      BY <1>1, UpdateShape
    <2>2. \A y \in Requests : req[y].pc \in Ops => req[y].rule \in Rules
      BY Forms DEF Change
    <2>3. QED  BY <1>3, <1>4, <2>1, <2>2 DEF AlarmTypeOK
  <1>8. \A y \in Requests : \/ req'[y].rows = req[y].rows
                            \/ \A a, b \in req'[y].rows : a.id = b.id => a = b
    BY <1>1, <1>3, UpdateShape
  <1>9. req' \in [Requests -> Change \cup Refresh \cup {Idle}] /\ UNCHANGED <<cached, restarts>>
    BY <1>1, UpdateShape DEF Update
  <1>10. QED  BY <1>4, <1>5, <1>6, <1>7, <1>8, <1>9, RestTyped

LEMMA EndTyped ==
  ASSUME AlarmTypeOK, NEW q \in Requests, Ends(q), UNCHANGED <<status, productOf, cached, restarts>>,
         dirty' \subseteq Products
  PROVE  AlarmTypeOK'
  <1>1. /\ req' \in [Requests -> Change \cup Refresh \cup {Idle}] /\ req'[q] = Idle
        /\ \A y \in Requests \ {q} : req'[y] = req[y]
    BY EndShape
  <1>2. Idle.rows = {} /\ Idle.pc \notin Ops
    BY DEF Idle, Ops
  <1>3. QED  BY <1>1, <1>2, RestTyped DEF AlarmTypeOK

LEMMA ListTyped ==
  ASSUME AlarmTypeOK, NEW q \in Requests, List(q)
  PROVE  AlarmTypeOK'
  <1> DEFINE rows == RowsOf(req[q].product)
  <1>1. req[q].pc = "list" /\ req[q].product \in Products
    BY Forms DEF List, Lists, InFlight
  <1>2. CASE req' = [req EXCEPT ![q].pc = "set", ![q].rows = rows] /\ UNCHANGED dirty
    <2>1. rows \in SUBSET Row /\ \A x, y \in rows : x.id = y.id => x = y
      BY RowsAreRows
    <2> HIDE DEF rows
    <2>2. /\ req' \in [Requests -> Change \cup Refresh \cup {Idle}]
          /\ req'[q].pc = "set" /\ req'[q].rows = rows
          /\ \A y \in Requests \ {q} : req'[y] = req[y]
      BY <1>1, <1>2, <2>1, ListShape
    <2>3. UNCHANGED <<status, productOf, cached, restarts>>
      BY DEF List, Lists
    <2>4. QED  BY <1>2, <2>1, <2>2, <2>3, RestTyped DEF AlarmTypeOK, Ops
  <1>3. CASE Ends(q) /\ dirty' \subseteq Products
    BY <1>3, EndTyped DEF List, Lists
  <1>4. QED
    BY <1>1, <1>2, <1>3 DEF List, Lists, AlarmTypeOK

LEMMA SetTyped ==
  ASSUME AlarmTypeOK, NEW q \in Requests, Set(q)
  PROVE  AlarmTypeOK'
  <1>1. req[q] \in Refresh /\ req[q].product \in Products /\ req[q].rows \in SUBSET Row
    BY Forms DEF Set, Pending, Refresh
  <1>2. /\ req' \in [Requests -> Change \cup Refresh \cup {Idle}] /\ req'[q] = Idle
        /\ \A y \in Requests \ {q} : req'[y] = req[y]
    BY EndShape DEF Set
  <1>3. Idle.rows = {} /\ Idle.pc \notin Ops
    BY DEF Idle, Ops
  <1>4. \A y \in Requests : /\ \A a, b \in req'[y].rows : a.id = b.id => a = b
                            /\ InFlight(y)' => InFlight(y) /\ req'[y] = req[y]
    BY <1>2, <1>3 DEF AlarmTypeOK, InFlight, Idle
  <1>5. /\ cached' \in [Products -> SUBSET Row]
        /\ \A p \in Products : \A x, y \in cached'[p] : x.id = y.id => x = y
    BY <1>1 DEF Set, AlarmTypeOK
  <1>6. dirty' \subseteq Products /\ UNCHANGED <<status, productOf, restarts>>
    BY <1>1 DEF Set, AlarmTypeOK
  <1>7. \A y \in Requests : req'[y].pc \in Ops => status'[req'[y].rule] # "absent"
    BY <1>2, <1>3, <1>6 DEF AlarmTypeOK
  <1>8. QED  BY <1>2, <1>4, <1>5, <1>6, <1>7 DEF AlarmTypeOK

LEMMA RestartTyped ==
  ASSUME AlarmTypeOK, Restart
  PROVE  AlarmTypeOK'
  <1>1. PICK S \in SUBSET {p \in Products : EnabledIn(p) # {}} :
          /\ cached' = [p \in Products |-> IF p \in S THEN {x \in RowsOf(p) : x.on}
                                           ELSE cached[p]]
          /\ dirty' = (dirty \cup {p \in Products : Refreshing(p) # {}}) \ S
    BY DEF Restart
  <1>2. /\ cached' \in [Products -> SUBSET Row]
        /\ \A p \in Products : \A x, y \in cached'[p] : x.id = y.id => x = y
    BY <1>1, RowsAreRows DEF AlarmTypeOK
  <1>3. \A q \in Requests : req'[q] = Idle
    BY DEF Restart
  <1>4. req' \in [Requests -> Change \cup Refresh \cup {Idle}]
    BY DEF Restart
  <1>5. Idle.rows = {} /\ Idle.pc \notin Ops
    BY DEF Idle, Ops
  <1>6. restarts' \in 0 .. MaxRestarts
    BY DEF Restart, AlarmTypeOK
  <1>7. QED
    BY <1>1, <1>2, <1>3, <1>4, <1>5, <1>6 DEF Restart, AlarmTypeOK

LEMMA TypedInit == AlarmInit => AlarmTypeOK
  BY DEF AlarmInit, AlarmTypeOK, Idle, Ops, Pending, InFlight

LEMMA TypedStep == AlarmTypeOK /\ [AlarmNext]_alarmVars => AlarmTypeOK'
  <1> SUFFICES ASSUME AlarmTypeOK, [AlarmNext]_alarmVars PROVE AlarmTypeOK'
    OBVIOUS
  <1>1. ASSUME NEW q \in Requests, NEW r \in Rules, NEW p \in Places[r], Add(q, r, p)
        PROVE AlarmTypeOK'
    BY <1>1, AddTyped
  <1>2. ASSUME NEW q \in Requests, NEW r \in Rules, NEW op \in Ops, NEW to \in Places[r],
               Read(q, r, op, to)
        PROVE AlarmTypeOK'
    BY <1>2, ReadTyped
  <1>3. ASSUME NEW q \in Requests,
               UpdateDeploy(q) \/ UpdateUndeploy(q) \/ UpdateDel(q) \/ UpdateEdit(q)
        PROVE AlarmTypeOK'
    BY <1>3, UpdateTyped
  <1>4. ASSUME NEW q \in Requests, RefreshCache(q)
        PROVE AlarmTypeOK'
    <2>1. CASE List(q)  BY <2>1, ListTyped
    <2>2. CASE Set(q)   BY <2>2, SetTyped
    <2>3. CASE Fail(q)
      <3>1. dirty' \subseteq Products
        BY <2>3, Forms DEF Fail, AlarmTypeOK, InFlight
      <3>2. QED  BY <2>3, <3>1, EndTyped DEF Fail
    <2>4. QED  BY <1>4, <2>1, <2>2, <2>3 DEF RefreshCache
  <1>5. CASE Restart  BY <1>5, RestartTyped
  <1>6. CASE UNCHANGED alarmVars
    BY <1>6 DEF alarmVars, AlarmTypeOK, InFlight
  <1>7. QED  BY <1>1, <1>2, <1>3, <1>4, <1>5, <1>6 DEF AlarmNext

(* AlarmRules keeps its type invariant: a rule is once in a list, and a    *)
(* request's rule was added. *)
THEOREM AlarmTypeCorrect == AlarmSpec => []AlarmTypeOK
  BY TypedInit, TypedStep, PTL DEF AlarmSpec

-----------------------------------------------------------------------------
(* The life of a rule. *)

Lives ==
  \A r \in Rules :
    \/ status'[r] = status[r]
    \/ status[r] = "absent" /\ status'[r] = "off"
    \/ status[r] = "off" /\ status'[r] \in {"on", "deleted"}
    \/ status[r] = "on" /\ status'[r] = "off"

LEMMA LifeStep == AlarmTypeOK /\ [AlarmNext]_alarmVars => [Lives]_alarmVars
  <1> SUFFICES ASSUME AlarmTypeOK, AlarmNext PROVE Lives
    BY DEF alarmVars
  <1>1. ASSUME NEW q \in Requests, NEW r \in Rules, NEW p \in Places[r], Add(q, r, p)
        PROVE Lives
    BY <1>1 DEF Add, Lives, AlarmTypeOK
  <1>2. ASSUME NEW q \in Requests, UpdateDeploy(q) \/ UpdateUndeploy(q)
        PROVE Lives
    BY <1>2 DEF UpdateDeploy, UpdateUndeploy, UpdateRow, Live, Lives, AlarmTypeOK
  <1>3. ASSUME NEW q \in Requests, UpdateDel(q)
        PROVE Lives
    BY <1>3 DEF UpdateDel, Lives, AlarmTypeOK
  <1>4. CASE UNCHANGED status
    BY <1>4 DEF Lives
  <1>5. QED
    BY <1>1, <1>2, <1>3, <1>4 DEF AlarmNext, Read, UpdateEdit, RefreshCache, List, Lists,
                                  Set, Fail, Restart

(* A rule is deleted only while it is disabled, and for good, for any      *)
(* number of requests. *)
THEOREM RulesLive == AlarmSpec => RuleLife
  <1>1. AlarmInit /\ [][AlarmNext]_alarmVars => [][Lives]_alarmVars
    BY TypedInit, TypedStep, LifeStep, PTL
  <1>2. QED  BY <1>1 DEF AlarmSpec, RuleLife, Lives

-----------------------------------------------------------------------------
(* A request that is alone.  Nobody else touches its product (Apart); until *)
(* its UPDATE its rule is there, under the product that was read (Sound);   *)
(* what it has listed is current (RefreshIsCurrent); and when it is going   *)
(* to list nothing the cache has nothing enabled, or the product is dirty   *)
(* (NothingLeft). *)

Apart(q)  == \A y \in Requests \ {q} : req[q].product \notin Touches(y)
Sound(q)  == req[q].pc \in Ops => Live(req[q].rule) /\ productOf[req[q].rule] = req[q].product
Current(q) == req[q].pc = "set" => req[q].rows = RowsOf(req[q].product)
NothingLeft(q) ==
  req[q].pc = "list" /\ req[q].product \notin dirty /\ RowsOf(req[q].product) = {}
    => CachedOn(req[q].product) = {}

AloneOK(q) == InFlight(q) /\ req[q].alone => Apart(q) /\ Sound(q) /\ Current(q) /\ NothingLeft(q)

AlarmInv == AlarmTypeOK /\ (\A q \in Requests : AloneOK(q)) /\ EnabledAgree

(* What a step leaves alone: the rows of a product, what a request touches, *)
(* a request that stays alone, the agreement of a product.                  *)
LEMMA RowsKept ==
  ASSUME NEW p,
         \A s \in Rules :
           \/ status'[s] = status[s] /\ productOf'[s] = productOf[s]
           \/ s \notin InProduct(p) /\ ~(status'[s] \in {"off", "on"} /\ productOf'[s] = p)
  PROVE  RowsOf(p)' = RowsOf(p) /\ EnabledIn(p)' = EnabledIn(p)
  <1>1. InProduct(p)' = InProduct(p)
    BY DEF InProduct, Live
  <1>2. \A s \in InProduct(p) : status'[s] = status[s]
    BY DEF InProduct
  <1>3. EnabledIn(p)' = EnabledIn(p)
    BY <1>1, <1>2 DEF EnabledIn
  <1> DEFINE On(s) == status[s] = "on"
             On1(s) == status'[s] = "on"
  <1>4. \A s \in InProduct(p) : On1(s) = On(s)
    BY <1>2
  <1>5. /\ RowsOf(p) = {[id |-> s, on |-> On(s)] : s \in InProduct(p)}
        /\ RowsOf(p)' = {[id |-> s, on |-> On1(s)] : s \in InProduct(p)'}
    BY DEF RowsOf
  <1> HIDE DEF On, On1
  <1>6. RowsOf(p)' = RowsOf(p)
    BY <1>1, <1>4, <1>5
  <1>7. QED  BY <1>3, <1>6

LEMMA SomeRow ==
  ASSUME NEW p, NEW r \in InProduct(p)'
  PROVE  RowsOf(p)' # {}
  <1> DEFINE On1(s) == status'[s] = "on"
  <1>1. RowsOf(p)' = {[id |-> s, on |-> On1(s)] : s \in InProduct(p)'}
    BY DEF RowsOf
  <1> HIDE DEF On1
  <1>2. QED  BY <1>1

LEMMA TouchesKept ==
  ASSUME NEW z \in Requests, req'[z].pc = req[z].pc, req'[z].rule = req[z].rule,
         req'[z].product = req[z].product, req'[z].to = req[z].to,
         req[z].pc \in Ops => productOf'[req[z].rule] = productOf[req[z].rule]
  PROVE  Touches(z)' = Touches(z)
  BY DEF Touches, InFlight

LEMMA StaysAlone ==
  ASSUME NEW y \in Requests, AloneOK(y), InFlight(y), req[y].alone,
         req'[y].pc = req[y].pc, req'[y].rule = req[y].rule,
         req'[y].product = req[y].product, req'[y].rows = req[y].rows,
         \A p : p = req[y].product => RowsOf(p)' = RowsOf(p) /\ CachedOn(p)' = CachedOn(p),
         req[y].product \in dirty => req[y].product \in dirty',
         req[y].pc \in Ops => /\ status'[req[y].rule] = status[req[y].rule]
                              /\ productOf'[req[y].rule] = productOf[req[y].rule],
         Apart(y)'
  PROVE  AloneOK(y)'
  <1>1. PICK p : p = req[y].product
    OBVIOUS
  <1>2. req'[y].product = p /\ RowsOf(p)' = RowsOf(p) /\ CachedOn(p)' = CachedOn(p)
    BY <1>1
  <1>3. Sound(y)'
    BY DEF Sound, AloneOK, Live
  <1>4. Current(y)'
    <2>1. req[y].pc = "set" => req[y].rows = RowsOf(p)
      BY <1>1 DEF AloneOK, Current
    <2>2. req'[y].pc = "set" => req'[y].rows = RowsOf(p)'
      BY <1>2, <2>1
    <2>3. QED  BY <1>2, <2>2 DEF Current
  <1>5. NothingLeft(y)'
    <2>1. req[y].pc = "list" /\ p \notin dirty /\ RowsOf(p) = {} => CachedOn(p) = {}
      BY <1>1 DEF AloneOK, NothingLeft
    <2>2. req'[y].pc = "list" /\ p \notin dirty' /\ RowsOf(p)' = {} => CachedOn(p)' = {}
      BY <1>1, <1>2, <2>1
    <2>3. QED  BY <1>2, <2>2 DEF NothingLeft
  <1>6. QED  BY <1>3, <1>4, <1>5 DEF AloneOK

LEMMA CacheKept ==
  ASSUME NEW p, cached'[p] = cached[p]
  PROVE  CachedOn(p)' = CachedOn(p)
  BY DEF CachedOn

Agree(p) == p \notin dirty /\ Refreshing(p) = {} => CachedOn(p) = EnabledIn(p)

LEMMA AgreeKept ==
  ASSUME NEW p, Agree(p), CachedOn(p)' = CachedOn(p), EnabledIn(p)' = EnabledIn(p),
         p \in dirty => p \in dirty',
         \A y \in Requests : y \in Refreshing(p) =>
           req'[y].pc \in Pending /\ req'[y].product = p
  PROVE  Agree(p)'
  <1>1. Refreshing(p)' = {} => Refreshing(p) = {}
    BY DEF Refreshing
  <1>2. QED  BY <1>1 DEF Agree

(* Beginning a change: whoever stays alone does not share its products. *)
LEMMA BeginAlone ==
  ASSUME AlarmTypeOK, NEW q \in Requests, NEW change, NEW P, Begin(q, change, P),
         change \in Change \cup Refresh
  PROVE  /\ \A y \in Requests \ {q} :
              InFlight(y)' /\ req'[y].alone =>
                InFlight(y) /\ req[y].alone /\ Touches(y) \cap P = {}
         /\ req'[q].alone => \A z \in Requests \ {q} : Touches(z) \cap P = {}
  <1>1. /\ \A y \in Requests \ {q} : /\ req'[y].pc = req[y].pc
                                     /\ req'[y].alone => req[y].alone
                                     /\ InFlight(y) /\ req'[y].alone => y \notin Others(q, P)
        /\ req'[q].alone => Others(q, P) = {}
    BY BeginShape
  <1>2. QED  BY <1>1 DEF Others, InFlight

LEMMA AddInv ==
  ASSUME AlarmInv, NEW q \in Requests, NEW r \in Rules, NEW p \in Products, Add(q, r, p)
  PROVE  (\A y \in Requests : AloneOK(y)') /\ EnabledAgree'
  <1> DEFINE new == Refreshes(p, TRUE)
  <1>1. /\ new \in Refresh /\ new.pc = "list" /\ new.product = p
        /\ Begin(q, new, {p}) /\ AlarmTypeOK
    BY DEF Refreshes, Refresh, Pending, Add, AlarmInv
  <1> HIDE DEF new
  <1>2. /\ req'[q].pc = "list" /\ req'[q].product = p
        /\ \A y \in Requests \ {q} :
              /\ req'[y].pc = req[y].pc /\ req'[y].rule = req[y].rule
              /\ req'[y].product = req[y].product /\ req'[y].to = req[y].to
              /\ req'[y].rows = req[y].rows
    BY <1>1, BeginShape
  <1>3. /\ \A y \in Requests \ {q} :
             InFlight(y)' /\ req'[y].alone =>
               InFlight(y) /\ req[y].alone /\ p \notin Touches(y)
        /\ req'[q].alone => \A z \in Requests \ {q} : p \notin Touches(z)
    BY <1>1, BeginAlone
  <1>4. /\ status[r] = "absent" /\ status'[r] = "off" /\ productOf'[r] = p
        /\ \A s \in Rules \ {r} : status'[s] = status[s] /\ productOf'[s] = productOf[s]
        /\ r \notin InProduct(p) /\ ~Live(r)
        /\ UNCHANGED <<cached, dirty>>
    BY <1>1 DEF Add, AlarmTypeOK, InProduct, Live
  <1>5. \A y \in Requests : req[y].pc \in Ops => req[y].rule \in Rules \ {r}
    BY <1>1, <1>4, Forms DEF Change, AlarmTypeOK
  <1>6. \A z \in Requests \ {q} : Touches(z)' = Touches(z)
    BY <1>2, <1>4, <1>5, TouchesKept
  <1>7. Touches(q)' = {p}
    BY <1>2 DEF Touches, InFlight, Ops
  <1>8. ASSUME NEW y \in Requests \ {q}, InFlight(y)', req'[y].alone
        PROVE  AloneOK(y)'
    <2>1. InFlight(y) /\ req[y].alone /\ p \notin Touches(y) /\ AloneOK(y)
      BY <1>3, <1>8 DEF AlarmInv
    <2>2. PICK x : x = req[y].product
      OBVIOUS
    <2>3. x # p
      BY <2>1, <2>2 DEF Touches
    <2>4. RowsOf(x)' = RowsOf(x)
      BY <1>4, <2>3, RowsKept DEF InProduct, Live
    <2>5. CachedOn(x)' = CachedOn(x)
      BY <1>4, CacheKept
    <2>6. \A z \in Requests \ {y} : x \notin Touches(z)'
      BY <1>6, <1>7, <2>1, <2>2, <2>3 DEF AloneOK, Apart
    <2>7. Apart(y)'
      BY <1>2, <2>2, <2>6 DEF Apart
    <2>8. QED  BY <1>2, <1>4, <1>5, <2>1, <2>2, <2>4, <2>5, <2>7, StaysAlone
  <1>9. AloneOK(q)'
    <2>1. r \in InProduct(p)'
      BY <1>4 DEF InProduct, Live
    <2>2. RowsOf(p)' # {}
      BY <2>1, SomeRow
    <2>3. req'[q].alone => Apart(q)'
      BY <1>2, <1>3, <1>6 DEF Apart
    <2>4. QED  BY <1>2, <2>2, <2>3 DEF AloneOK, Sound, Current, NothingLeft, Ops
  <1>10. EnabledAgree'
    <2>1. ASSUME NEW x \in Products PROVE Agree(x)'
      <3>1. CachedOn(x)' = CachedOn(x)
        BY <1>4, CacheKept
      <3>2. EnabledIn(x)' = EnabledIn(x)
        BY <1>4 DEF EnabledIn, InProduct, Live
      <3>3. \A y \in Refreshing(x) : req'[y].pc \in Pending /\ req'[y].product = x
        BY <1>2 DEF Refreshing, Add, InFlight, Pending
      <3>4. Agree(x)
        BY DEF AlarmInv, EnabledAgree, Agree
      <3>5. QED  BY <1>4, <3>1, <3>2, <3>3, <3>4, AgreeKept
    <2>2. QED  BY <2>1 DEF EnabledAgree, Agree
  <1>11. QED  BY <1>8, <1>9, <1>10 DEF AloneOK

LEMMA ReadInv ==
  ASSUME AlarmInv, NEW q \in Requests, NEW r \in Rules, NEW op \in Ops,
         NEW to \in Products, Read(q, r, op, to)
  PROVE  (\A y \in Requests : AloneOK(y)') /\ EnabledAgree'
  <1> DEFINE new == [pc |-> op, rule |-> r, product |-> productOf[r], to |-> to,
                     rows |-> {}, alone |-> TRUE]
             P == {productOf[r], to}
  <1>1. /\ new \in Change /\ new.pc = op /\ new.product = productOf[r]
        /\ new.rule = r /\ new.to = to
        /\ Begin(q, new, P) /\ AlarmTypeOK
    BY DEF Change, Read, Live, AlarmInv, AlarmTypeOK
  <1> HIDE DEF new, P
  <1>2. /\ req'[q].pc = op /\ req'[q].product = productOf[r] /\ req'[q].rule = r
        /\ req'[q].to = to
        /\ \A y \in Requests \ {q} :
              /\ req'[y].pc = req[y].pc /\ req'[y].rule = req[y].rule
              /\ req'[y].product = req[y].product /\ req'[y].to = req[y].to
              /\ req'[y].rows = req[y].rows
    BY <1>1, BeginShape
  <1>3. /\ \A y \in Requests \ {q} :
             InFlight(y)' /\ req'[y].alone =>
               InFlight(y) /\ req[y].alone /\ Touches(y) \cap P = {}
        /\ req'[q].alone => \A z \in Requests \ {q} : Touches(z) \cap P = {}
    BY <1>1, BeginAlone
  <1>4. UNCHANGED <<status, productOf, cached, dirty>> /\ Live(r) /\ ~InFlight(q)
    BY DEF Read
  <1>5. \A z \in Requests \ {q} : Touches(z)' = Touches(z)
    BY <1>2, <1>4, TouchesKept
  <1>6. Touches(q)' = P
    BY <1>2, <1>4 DEF Touches, InFlight, P, Ops
  <1>7. ASSUME NEW y \in Requests \ {q}, InFlight(y)', req'[y].alone
        PROVE  AloneOK(y)'
    <2>1. InFlight(y) /\ req[y].alone /\ Touches(y) \cap P = {} /\ AloneOK(y)
      BY <1>3, <1>7 DEF AlarmInv
    <2>2. PICK x : x = req[y].product
      OBVIOUS
    <2>3. x \notin P
      BY <2>1, <2>2 DEF Touches
    <2>4. RowsOf(x)' = RowsOf(x) /\ CachedOn(x)' = CachedOn(x)
      BY <1>4, RowsKept, CacheKept
    <2>5. \A z \in Requests \ {y} : x \notin Touches(z)'
      BY <1>5, <1>6, <2>1, <2>2, <2>3 DEF AloneOK, Apart
    <2>6. Apart(y)'
      BY <1>2, <2>2, <2>5 DEF Apart
    <2>7. QED  BY <1>2, <1>4, <2>1, <2>2, <2>4, <2>6, StaysAlone
  <1>8. AloneOK(q)'
    <2>1. req'[q].alone => Apart(q)'
      BY <1>2, <1>3, <1>5 DEF Apart, P
    <2>2. Sound(q)'
      BY <1>2, <1>4 DEF Sound, Live
    <2>3. op # "list" /\ op # "set"
      BY DEF Ops
    <2>4. QED  BY <1>2, <2>1, <2>2, <2>3 DEF AloneOK, Current, NothingLeft
  <1>9. EnabledAgree'
    <2>1. ASSUME NEW x \in Products PROVE Agree(x)'
      <3>1. CachedOn(x)' = CachedOn(x) /\ EnabledIn(x)' = EnabledIn(x)
        BY <1>4, CacheKept, RowsKept
      <3>2. \A y \in Refreshing(x) : req'[y].pc \in Pending /\ req'[y].product = x
        BY <1>2, <1>4 DEF Refreshing, InFlight, Pending
      <3>3. Agree(x)
        BY DEF AlarmInv, EnabledAgree, Agree
      <3>4. QED  BY <1>4, <3>1, <3>2, <3>3, AgreeKept
    <2>2. QED  BY <2>1 DEF EnabledAgree, Agree
  <1>10. QED  BY <1>7, <1>8, <1>9 DEF AloneOK

(* An UPDATE of rule r changes the rows of the products in M alone; those  *)
(* that are not refreshed next become dirty. *)
LEMMA UpdateRows ==
  ASSUME AlarmInv, NEW q \in Requests, NEW r, r = req[q].rule,
         UpdateDeploy(q) \/ UpdateUndeploy(q) \/ UpdateDel(q) \/ UpdateEdit(q)
  PROVE  /\ r \in Rules
         /\ \A s \in Rules \ {r} : status'[s] = status[s] /\ productOf'[s] = productOf[s]
         /\ \E M \in SUBSET Touches(q) :
              /\ productOf[r] \in M /\ productOf'[r] \in M
              /\ dirty' = dirty \cup Strays(q, M)
  <1>1. PICK op \in Ops : Update(q, op)
    BY DEF UpdateDeploy, UpdateUndeploy, UpdateRow, UpdateDel, UpdateEdit, Ops
  <1>2. req[q] \in Change /\ req[q].pc = op /\ AlarmTypeOK
    BY <1>1, UpdateShape DEF AlarmInv
  <1>3. r \in Rules /\ Touches(q) = {req[q].product, req[q].to, productOf[r]}
    BY <1>2 DEF Change, Touches, InFlight, Ops
  <1>4. \A s \in Rules \ {r} : status'[s] = status[s] /\ productOf'[s] = productOf[s]
    BY <1>2 DEF UpdateDeploy, UpdateUndeploy, UpdateRow, UpdateDel, UpdateEdit,
                AlarmTypeOK
  <1>5. CASE UNCHANGED productOf /\ dirty' = dirty \cup Strays(q, {productOf[r]})
    BY <1>3, <1>4, <1>5
  <1>6. CASE UpdateEdit(q)
    <2>1. /\ productOf'[r] \in {productOf[r], req[q].to}
          /\ dirty' = dirty \cup Strays(q, {productOf[r], req[q].to})
      BY <1>2, <1>3, <1>6 DEF UpdateEdit, AlarmTypeOK
    <2>2. QED  BY <1>3, <1>4, <2>1
  <1>7. QED
    BY <1>5, <1>6 DEF UpdateDeploy, UpdateUndeploy, UpdateRow, UpdateDel

(* The rule of a request that is alone is still listed after its UPDATE,   *)
(* unless it was deleted, or moved, which makes the product dirty.         *)
LEMMA UpdateLeaves ==
  ASSUME AlarmInv, NEW q \in Requests, AloneOK(q), req[q].alone,
         UpdateDeploy(q) \/ UpdateUndeploy(q) \/ UpdateDel(q) \/ UpdateEdit(q),
         NEW p, p = req[q].product, p \notin dirty', RowsOf(p)' = {}
  PROVE  CachedOn(p)' = {}
  <1> DEFINE r == req[q].rule
  <1>1. PICK op \in Ops : Update(q, op)
    BY DEF UpdateDeploy, UpdateUndeploy, UpdateRow, UpdateDel, UpdateEdit, Ops
  <1>2. /\ req[q] \in Change /\ req[q].pc = op /\ AlarmTypeOK
        /\ r \in Rules /\ p \in Products /\ InFlight(q) /\ req[q].pc \in Ops
    BY <1>1, UpdateShape DEF AlarmInv, Change, InFlight, Ops
  <1>3. /\ Live(r) /\ productOf[r] = p
        /\ \A y \in Requests \ {q} : p \notin Touches(y)
    BY <1>2 DEF AloneOK, Sound, Apart
  <1>4. r \notin InProduct(p)'
    BY SomeRow
  <1>5. ~(UpdateDeploy(q) \/ UpdateUndeploy(q))
    BY <1>2, <1>3, <1>4 DEF UpdateDeploy, UpdateUndeploy, UpdateRow, InProduct, Live,
                            AlarmTypeOK
  <1>6. ~UpdateEdit(q)
    <2>1. SUFFICES ASSUME UpdateEdit(q) PROVE FALSE
      OBVIOUS
    <2>2. productOf'[r] = req[q].to /\ status' = status
      BY <1>2, <1>3, <2>1 DEF UpdateEdit, AlarmTypeOK
    <2>3. req[q].to # p
      BY <1>2, <1>3, <1>4, <2>2 DEF InProduct, Live
    <2>4. p \in Strays(q, {productOf[r], req[q].to})
      BY <1>3, <2>3 DEF Strays
    <2>5. QED  BY <2>1, <2>4 DEF UpdateEdit
  <1>7. UpdateDel(q)
    BY <1>5, <1>6
  <1>8. status[r] = "off" /\ status'[r] = "deleted" /\ productOf' = productOf
    BY <1>2, <1>3, <1>4, <1>7 DEF UpdateDel, InProduct, Live, AlarmTypeOK
  <1>9. EnabledIn(p) = {}
    <2>1. \A s \in Rules \ {r} : status'[s] = status[s]
      BY <1>2, <1>7 DEF UpdateDel, AlarmTypeOK
    <2>2. \A s \in Rules : s \notin InProduct(p)'
      BY SomeRow
    <2>3. QED  BY <1>8, <2>1, <2>2 DEF EnabledIn, InProduct, Live
  <1>10. Refreshing(p) = {}
    <2>1. \A y \in Requests : req[y].pc \in Pending => req[y].product \in Touches(y)
      BY DEF Touches, InFlight, Pending
    <2>2. q \notin Refreshing(p)
      BY <1>2 DEF Refreshing, Ops, Pending
    <2>3. QED  BY <1>3, <2>1, <2>2 DEF Refreshing
  <1>11. p \notin dirty /\ CachedOn(p)' = CachedOn(p)
    BY <1>7, CacheKept DEF UpdateDel, Update
  <1>12. QED
    BY <1>2, <1>9, <1>10, <1>11 DEF AlarmInv, EnabledAgree

LEMMA UpdateInv ==
  ASSUME AlarmInv, NEW q \in Requests,
         UpdateDeploy(q) \/ UpdateUndeploy(q) \/ UpdateDel(q) \/ UpdateEdit(q)
  PROVE  (\A y \in Requests : AloneOK(y)') /\ EnabledAgree'
  <1> DEFINE r == req[q].rule
             p == req[q].product
  <1>1. PICK op \in Ops : Update(q, op)
    BY DEF UpdateDeploy, UpdateUndeploy, UpdateRow, UpdateDel, UpdateEdit, Ops
  <1>2. /\ req[q] \in Change /\ req[q].pc \in Ops /\ AlarmTypeOK
        /\ req'[q] = Refreshes(p, req[q].alone)
        /\ \A y \in Requests \ {q} : req'[y] = req[y]
        /\ UNCHANGED cached
    BY <1>1, UpdateShape DEF AlarmInv, Update
  <1>3. /\ req'[q].pc = "list" /\ req'[q].product = p /\ req'[q].alone = req[q].alone
        /\ Touches(q)' = {p} /\ p \in Touches(q) /\ InFlight(q)
    BY <1>2 DEF Refreshes, Touches, InFlight, Ops
  <1>4. /\ r \in Rules
        /\ \A s \in Rules \ {r} : status'[s] = status[s] /\ productOf'[s] = productOf[s]
    BY UpdateRows
  <1>5. PICK M \in SUBSET Touches(q) :
          /\ productOf[r] \in M /\ productOf'[r] \in M
          /\ dirty' = dirty \cup Strays(q, M)
    BY UpdateRows
  <1>6. \A x : x \notin M => RowsOf(x)' = RowsOf(x) /\ EnabledIn(x)' = EnabledIn(x)
    BY <1>4, <1>5, RowsKept DEF InProduct
  <1>7. \A z \in Requests \ {q} :
          (req[z].pc \in Ops => req[z].rule # r) => Touches(z)' = Touches(z)
    <2>1. \A z \in Requests : req[z].pc \in Ops => req[z].rule \in Rules
      BY <1>2, Forms DEF Change
    <2>2. QED  BY <1>2, <1>4, <2>1, TouchesKept
  <1>8. \A z \in Requests \ {q} : Touches(z)' \subseteq Touches(z) \cup M
    <2>1. ASSUME NEW z \in Requests \ {q}, req[z].pc \in Ops, req[z].rule = r
          PROVE  Touches(z)' \subseteq Touches(z) \cup M
      BY <1>2, <1>5, <2>1 DEF Touches, InFlight
    <2>2. QED  BY <1>7, <2>1
  <1>9. ASSUME NEW y \in Requests \ {q}, InFlight(y)', req'[y].alone
        PROVE  AloneOK(y)'
    <2>1. InFlight(y) /\ req[y].alone /\ AloneOK(y)
      BY <1>2, <1>9 DEF AlarmInv, InFlight
    <2>2. PICK x : x = req[y].product
      OBVIOUS
    <2>3. \A z \in Requests \ {y} : x \notin Touches(z)
      BY <2>1, <2>2 DEF AloneOK, Apart
    <2>4. x \notin M /\ x # p
      BY <1>3, <1>5, <2>3
    <2>5. req[y].pc \in Ops => req[y].rule \in Rules \ {r}
      BY <1>2, <1>5, <2>1, <2>2, <2>4, Forms DEF Change, AloneOK, Sound
    <2>6. RowsOf(x)' = RowsOf(x) /\ CachedOn(x)' = CachedOn(x)
      BY <1>2, <1>6, <2>4, CacheKept
    <2>7. \A z \in Requests \ {y} : x \notin Touches(z)'
      BY <1>3, <1>8, <2>3, <2>4
    <2>8. Apart(y)'
      BY <1>2, <2>2, <2>7 DEF Apart
    <2>9. QED  BY <1>2, <1>4, <1>5, <2>1, <2>2, <2>5, <2>6, <2>8, StaysAlone
  <1>10. AloneOK(q)'
    <2>1. SUFFICES ASSUME req[q].alone PROVE Apart(q)' /\ NothingLeft(q)'
      BY <1>3 DEF AloneOK, Sound, Current, Ops
    <2>2. AloneOK(q) /\ productOf[r] = p /\ \A z \in Requests \ {q} : p \notin Touches(z)
      BY <1>2, <1>3, <2>1 DEF AlarmInv, AloneOK, Sound, Apart
    <2>3. \A z \in Requests \ {q} : req[z].pc \in Ops => req[z].rule # r
      BY <2>2 DEF Touches
    <2>4. Apart(q)'
      BY <1>3, <1>7, <2>2, <2>3 DEF Apart
    <2>5. NothingLeft(q)'
      <3>1. PICK x : x = p
        OBVIOUS
      <3>2. x \notin dirty' /\ RowsOf(x)' = {} => CachedOn(x)' = {}
        BY <2>1, <2>2, <3>1, UpdateLeaves
      <3>3. QED  BY <1>3, <3>1, <3>2 DEF NothingLeft
    <2>6. QED  BY <2>4, <2>5
  <1>11. EnabledAgree'
    <2>1. ASSUME NEW x \in Products PROVE Agree(x)'
      <3>1. CASE x = p
        BY <1>3, <3>1 DEF Agree, Refreshing, Pending
      <3>2. CASE x # p /\ x \notin dirty'
        <4>1. x \notin M
          BY <1>5, <3>2 DEF Strays
        <4>2. EnabledIn(x)' = EnabledIn(x) /\ CachedOn(x)' = CachedOn(x)
          BY <1>2, <1>6, <4>1, CacheKept
        <4>3. \A y \in Refreshing(x) : req'[y].pc \in Pending /\ req'[y].product = x
          BY <1>2, <3>2 DEF Refreshing
        <4>4. Agree(x)
          BY DEF AlarmInv, EnabledAgree, Agree
        <4>5. QED  BY <1>5, <4>2, <4>3, <4>4, AgreeKept
      <3>3. CASE x \in dirty'
        BY <3>3 DEF Agree
      <3>4. QED  BY <3>1, <3>2, <3>3
    <2>2. QED  BY <2>1 DEF EnabledAgree, Agree
  <1>12. QED  BY <1>9, <1>10, <1>11 DEF AloneOK

(* A step of one request on its own product leaves those alone that do not *)
(* share it. *)
LEMMA OthersAlone ==
  ASSUME AlarmInv, NEW q \in Requests, NEW p, p = req[q].product, InFlight(q),
         UNCHANGED <<status, productOf>>, \A y \in Requests \ {q} : req'[y] = req[y],
         Touches(q)' \subseteq {p},
         \A x \in Products \ {p} : cached'[x] = cached[x] /\ (x \in dirty => x \in dirty')
  PROVE  \A y \in Requests \ {q} : AloneOK(y)'
  <1> SUFFICES ASSUME NEW y \in Requests \ {q}, InFlight(y)', req'[y].alone
               PROVE  AloneOK(y)'
    BY DEF AloneOK
  <1>1. InFlight(y) /\ req[y].alone /\ AloneOK(y) /\ req'[y] = req[y]
    BY DEF AlarmInv, InFlight
  <1>2. PICK x : x = req[y].product
    OBVIOUS
  <1>3. \A z \in Requests \ {y} : x \notin Touches(z)
    BY <1>1, <1>2 DEF AloneOK, Apart
  <1>4. x # p /\ x \in Products
    BY <1>1, <1>2, <1>3, Forms DEF Touches, AlarmInv
  <1>5. RowsOf(x)' = RowsOf(x) /\ CachedOn(x)' = CachedOn(x)
    BY <1>4, RowsKept, CacheKept
  <1>6. \A z \in Requests \ {q} : Touches(z)' = Touches(z)
    BY TouchesKept
  <1>7. Apart(y)'
    BY <1>1, <1>2, <1>3, <1>4, <1>6 DEF Apart
  <1>8. QED  BY <1>1, <1>2, <1>4, <1>5, <1>7, StaysAlone

LEMMA NoRows ==
  ASSUME NEW p, RowsOf(p) = {}
  PROVE  EnabledIn(p) = {}
  <1> DEFINE On(s) == status[s] = "on"
  <1>1. RowsOf(p) = {[id |-> s, on |-> On(s)] : s \in InProduct(p)}
    BY DEF RowsOf
  <1> HIDE DEF On
  <1>2. InProduct(p) = {}
    BY <1>1
  <1>3. QED  BY <1>2 DEF EnabledIn

LEMMA OnRows ==
  ASSUME NEW p, NEW r \in Rules
  PROVE  [id |-> r, on |-> TRUE] \in RowsOf(p) <=> r \in EnabledIn(p)
  <1> DEFINE On(s) == status[s] = "on"
  <1>1. RowsOf(p) = {[id |-> s, on |-> On(s)] : s \in InProduct(p)}
    BY DEF RowsOf
  <1>2. \A s : On(s) \in BOOLEAN /\ (On(s) <=> status[s] = "on")
    OBVIOUS
  <1> HIDE DEF On
  <1>3. CASE [id |-> r, on |-> TRUE] \in RowsOf(p)
    <2>1. PICK s \in InProduct(p) : [id |-> r, on |-> TRUE] = [id |-> s, on |-> On(s)]
      BY <1>1, <1>3
    <2>2. s = r /\ On(s) = TRUE
      BY <2>1
    <2>3. QED  BY <1>2, <1>3, <2>2 DEF EnabledIn
  <1>4. CASE r \in EnabledIn(p)
    <2>1. r \in InProduct(p) /\ On(r) = TRUE
      BY <1>2, <1>4 DEF EnabledIn
    <2>2. QED  BY <1>1, <1>4, <2>1
  <1>5. QED  BY <1>3, <1>4

LEMMA ListInv ==
  ASSUME AlarmInv, NEW q \in Requests, List(q)
  PROVE  (\A y \in Requests : AloneOK(y)') /\ EnabledAgree'
  <1>1. PICK p : p = req[q].product
    OBVIOUS
  <1>2. /\ req[q].pc = "list" /\ InFlight(q) /\ AlarmTypeOK /\ p \in Products
        /\ UNCHANGED <<status, productOf, cached>>
    BY <1>1, Forms DEF List, Lists, AlarmInv, InFlight
  <1>3. \A x : /\ RowsOf(x)' = RowsOf(x) /\ EnabledIn(x)' = EnabledIn(x)
               /\ CachedOn(x)' = CachedOn(x)
    BY <1>2, RowsKept, CacheKept
  <1>4. \A x \in Products : Agree(x)
    BY DEF AlarmInv, EnabledAgree, Agree
  <1>5. CASE /\ RowsOf(p) # {} /\ UNCHANGED dirty
             /\ req' = [req EXCEPT ![q].pc = "set", ![q].rows = RowsOf(p)]
    <2>1. /\ req'[q].pc = "set" /\ req'[q].rows = RowsOf(p) /\ req'[q].product = p
          /\ req'[q].alone = req[q].alone
          /\ \A y \in Requests \ {q} : req'[y] = req[y]
      BY <1>1, <1>2, <1>5, RowsAreRows, ListShape
    <2>2. Touches(q)' = {p}
      BY <2>1 DEF Touches, InFlight, Ops
    <2>3. \A y \in Requests \ {q} : AloneOK(y)'
      BY <1>1, <1>2, <1>5, <2>1, <2>2, OthersAlone
    <2>4. req[q].alone => Apart(q)'
      <3>1. \A z \in Requests \ {q} : Touches(z)' = Touches(z)
        BY <1>2, <2>1, TouchesKept
      <3>2. QED  BY <1>1, <1>2, <2>1, <3>1 DEF AlarmInv, AloneOK, Apart
    <2>5. Current(q)'
      BY <1>3, <2>1 DEF Current
    <2>6. AloneOK(q)'
      BY <2>1, <2>4, <2>5 DEF AloneOK, Sound, NothingLeft, Ops
    <2>7. \A x \in Products : Agree(x)'
      <3>1. \A x : \A y \in Refreshing(x) : req'[y].pc \in Pending /\ req'[y].product = x
        BY <1>1, <2>1 DEF Refreshing, Pending
      <3>2. QED  BY <1>3, <1>4, <1>5, <3>1, AgreeKept
    <2>8. QED  BY <2>3, <2>6, <2>7 DEF EnabledAgree, Agree
  <1>6. CASE /\ RowsOf(p) = {} /\ Ends(q)
             /\ dirty' = IF req[q].alone THEN dirty ELSE dirty \cup {p}
    <2>1. req'[q] = Idle /\ \A y \in Requests \ {q} : req'[y] = req[y]
      BY <1>2, <1>6, EndShape
    <2>2. Touches(q)' = {} /\ ~InFlight(q)'
      BY <2>1 DEF Touches, InFlight, Idle, Ops
    <2>3. \A y \in Requests \ {q} : AloneOK(y)'
      BY <1>1, <1>2, <1>6, <2>1, <2>2, OthersAlone
    <2>4. AloneOK(q)'
      BY <2>2 DEF AloneOK
    <2>5. ASSUME NEW x \in Products PROVE Agree(x)'
      <3>1. CASE x # p
        <4>1. \A y \in Refreshing(x) : req'[y].pc \in Pending /\ req'[y].product = x
          BY <1>1, <2>1, <3>1 DEF Refreshing
        <4>2. QED  BY <1>3, <1>4, <1>6, <4>1, AgreeKept
      <3>2. CASE x = p
        <4>1. SUFFICES ASSUME p \notin dirty' PROVE CachedOn(p)' = EnabledIn(p)'
          BY <3>2 DEF Agree
        <4>2. req[q].alone /\ p \notin dirty
          BY <1>6, <4>1
        <4>3. CachedOn(p) = {}
          BY <1>1, <1>2, <1>6, <4>2 DEF AlarmInv, AloneOK, NothingLeft
        <4>4. QED  BY <1>3, <1>6, <4>3, NoRows
      <3>3. QED  BY <3>1, <3>2
    <2>6. QED  BY <2>3, <2>4, <2>5 DEF EnabledAgree, Agree
  <1>7. QED  BY <1>1, <1>5, <1>6 DEF List, Lists

(* Setting what the table says makes the list agree with it. *)
LEMMA SetAgrees ==
  ASSUME NEW p, \A r \in Rules : [id |-> r, on |-> TRUE] \in cached'[p] <=>
                                 [id |-> r, on |-> TRUE] \in RowsOf(p),
         UNCHANGED <<status, productOf>>
  PROVE  Agree(p)'
  <1>1. EnabledIn(p)' = EnabledIn(p)
    BY RowsKept
  <1>2. CachedOn(p)' = EnabledIn(p)
    <2>1. \A r \in Rules : r \in CachedOn(p)' <=> r \in EnabledIn(p)
      BY OnRows DEF CachedOn
    <2>2. CachedOn(p)' \subseteq Rules /\ EnabledIn(p) \subseteq Rules
      BY DEF CachedOn, EnabledIn, InProduct
    <2>3. QED  BY <2>1, <2>2
  <1>3. QED  BY <1>1, <1>2 DEF Agree

LEMMA SetInv ==
  ASSUME AlarmInv, NEW q \in Requests, Set(q)
  PROVE  (\A y \in Requests : AloneOK(y)') /\ EnabledAgree'
  <1>1. PICK p : p = req[q].product
    OBVIOUS
  <1>2. /\ req[q].pc = "set" /\ InFlight(q) /\ AlarmTypeOK /\ p \in Products
        /\ UNCHANGED <<status, productOf>> /\ Ends(q)
        /\ cached' = [cached EXCEPT ![p] = req[q].rows]
        /\ dirty' = IF req[q].alone THEN dirty \ {p} ELSE dirty \cup {p}
    BY <1>1, Forms DEF Set, AlarmInv, InFlight
  <1>3. req'[q] = Idle /\ \A y \in Requests \ {q} : req'[y] = req[y]
    BY <1>2, EndShape
  <1>4. Touches(q)' = {} /\ ~InFlight(q)'
    BY <1>3 DEF Touches, InFlight, Idle, Ops
  <1>5. \A x \in Products \ {p} : cached'[x] = cached[x] /\ (x \in dirty <=> x \in dirty')
    BY <1>2 DEF AlarmTypeOK
  <1>6. \A y \in Requests \ {q} : AloneOK(y)'
    BY <1>1, <1>2, <1>3, <1>4, <1>5, OthersAlone
  <1>7. AloneOK(q)'
    BY <1>4 DEF AloneOK
  <1>8. ASSUME NEW x \in Products PROVE Agree(x)'
    <2>1. CASE x # p
      <3>1. CachedOn(x)' = CachedOn(x) /\ EnabledIn(x)' = EnabledIn(x)
        BY <1>2, <1>5, <2>1, CacheKept, RowsKept
      <3>2. \A y \in Refreshing(x) : req'[y].pc \in Pending /\ req'[y].product = x
        BY <1>1, <1>3, <2>1 DEF Refreshing
      <3>3. Agree(x)
        BY DEF AlarmInv, EnabledAgree, Agree
      <3>4. QED  BY <1>5, <2>1, <3>1, <3>2, <3>3, AgreeKept
    <2>2. CASE x = p /\ req[q].alone
      <3>1. req[q].rows = RowsOf(p)
        BY <1>1, <1>2, <2>2 DEF AlarmInv, AloneOK, Current
      <3>2. cached'[p] = RowsOf(p)
        BY <1>2, <3>1 DEF AlarmTypeOK
      <3>3. QED  BY <1>2, <2>2, <3>2, SetAgrees
    <2>3. CASE x = p /\ ~req[q].alone
      BY <1>2, <2>3 DEF Agree
    <2>4. QED  BY <2>1, <2>2, <2>3, <1>2, Forms
  <1>9. QED  BY <1>6, <1>7, <1>8 DEF EnabledAgree, Agree

LEMMA FailInv ==
  ASSUME AlarmInv, NEW q \in Requests, Fail(q)
  PROVE  (\A y \in Requests : AloneOK(y)') /\ EnabledAgree'
  <1>1. PICK p : p = req[q].product
    OBVIOUS
  <1>2. /\ InFlight(q) /\ AlarmTypeOK /\ UNCHANGED <<status, productOf, cached>> /\ Ends(q)
        /\ dirty' = IF req[q].pc \in Pending THEN dirty \cup {p} ELSE dirty
    BY <1>1 DEF Fail, AlarmInv
  <1>3. req'[q] = Idle /\ \A y \in Requests \ {q} : req'[y] = req[y]
    BY <1>2, EndShape
  <1>4. Touches(q)' = {} /\ ~InFlight(q)'
    BY <1>3 DEF Touches, InFlight, Idle, Ops
  <1>5. \A y \in Requests \ {q} : AloneOK(y)'
    BY <1>1, <1>2, <1>3, <1>4, OthersAlone
  <1>6. AloneOK(q)'
    BY <1>4 DEF AloneOK
  <1>7. ASSUME NEW x \in Products PROVE Agree(x)'
    <2>1. CASE x \in dirty'
      BY <2>1 DEF Agree
    <2>2. CASE x \notin dirty'
      <3>1. q \notin Refreshing(x)
        BY <1>1, <1>2, <2>2 DEF Refreshing
      <3>2. CachedOn(x)' = CachedOn(x) /\ EnabledIn(x)' = EnabledIn(x)
        BY <1>2, CacheKept, RowsKept
      <3>3. \A y \in Refreshing(x) : req'[y].pc \in Pending /\ req'[y].product = x
        BY <1>3, <3>1 DEF Refreshing
      <3>4. Agree(x)
        BY DEF AlarmInv, EnabledAgree, Agree
      <3>5. QED  BY <1>2, <3>2, <3>3, <3>4, AgreeKept
    <2>3. QED  BY <2>1, <2>2
  <1>8. QED  BY <1>5, <1>6, <1>7 DEF EnabledAgree, Agree

LEMMA RestartInv ==
  ASSUME AlarmInv, Restart
  PROVE  (\A y \in Requests : AloneOK(y)') /\ EnabledAgree'
  <1>1. PICK S \in SUBSET {p \in Products : EnabledIn(p) # {}} :
          /\ cached' = [p \in Products |-> IF p \in S THEN {x \in RowsOf(p) : x.on}
                                           ELSE cached[p]]
          /\ dirty' = (dirty \cup {p \in Products : Refreshing(p) # {}}) \ S
    BY DEF Restart
  <1>2. UNCHANGED <<status, productOf>> /\ \A y \in Requests : ~InFlight(y)'
    BY DEF Restart, InFlight, Idle
  <1>3. ASSUME NEW p \in Products PROVE Agree(p)'
    <2>1. CASE p \in S
      <3>1. cached'[p] = {x \in RowsOf(p) : x.on}
        BY <1>1, <2>1
      <3>2. \A r \in Rules : [id |-> r, on |-> TRUE].on
        OBVIOUS
      <3>3. \A r \in Rules : [id |-> r, on |-> TRUE] \in cached'[p] <=>
                             [id |-> r, on |-> TRUE] \in RowsOf(p)
        BY <3>1, <3>2, Zenon
      <3>4. QED  BY <1>2, <3>3, SetAgrees
    <2>2. CASE p \notin S /\ p \notin dirty'
      <3>1. cached'[p] = cached[p] /\ p \notin dirty /\ Refreshing(p) = {}
        BY <1>1, <2>2
      <3>2. CachedOn(p)' = CachedOn(p) /\ EnabledIn(p)' = EnabledIn(p)
        BY <1>2, <3>1, CacheKept, RowsKept
      <3>3. CachedOn(p) = EnabledIn(p)
        BY <3>1 DEF AlarmInv, EnabledAgree
      <3>4. QED  BY <3>2, <3>3 DEF Agree
    <2>3. CASE p \in dirty'
      BY <2>3 DEF Agree
    <2>4. QED  BY <2>1, <2>2, <2>3
  <1>4. QED  BY <1>2, <1>3 DEF AloneOK, EnabledAgree, Agree

-----------------------------------------------------------------------------
LEMMA InvInit == AlarmInit => AlarmInv
  <1> SUFFICES ASSUME AlarmInit PROVE AlarmInv
    OBVIOUS
  <1>1. \A q \in Requests : ~InFlight(q)
    BY DEF AlarmInit, InFlight, Idle
  <1>2. \A p \in Products : CachedOn(p) = {} /\ EnabledIn(p) = {}
    BY DEF AlarmInit, CachedOn, EnabledIn, InProduct, Live
  <1>3. QED  BY <1>1, <1>2, TypedInit DEF AlarmInv, AloneOK, EnabledAgree

LEMMA InvStep == AlarmInv /\ [AlarmNext]_alarmVars => AlarmInv'
  <1> SUFFICES ASSUME AlarmInv, [AlarmNext]_alarmVars
               PROVE  (\A y \in Requests : AloneOK(y)') /\ EnabledAgree'
    BY TypedStep DEF AlarmInv
  <1> DEFINE Goal == (\A y \in Requests : AloneOK(y)') /\ EnabledAgree'
  <1>1. ASSUME NEW q \in Requests, NEW r \in Rules, NEW p \in Places[r], Add(q, r, p)
        PROVE Goal
    BY <1>1, AddInv
  <1>2. ASSUME NEW q \in Requests, NEW r \in Rules, NEW op \in Ops, NEW to \in Places[r],
               Read(q, r, op, to)
        PROVE Goal
    BY <1>2, ReadInv
  <1>3. ASSUME NEW q \in Requests,
               UpdateDeploy(q) \/ UpdateUndeploy(q) \/ UpdateDel(q) \/ UpdateEdit(q)
        PROVE Goal
    BY <1>3, UpdateInv
  <1>4. ASSUME NEW q \in Requests, RefreshCache(q)
        PROVE Goal
    BY <1>4, ListInv, SetInv, FailInv DEF RefreshCache
  <1>5. CASE Restart  BY <1>5, RestartInv
  <1>6. CASE UNCHANGED alarmVars
    <2>1. UNCHANGED <<status, productOf, cached, req, dirty>>
      BY <1>6 DEF alarmVars
    <2>2. \A p : /\ RowsOf(p)' = RowsOf(p) /\ EnabledIn(p)' = EnabledIn(p)
                 /\ CachedOn(p)' = CachedOn(p)
      BY <2>1, RowsKept, CacheKept
    <2>3. ASSUME NEW y \in Requests, InFlight(y)', req'[y].alone
          PROVE  AloneOK(y)'
      <3>1. \A z \in Requests : Touches(z)' = Touches(z)
        BY <2>1, TouchesKept
      <3>2. Apart(y) => Apart(y)'
        BY <2>1, <3>1 DEF Apart
      <3>3. AloneOK(y) /\ InFlight(y) /\ req[y].alone
        BY <2>1, <2>3 DEF AlarmInv, InFlight
      <3>4. Apart(y)'
        BY <3>2, <3>3 DEF AloneOK
      <3>5. QED  BY <2>1, <2>2, <3>3, <3>4, StaysAlone
    <2>4. ASSUME NEW x \in Products PROVE Agree(x)'
      <3>1. Agree(x)
        BY DEF AlarmInv, EnabledAgree, Agree
      <3>2. \A y \in Refreshing(x) : req'[y].pc \in Pending /\ req'[y].product = x
        BY <2>1 DEF Refreshing
      <3>3. QED  BY <2>1, <2>2, <3>1, <3>2, AgreeKept
    <2>5. QED  BY <2>3, <2>4 DEF AloneOK, EnabledAgree, Agree
  <1> HIDE DEF Goal
  <1>7. Goal
    BY <1>1, <1>2, <1>3, <1>4, <1>5, <1>6 DEF AlarmNext, Goal
  <1>8. QED  BY <1>7 DEF Goal

(* The enabled rules in the cache are those in the table, except after     *)
(* changes that overlapped, failed midway or moved a rule, for any number  *)
(* of requests and restarts. *)
THEOREM EnabledRulesAgree == AlarmSpec => []EnabledAgree
  <1>1. AlarmInv => EnabledAgree
    BY DEF AlarmInv
  <1>2. QED  BY <1>1, InvInit, InvStep, PTL DEF AlarmSpec

(* A request that was alone on its product sets what the table says. *)
THEOREM AloneIsCurrent == AlarmSpec => []RefreshIsCurrent
  <1>1. AlarmInv => RefreshIsCurrent
    BY DEF AlarmInv, AloneOK, Current, InFlight, RefreshIsCurrent
  <1>2. QED  BY <1>1, InvInit, InvStep, PTL DEF AlarmSpec
=============================================================================
