----------------------------- MODULE AlarmRules -----------------------------
(***************************************************************************)
(* The alarm rules that a device's report triggers: a row each in MySQL,   *)
(* and in Redis one list per product, which reports are checked against.   *)
(* Every change of a rule (Add, Edit, Deploy, Undeploy, Del) updates the   *)
(* row and then refreshes the list of the product: it lists the product's  *)
(* rules, and sets what it found, two steps that others come between.      *)
(***************************************************************************)
EXTENDS Naturals

CONSTANTS
    Rules,        \* ids of rules; the table numbers them in the order of Add
    Products,
    Requests,     \* the HTTP requests in flight
    Places,       \* bound: Places[r], the products rule r is ever put under
    MaxRestarts,  \* bound: restarts of the process
    NoProduct

ASSUME RulesAssumption == Rules \subseteq Nat \ {0}
ASSUME ProductsAssumption == NoProduct \notin Products
ASSUME PlacesAssumption == Places \in [Rules -> SUBSET Products]
ASSUME RestartsAssumption == MaxRestarts \in Nat

VARIABLES
    status,     \* status[r]: the row of rule r, "absent" before it is added
    productOf,  \* productOf[r]: its product key
    cached,     \* cached[p]: rows listed under p in Redis, {} without a key
    req,        \* req[q]: the change that request q makes
    restarts,
    dirty       \* history: products some refresh of which went wrong

alarmVars == <<status, productOf, cached, req, restarts, dirty>>

(* A change is at its UPDATE, at the listing or at the setting of a list.  *)
(* Until the UPDATE it has its rule and the product an edit gives it;      *)
(* product is the one read with the row, which is refreshed.  alone is     *)
(* history: nobody else has been at work on the same products meanwhile.   *)
Ops     == {"edit", "deploy", "undeploy", "del"}
Row     == [id : Rules, on : BOOLEAN]
Pending == {"list", "set"}
Idle    == [pc |-> "idle", rule |-> 0, product |-> NoProduct, to |-> NoProduct,
            rows |-> {}, alone |-> TRUE]
Change  == [pc : Ops, rule : Rules, product : Products, to : Products,
            rows : {{}}, alone : BOOLEAN]
Refresh == [pc : Pending, rule : {0}, product : Products, to : {NoProduct},
            rows : SUBSET Row, alone : BOOLEAN]

Live(r)      == status[r] \in {"off", "on"}
InProduct(p) == {r \in Rules : Live(r) /\ productOf[r] = p}
RowsOf(p)    == {[id |-> r, on |-> status[r] = "on"] : r \in InProduct(p)}
EnabledIn(p) == {r \in InProduct(p) : status[r] = "on"}
CachedOn(p)  == {r \in Rules : [id |-> r, on |-> TRUE] \in cached[p]}

(* getAlarmRuleList goes through the list, newest rule first, and returns  *)
(* at the first row that is disabled.                                      *)
Checked(p) ==
    {r \in CachedOn(p) : \A x \in cached[p] : x.id > r => x.on}

InFlight(q)   == req[q].pc # "idle"
Refreshing(p) == {q \in Requests : req[q].pc \in Pending /\ req[q].product = p}

(* The products whose rows or list request q may change.                   *)
Touches(q) ==
    (IF InFlight(q) THEN {req[q].product} ELSE {}) \cup
    (IF req[q].pc \in Ops THEN {req[q].to, productOf[req[q].rule]} ELSE {})

AlarmInit ==
    /\ status = [r \in Rules |-> "absent"]
    /\ productOf = [r \in Rules |-> NoProduct]
    /\ cached = [p \in Products |-> {}]
    /\ req = [q \in Requests |-> Idle]
    /\ restarts = 0
    /\ dirty = {}

-----------------------------------------------------------------------------
Others(q, P) == {y \in Requests \ {q} : Touches(y) \cap P # {}}

Begin(q, change, P) ==
    req' = [y \in Requests |->
              IF y = q THEN [change EXCEPT !.alone = Others(q, P) = {}]
              ELSE IF y \in Others(q, P) THEN [req[y] EXCEPT !.alone = FALSE]
              ELSE req[y]]

Refreshes(p, alone) ==
    [pc |-> "list", rule |-> 0, product |-> p, to |-> NoProduct, rows |-> {},
     alone |-> alone]

(* The INSERT of Add: a new rule is disabled.                              *)
Add(q, r, p) ==
    /\ ~InFlight(q)
    /\ status[r] = "absent"
    /\ \A s \in Rules : s < r => status[s] # "absent"
    /\ status' = [status EXCEPT ![r] = "off"]
    /\ productOf' = [productOf EXCEPT ![r] = p]
    /\ Begin(q, Refreshes(p, TRUE), {p})
    /\ UNCHANGED <<cached, restarts, dirty>>

(* The SELECT with which the others begin; a row that is gone or has the   *)
(* wrong status ends them there.                                           *)
Read(q, r, op, to) ==
    /\ ~InFlight(q)
    /\ Live(r)
    /\ op \in {"deploy", "del"} => status[r] = "off"
    /\ op = "undeploy" => status[r] = "on"
    /\ op # "edit" => to = productOf[r]
    /\ Begin(q, [pc |-> op, rule |-> r, product |-> productOf[r], to |-> to,
                 rows |-> {}, alone |-> TRUE], {productOf[r], to})
    /\ UNCHANGED <<status, productOf, cached, restarts, dirty>>

(* The UPDATE.  A row that was deleted meanwhile is not updated; only Del  *)
(* looks at the status again.  Only the product that was read is refreshed *)
(* next, so a change of other products leaves their lists behind.          *)
Strays(q, P) == IF P = {req[q].product} THEN {} ELSE P

(* As a bug: the list is read before the row is updated. *)
UpdateListed(q, op) ==
    /\ req[q].pc = op
    /\ req' = [req EXCEPT ![q] = [Refreshes(@.product, @.alone) EXCEPT
                                   !.pc = "set", !.rows = RowsOf(req[q].product)]]
    /\ UNCHANGED <<cached, restarts>>

Update(q, op) ==
    /\ req[q].pc = op
    /\ req' = [req EXCEPT ![q] = Refreshes(@.product, @.alone)]
    /\ UNCHANGED <<cached, restarts>>

UpdateRow(q, op, s) ==
    LET r == req[q].rule IN
    /\ Update(q, op)
    /\ status' = [status EXCEPT ![r] = IF Live(r) THEN s ELSE @]
    /\ dirty' = dirty \cup Strays(q, {productOf[r]})
    /\ UNCHANGED productOf

UpdateDeploy(q)   == UpdateRow(q, "deploy", "on")
UpdateUndeploy(q) == UpdateRow(q, "undeploy", "off")

(* As a bug: Del updates whatever row has the id. *)
UpdateDelAny(q) ==
    LET r == req[q].rule IN
    /\ Update(q, "del")
    /\ status' = [status EXCEPT ![r] = "deleted"]
    /\ dirty' = dirty \cup Strays(q, {productOf[r]})
    /\ UNCHANGED productOf

UpdateDel(q) ==
    LET r == req[q].rule IN
    /\ Update(q, "del")
    /\ status' = [status EXCEPT ![r] = IF @ = "off" THEN "deleted" ELSE @]
    /\ dirty' = dirty \cup Strays(q, {productOf[r]})
    /\ UNCHANGED productOf

UpdateEdit(q) ==
    LET r == req[q].rule IN
    /\ Update(q, "edit")
    /\ productOf' = [productOf EXCEPT ![r] = IF Live(r) THEN req[q].to ELSE @]
    /\ dirty' = dirty \cup Strays(q, {productOf[r], req[q].to})
    /\ UNCHANGED status

-----------------------------------------------------------------------------
(* cacheProductAlarmRuleChange: the rows of the product are listed; when   *)
(* there are none the request ends without touching the cache.             *)
Ends(q) == req' = [req EXCEPT ![q] = Idle]

Lists(q, rows) ==
    /\ req[q].pc = "list"
    /\ \/ /\ rows # {}
          /\ req' = [req EXCEPT ![q].pc = "set", ![q].rows = rows]
          /\ UNCHANGED dirty
       \/ /\ rows = {}
          /\ Ends(q)
          /\ dirty' = IF req[q].alone THEN dirty ELSE dirty \cup {req[q].product}
    /\ UNCHANGED <<status, productOf, cached, restarts>>

(* As a bug: the list is of the enabled rules, as at the start. *)
ListEnabled(q) == Lists(q, {x \in RowsOf(req[q].product) : x.on})

List(q) == Lists(q, RowsOf(req[q].product))

(* As a bug: the rows are added to those in the cache. *)
SetMerges(q) ==
    LET p == req[q].product IN
    /\ req[q].pc = "set"
    /\ cached' = [cached EXCEPT ![p] = @ \cup req[q].rows]
    /\ Ends(q)
    /\ dirty' = IF req[q].alone THEN dirty \ {p} ELSE dirty \cup {p}
    /\ UNCHANGED <<status, productOf, restarts>>

Set(q) ==
    LET p == req[q].product IN
    /\ req[q].pc = "set"
    /\ cached' = [cached EXCEPT ![p] = req[q].rows]
    /\ Ends(q)
    /\ dirty' = IF req[q].alone THEN dirty \ {p} ELSE dirty \cup {p}
    /\ UNCHANGED <<status, productOf, restarts>>

(* An error of the database or of Redis ends the request where it is; what *)
(* it has written stays, and nobody tries the rest again.                  *)
Fail(q) ==
    /\ InFlight(q)
    /\ Ends(q)
    /\ dirty' = IF req[q].pc \in Pending THEN dirty \cup {req[q].product} ELSE dirty
    /\ UNCHANGED <<status, productOf, cached, restarts>>

(* The process restarts, and with it CacheAllAlarmRule sets the lists of   *)
(* the products that have enabled rules, of enabled rules alone; setting   *)
(* some of them may fail, which is logged.                                 *)
Restart ==
    /\ restarts < MaxRestarts
    /\ restarts' = restarts + 1
    /\ req' = [q \in Requests |-> Idle]
    /\ \E S \in SUBSET {p \in Products : EnabledIn(p) # {}} :
         /\ cached' = [p \in Products |-> IF p \in S THEN {x \in RowsOf(p) : x.on}
                                                     ELSE cached[p]]
         /\ dirty' = (dirty \cup {p \in Products : Refreshing(p) # {}}) \ S
    /\ UNCHANGED <<status, productOf>>

RefreshCache(q) == List(q) \/ Set(q) \/ Fail(q)

AlarmNext ==
    \/ \E q \in Requests, r \in Rules : \E p \in Places[r] : Add(q, r, p)
    \/ \E q \in Requests, r \in Rules, op \in Ops : \E to \in Places[r] : Read(q, r, op, to)
    \/ \E q \in Requests : \/ UpdateDeploy(q) \/ UpdateUndeploy(q)
                           \/ UpdateDel(q) \/ UpdateEdit(q)
                           \/ RefreshCache(q)
    \/ Restart

AlarmSpec == AlarmInit /\ [][AlarmNext]_alarmVars

-----------------------------------------------------------------------------
(* A rule has its id once in the list of a product; a request that lists   *)
(* or sets has a rule that was added. *)
AlarmTypeOK ==
    /\ status \in [Rules -> {"absent", "off", "on", "deleted"}]
    /\ productOf \in [Rules -> Products \cup {NoProduct}]
    /\ \A r \in Rules : status[r] # "absent" => productOf[r] \in Products
    /\ cached \in [Products -> SUBSET Row]
    /\ \A p \in Products : \A x, y \in cached[p] : x.id = y.id => x = y
    /\ req \in [Requests -> Change \cup Refresh \cup {Idle}]
    /\ \A q \in Requests : \A x, y \in req[q].rows : x.id = y.id => x = y
    /\ \A q \in Requests : req[q].pc \in Ops => status[req[q].rule] # "absent"
    /\ restarts \in 0 .. MaxRestarts
    /\ dirty \subseteq Products

(* A rule goes absent, off, on and off again, and is deleted only while it *)
(* is off, for good: although Del reads the status and writes the row in   *)
(* two statements, an enabling in between is not lost.                     *)
RuleLife ==
    [][\A r \in Rules :
         \/ status'[r] = status[r]
         \/ status[r] = "absent" /\ status'[r] = "off"
         \/ status[r] = "off" /\ status'[r] \in {"on", "deleted"}
         \/ status[r] = "on" /\ status'[r] = "off"]_alarmVars

(* A request that has been the only one at work on its product sets what   *)
(* the table says: one change made alone repairs the list of its product,  *)
(* whatever went wrong before. *)
RefreshIsCurrent ==
    \A q \in Requests :
      req[q].pc = "set" /\ req[q].alone => req[q].rows = RowsOf(req[q].product)

(* The rules that are enabled in the cache are those that are enabled in   *)
(* the table, when no refresh of the product is under way, except after a  *)
(* change that overlapped another of the product, failed midway or moved a *)
(* rule from one product to another.  In particular a list that stays when *)
(* the last rule of its product is deleted has no enabled rule. *)
EnabledAgree ==
    \A p \in Products : p \notin dirty /\ Refreshing(p) = {} => CachedOn(p) = EnabledIn(p)

(* What enabling a rule is for: a report is checked against the enabled    *)
(* rules of its product.  It is not: the list is left at the first         *)
(* disabled rule. *)
EnabledIsChecked ==
    \A p \in Products : p \notin dirty /\ Refreshing(p) = {} => EnabledIn(p) \subseteq Checked(p)
=============================================================================
