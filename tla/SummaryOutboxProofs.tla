------------------------ MODULE SummaryOutboxProofs -------------------------
(***************************************************************************)
(* What the delivery of summaries promises, for any number of runs,        *)
(* workers, embedding configurations and raising calls.                    *)
(*                                                                         *)
(* The argument.  A memory is written only by a worker at "deliver", and   *)
(* what brought it there (the row it claimed has a text, and a             *)
(* configuration that never changes again) outlives its claim; so it does  *)
(* not matter whether the worker still holds the row.  A worker at         *)
(* "written" likewise knows that the memory exists, and one at             *)
(* "quarantine" that there is no text.  Those facts about delivery[w] are  *)
(* the strengthening: neither property is inductive without them.          *)
(***************************************************************************)
EXTENDS SummaryOutbox, TLAPS

Delivering == {"deliver", "written", "retry"}

(* A row that exists keeps its configuration, and has its one memory or    *)
(* none.                                                                   *)
ItemInv(r) ==
  /\ items[r].state # "none" => items[r].model \in Models
  /\ memories[r] \in {<<>>, <<items[r].model>>}
  /\ memories[r] # <<>> => items[r].state # "none" /\ items[r].text = TRUE
  /\ items[r].state = "delivered" => memories[r] # <<>>
  /\ items[r].state = "rejected" => items[r].text = FALSE

(* What a worker at work knows of its row, whoever holds it now. *)
WorkInv(w) ==
  /\ delivery[w].stage \in Delivering \cup {"quarantine"} =>
       /\ delivery[w].run \in Runs
       /\ items[delivery[w].run].state # "none"
  /\ delivery[w].stage \in Delivering => items[delivery[w].run].text = TRUE
  /\ delivery[w].stage = "quarantine" => items[delivery[w].run].text = FALSE
  /\ delivery[w].stage = "written" => memories[delivery[w].run] # <<>>

OutboxInv ==
  /\ OutboxTypeOK
  /\ \A r \in Runs : ItemInv(r)
  /\ \A w \in Workers : WorkInv(w)
(* What every step must show of the rows. *)
RowsStayGood ==
  /\ items' \in [Runs -> Item]
  /\ \A x \in Runs :
       /\ items'[x].stale => items'[x].holder # NULL
       /\ items'[x].holder # NULL => items'[x].state = "waiting"
  /\ \A x \in Runs : ItemInv(x)'
  /\ \A x \in Runs : items[x].state # "none" =>
                         /\ items'[x].state # "none"
                         /\ items'[x].text = items[x].text
-----------------------------------------------------------------------------
(* A step that writes no row. *)
LEMMA RowsUntouched ==
  ASSUME OutboxInv, UNCHANGED <<items, memories>>
  PROVE  RowsStayGood
BY DEF RowsStayGood, OutboxInv, OutboxTypeOK, ItemInv

(* A step that writes one row, to which it gives a state it may have.      *)
LEMMA Written ==
  ASSUME OutboxInv, NEW r \in Runs, NEW item \in Item,
         items' = [items EXCEPT ![r] = item],
         item.stale => item.holder # NULL,
         item.holder # NULL => item.state = "waiting",
         item.state # "none",
         item.model \in Models,
         items[r].state # "none" => item.model = items[r].model
                                    /\ item.text = items[r].text,
         item.state = "delivered" => memories[r] # <<>>,
         item.state = "rejected" => item.text = FALSE,
         UNCHANGED memories
  PROVE  RowsStayGood
<1>1. items \in [Runs -> Item]
  BY DEF OutboxInv, OutboxTypeOK
<1>2. items'[r] = item /\ \A x \in Runs \ {r} : items'[x] = items[x]
  BY <1>1
<1>3. items' \in [Runs -> Item]
  BY <1>1
<1>4. \A x \in Runs : /\ items'[x].stale => items'[x].holder # NULL
                      /\ items'[x].holder # NULL => items'[x].state = "waiting"
  BY <1>2 DEF OutboxInv, OutboxTypeOK
<1>5. ASSUME NEW x \in Runs PROVE ItemInv(x)'
  <2>1. ItemInv(x)
    BY DEF OutboxInv
  <2>2. CASE x = r
    BY <1>2, <2>1, <2>2 DEF ItemInv
  <2>3. CASE x # r
    BY <1>2, <2>1, <2>3 DEF ItemInv
  <2> QED
    BY <2>2, <2>3
<1>6. \A x \in Runs : items[x].state # "none" =>
                          /\ items'[x].state # "none"
                          /\ items'[x].text = items[x].text
  BY <1>2
<1> QED
  BY <1>3, <1>4, <1>5, <1>6 DEF RowsStayGood

(* The workers' part, when no row is forgotten or loses its memory, and at *)
(* most one worker moves.                                                  *)
LEMMA Moved ==
  ASSUME OutboxInv, NEW w \in Workers, NEW d \in Delivery,
         delivery' = [delivery EXCEPT ![w] = d],
         RowsStayGood,
         \A x \in Runs : memories[x] # <<>> => memories'[x] # <<>>,
         d.stage \in Delivering \cup {"quarantine"} =>
           d.run \in Runs /\ items'[d.run].state # "none",
         d.stage \in Delivering => items'[d.run].text = TRUE,
         d.stage = "quarantine" => items'[d.run].text = FALSE,
         d.stage = "written" => memories'[d.run] # <<>>
  PROVE  /\ delivery' \in [Workers -> Delivery]
         /\ \A v \in Workers : WorkInv(v)'
<1>1. delivery \in [Workers -> Delivery]
  BY DEF OutboxInv, OutboxTypeOK
<1>2. delivery' \in [Workers -> Delivery]
  BY <1>1
<1>3. delivery'[w] = d /\ \A v \in Workers \ {w} : delivery'[v] = delivery[v]
  BY <1>1
<1>4. ASSUME NEW v \in Workers PROVE WorkInv(v)'
  <2>1. WorkInv(v)
    BY DEF OutboxInv
  <2>2. CASE v = w
    BY <1>3, <2>2 DEF WorkInv
  <2>3. CASE v # w
    BY <1>3, <2>1, <2>3 DEF WorkInv, Delivering, RowsStayGood
  <2> QED
    BY <2>2, <2>3
<1> QED
  BY <1>2, <1>4

(* LetGo leaves a worker without obligations. *)
LEMMA LetsGo ==
  ASSUME OutboxInv, NEW w \in Workers, NEW stage \in {"idle", "exited"},
         LetGo(w, stage),
         RowsStayGood,
         UNCHANGED memories
  PROVE  /\ delivery' \in [Workers -> Delivery]
         /\ \A v \in Workers : WorkInv(v)'
<1> DEFINE d == [stage |-> stage, run |-> NULL]
<1>1. d \in Delivery
  BY DEF Delivery, Stages
<1>2. delivery' = [delivery EXCEPT ![w] = d]
  BY DEF LetGo
<1>3. d.stage \notin Delivering \cup {"quarantine"}
  BY DEF Delivering
<1>4. d.stage # "quarantine" /\ d.stage # "written"
  OBVIOUS
<1> HIDE DEF d
<1> QED
  BY <1>1, <1>2, <1>3, <1>4, Moved

(* Freeing a row a worker holds, as the calls that end a claim do; a row   *)
(* it does not hold is left alone.                                         *)
LEMMA Freed ==
  ASSUME OutboxInv, NEW w \in Workers, NEW r \in Runs, r = Target(w),
         NEW state \in {"delivered", "rejected"},
         state = "delivered" => memories[r] # <<>>,
         state = "rejected" => items[r].text = FALSE,
         Holds(w),
         items' = [items EXCEPT ![r] = Free(@, state)],
         UNCHANGED memories
  PROVE  RowsStayGood
<1>1. items[r] \in Item /\ items[r].state = "waiting" /\ ItemInv(r)
  BY DEF OutboxInv, OutboxTypeOK, Holds
<1> DEFINE item == Free(items[r], state)
<1>2. /\ item \in Item
      /\ item.state = state /\ item.holder = NULL /\ item.stale = FALSE
      /\ item.model = items[r].model /\ item.text = items[r].text
  BY <1>1 DEF Free, Item
<1>3. items[r].model \in Models
  BY <1>1 DEF ItemInv
<1>4. items' = [items EXCEPT ![r] = item]
  OBVIOUS
<1> HIDE DEF item
<1>5. item.state = "delivered" => memories[r] # <<>>
  BY <1>2
<1>6. item.state = "rejected" => item.text = FALSE
  BY <1>2
<1>7. /\ item.state # "none" /\ item.model \in Models
      /\ item.stale => item.holder # NULL
      /\ item.holder # NULL => item.state = "waiting"
  BY <1>2, <1>3
<1> QED
  BY <1>2, <1>4, <1>5, <1>6, <1>7, Written

(* The same for a row that is given back. *)
LEMMA GivenBack ==
  ASSUME OutboxInv, NEW w \in Workers, Target(w) \in Runs, GiveBack(w),
         UNCHANGED memories
  PROVE  RowsStayGood
<1> DEFINE r == Target(w)
           item == Postponed(items[r])
<1>1. items[r] \in Item /\ ItemInv(r)
  BY DEF OutboxInv, OutboxTypeOK
<1>2. CASE Holds(w)
  <2>1. items[r].state = "waiting"
    BY <1>2 DEF Holds
  <2>2. /\ item \in Item
        /\ item.state = "waiting" /\ item.holder = NULL /\ item.stale = FALSE
        /\ item.model = items[r].model /\ item.text = items[r].text
    BY <1>1, <2>1 DEF Postponed, Item
  <2>3. items[r].model \in Models
    BY <1>1, <2>1 DEF ItemInv
  <2>4. items' = [items EXCEPT ![r] = item]
    BY <1>2 DEF GiveBack
  <2> HIDE DEF item, r
  <2>5. r \in Runs
    BY DEF r
  <2> QED
    BY <2>2, <2>3, <2>4, <2>5, Written
<1>3. CASE ~Holds(w)
  <2>1. items' = items
    BY <1>3 DEF GiveBack
  <2> QED
    BY <2>1, RowsUntouched
<1> QED
  BY <1>2, <1>3

(* OutboxInv holds at the start. *)
LEMMA InitInv == OutboxInit => OutboxInv
<1> SUFFICES ASSUME OutboxInit PROVE OutboxInv
  OBVIOUS
<1>1. OutboxTypeOK
  BY OutboxAssumption
  DEF OutboxInit, OutboxTypeOK, Item, Delivery, Stages
<1>2. ASSUME NEW r \in Runs PROVE ItemInv(r)
  BY <1>2 DEF OutboxInit, ItemInv
<1>3. ASSUME NEW w \in Workers PROVE WorkInv(w)
  BY <1>3 DEF OutboxInit, WorkInv, Delivering
<1> QED
  BY <1>1, <1>2, <1>3 DEF OutboxInv

(* What is left to show of a step once its rows and its worker are known   *)
(* to be good and it wrote no memory.                                      *)
LEMMA Together ==
  ASSUME OutboxInv,
         RowsStayGood,
         delivery' \in [Workers -> Delivery]
         /\ \A v \in Workers : WorkInv(v)',
         UNCHANGED memories, Quiet \/ Fault
  PROVE  OutboxInv'
<1>1. memories' \in [Runs -> Seq(Models)]
  BY DEF OutboxInv, OutboxTypeOK
<1>2. faults' \in 0..MaxFaults
  BY OutboxAssumption DEF OutboxInv, OutboxTypeOK, Quiet, Fault
<1> QED
  BY <1>1, <1>2 DEF OutboxInv, OutboxTypeOK, RowsStayGood

(* One step per action. *)
LEMMA StepInv == OutboxInv /\ [OutboxNext]_ovars => OutboxInv'
<1> SUFFICES ASSUME OutboxInv, [OutboxNext]_ovars PROVE OutboxInv'
  OBVIOUS
<1> USE DEF Target, At
<1>1. ASSUME NEW r \in Runs, NEW model \in Models, NEW text \in BOOLEAN,
             Produce(r, model, text)
      PROVE  OutboxInv'
  <2> DEFINE item == [items[r] EXCEPT !.state = "waiting", !.model = model,
                                      !.text = text, !.due = TRUE]
  <2>1. items[r] \in Item /\ items[r].holder = NULL /\ items[r].state = "none"
    BY <1>1 DEF OutboxInv, OutboxTypeOK, Produce
  <2>2. /\ item \in Item
        /\ item.state = "waiting" /\ item.holder = NULL /\ item.model = model
        /\ item.stale = items[r].stale
    BY <2>1 DEF Item
  <2>3. items[r].stale => items[r].holder # NULL
    BY DEF OutboxInv, OutboxTypeOK
  <2>4. items' = [items EXCEPT ![r] = item] /\ UNCHANGED <<memories, delivery, faults>>
    BY <1>1 DEF Produce
  <2> HIDE DEF item
  <2>5. RowsStayGood
    BY <2>1, <2>2, <2>3, <2>4, Written
  <2>6. /\ delivery' \in [Workers -> Delivery]
        /\ \A v \in Workers : WorkInv(v)'
    BY <2>4, <2>5 DEF RowsStayGood, OutboxInv, OutboxTypeOK, WorkInv, Delivering
  <2> QED
    BY <2>4, <2>5, <2>6, Together DEF Quiet
<1>2. ASSUME NEW w \in Workers, NEW r \in Runs, At(w, "idle"), ClaimTx(w, r),
             \/ UNCHANGED delivery
             \/ delivery' = [delivery EXCEPT ![w] =
                               [stage |-> AfterClaim(w, r), run |-> r]],
             Quiet \/ Fault
      PROVE  OutboxInv'
  <2> DEFINE item == [items[r] EXCEPT !.holder = w, !.stale = FALSE]
             d == [stage |-> AfterClaim(w, r), run |-> r]
  <2>1. items[r] \in Item /\ items[r].state = "waiting" /\ ItemInv(r)
    BY <1>2 DEF OutboxInv, OutboxTypeOK, ClaimTx, Claimable
  <2>2. /\ item \in Item
        /\ item.state = "waiting" /\ item.stale = FALSE
        /\ item.model = items[r].model /\ item.text = items[r].text
    BY <2>1 DEF Item
  <2>3. items[r].model \in Models
    BY <2>1 DEF ItemInv
  <2>4. items' = [items EXCEPT ![r] = item] /\ UNCHANGED memories
    BY <1>2 DEF ClaimTx, OutboxInv, OutboxTypeOK
  <2>5. items'[r] = item
    BY <2>4 DEF OutboxInv, OutboxTypeOK
  <2>6. items[r].text \in BOOLEAN
    BY <2>1 DEF Item
  <2> HIDE DEF item
  <2>7. RowsStayGood
    BY <2>1, <2>2, <2>3, <2>4, Written
  <2>8. CASE UNCHANGED delivery
    <3>1. /\ delivery' \in [Workers -> Delivery]
          /\ \A v \in Workers : WorkInv(v)'
      BY <2>4, <2>7, <2>8
      DEF RowsStayGood, OutboxInv, OutboxTypeOK, WorkInv, Delivering
    <3> QED
      BY <1>2, <2>4, <2>7, <3>1, Together
  <2>9. CASE delivery' = [delivery EXCEPT ![w] = d]
    <3>1. d \in Delivery /\ d.run = r
      BY DEF AfterClaim, Delivery, Stages
    <3>2. /\ d.stage \in Delivering => items'[r].text = TRUE
          /\ d.stage = "quarantine" => items'[r].text = FALSE
          /\ d.stage # "written"
          /\ items'[r].state # "none"
      BY <2>2, <2>5, <2>6 DEF AfterClaim, Delivering
    <3> HIDE DEF d
    <3>3. \A x \in Runs : memories[x] # <<>> => memories'[x] # <<>>
      BY <2>4
    <3>4. /\ delivery' \in [Workers -> Delivery]
          /\ \A v \in Workers : WorkInv(v)'
      BY <2>7, <2>9, <3>1, <3>2, <3>3, Moved
    <3> QED
      BY <1>2, <2>4, <2>7, <3>4, Together
  <2> QED
    BY <1>2, <2>8, <2>9
<1>3. ASSUME NEW w \in Workers, QuarantineSummary(w)
      PROVE  OutboxInv'
  <2>1. Target(w) \in Runs /\ items[Target(w)].text = FALSE
    BY <1>3 DEF QuarantineSummary, OutboxInv, WorkInv
  <2>2. RowsStayGood
    <3>1. CASE Holds(w)
      <4>1. items' = [items EXCEPT ![Target(w)] = Free(@, "rejected")]
        BY <1>3, <3>1 DEF QuarantineSummary
      <4> QED
        BY <1>3, <2>1, <3>1, <4>1, Freed DEF QuarantineSummary, RowsStayGood
    <3>2. CASE ~Holds(w)
      BY <1>3, <3>2, RowsUntouched DEF QuarantineSummary
    <3> QED
      BY <3>1, <3>2
  <2> QED
    BY <1>3, <2>2, LetsGo, Together DEF QuarantineSummary, RowsStayGood
<1>4. ASSUME NEW w \in Workers, RetryMismatch(w) \/ RetryFailed(w)
      PROVE  OutboxInv'
  <2>1. Target(w) \in Runs
    BY <1>4 DEF RetryMismatch, RetryFailed, OutboxInv, WorkInv, Delivering
  <2>2. GiveBack(w) /\ LetGo(w, "idle") /\ UNCHANGED memories /\ Quiet
    BY <1>4 DEF RetryMismatch, RetryFailed
  <2>3. RowsStayGood
    BY <2>1, <2>2, GivenBack DEF RowsStayGood
  <2> QED
    BY <2>2, <2>3, LetsGo, Together DEF RowsStayGood
<1>5. ASSUME NEW w \in Workers, WriteMemory(w)
      PROVE  OutboxInv'
  <2> DEFINE r == Target(w)
             d == [delivery[w] EXCEPT !.stage = "written"]
  <2>1. /\ r \in Runs /\ items[r].state # "none" /\ items[r].text = TRUE
        /\ items[r].model = Embeds[w] /\ items[r].model \in Models
        /\ memories[r] \in {<<>>, <<items[r].model>>}
    BY <1>5 DEF WriteMemory, Compatible, OutboxInv, WorkInv, ItemInv, Delivering
  <2>2. memories' = [memories EXCEPT ![r] = <<items[r].model>>]
    BY <1>5, <2>1 DEF WriteMemory, Inserted, OutboxInv, OutboxTypeOK
  <2>3. /\ <<items[r].model>> \in Seq(Models)
        /\ <<items[r].model>> # <<>>
    BY <2>1
  <2>4. /\ memories' \in [Runs -> Seq(Models)]
        /\ memories'[r] = <<items[r].model>>
        /\ \A x \in Runs \ {r} : memories'[x] = memories[x]
    BY <2>1, <2>2, <2>3 DEF OutboxInv, OutboxTypeOK
  <2>5. /\ items' = items /\ faults' = faults
        /\ delivery' = [delivery EXCEPT ![w] = d]
    BY <1>5 DEF WriteMemory, Goto, Quiet, OutboxInv, OutboxTypeOK
  <2>6. d \in Delivery /\ d.run = r /\ d.stage = "written"
    BY DEF OutboxInv, OutboxTypeOK, Delivery, Stages
  <2> HIDE DEF r, d
  <2>7. ASSUME NEW x \in Runs PROVE ItemInv(x)'
    <3>1. ItemInv(x)
      BY DEF OutboxInv
    <3>2. CASE x = r
      BY <2>1, <2>3, <2>4, <2>5, <3>1, <3>2 DEF ItemInv
    <3>3. CASE x # r
      BY <2>4, <2>5, <3>1, <3>3 DEF ItemInv
    <3> QED
      BY <3>2, <3>3
  <2>8. \A x \in Runs : memories[x] # <<>> => memories'[x] # <<>>
    BY <2>3, <2>4
  <2>9. d.stage \in Delivering /\ d.stage # "quarantine"
    BY <2>6 DEF Delivering
  <2>10. RowsStayGood
    BY <2>5, <2>7 DEF RowsStayGood, OutboxInv, OutboxTypeOK
  <2>11. items'[r].state # "none" /\ items'[r].text = TRUE /\ memories'[r] # <<>>
    BY <2>1, <2>3, <2>4, <2>5
  <2>12. /\ delivery' \in [Workers -> Delivery]
         /\ \A v \in Workers : WorkInv(v)'
    BY <2>1, <2>5, <2>6, <2>8, <2>9, <2>10, <2>11, Moved
  <2> QED
    BY <2>4, <2>5, <2>7, <2>12 DEF OutboxInv, OutboxTypeOK
<1>6. ASSUME NEW w \in Workers, CompleteSummary(w)
      PROVE  OutboxInv'
  <2>1. Target(w) \in Runs /\ memories[Target(w)] # <<>>
    BY <1>6 DEF CompleteSummary, OutboxInv, WorkInv, Delivering
  <2>2. RowsStayGood
    <3>1. CASE Holds(w)
      <4>1. items' = [items EXCEPT ![Target(w)] = Free(@, "delivered")]
        BY <1>6, <3>1 DEF CompleteSummary
      <4> QED
        BY <1>6, <2>1, <3>1, <4>1, Freed DEF CompleteSummary, RowsStayGood
    <3>2. CASE ~Holds(w)
      BY <1>6, <3>2, RowsUntouched DEF CompleteSummary
    <3> QED
      BY <3>1, <3>2
  <2> QED
    BY <1>6, <2>2, LetsGo, Together DEF CompleteSummary, RowsStayGood
<1>7. ASSUME NEW w \in Workers, DeliveryRaises(w)
      PROVE  OutboxInv'
  <2> DEFINE d == [delivery[w] EXCEPT !.stage = "retry"]
  <2>1. /\ delivery[w].stage \in Delivering
        /\ Target(w) \in Runs /\ items[Target(w)].text = TRUE
        /\ items[Target(w)].state # "none"
        /\ At(w, "written") => memories[Target(w)] # <<>>
    BY <1>7 DEF DeliveryRaises, OutboxInv, WorkInv, Delivering
  <2>2. RowsStayGood
    <3>1. CASE UNCHANGED items
      BY <1>7, <3>1, RowsUntouched DEF DeliveryRaises
    <3>2. CASE /\ At(w, "written") /\ Holds(w)
               /\ items' = [items EXCEPT ![Target(w)] = Free(@, "delivered")]
      BY <1>7, <2>1, <3>2, Freed DEF DeliveryRaises, RowsStayGood
    <3> QED
      BY <1>7, <3>1, <3>2 DEF DeliveryRaises
  <2>3. delivery' = [delivery EXCEPT ![w] = d] /\ UNCHANGED memories /\ Fault
    BY <1>7 DEF DeliveryRaises, Goto, AfterRaise, OutboxInv, OutboxTypeOK
  <2>4. d \in Delivery /\ d.run = Target(w) /\ d.stage = "retry"
    BY DEF OutboxInv, OutboxTypeOK, Delivery, Stages
  <2> HIDE DEF d
  <2>5. /\ items'[Target(w)].text = TRUE /\ items'[Target(w)].state # "none"
    BY <2>1, <2>2 DEF RowsStayGood
  <2>6. \A x \in Runs : memories[x] # <<>> => memories'[x] # <<>>
    BY <2>3
  <2>7. d.stage # "quarantine" /\ d.stage # "written"
    BY <2>4
  <2>8. /\ delivery' \in [Workers -> Delivery]
        /\ \A v \in Workers : WorkInv(v)'
    BY <2>1, <2>2, <2>3, <2>4, <2>5, <2>6, <2>7, Moved DEF RowsStayGood
  <2> QED
    BY <2>2, <2>3, <2>8, Together DEF RowsStayGood
<1>8. ASSUME NEW w \in Workers, GiveBackRaises(w)
      PROVE  OutboxInv'
  <2>1. RowsStayGood
    BY <1>8, RowsUntouched DEF GiveBackRaises
  <2> QED
    BY <1>8, <2>1, LetsGo, Together DEF GiveBackRaises, RowsStayGood
<1>9. ASSUME NEW w \in Workers, Exit(w)
      PROVE  OutboxInv'
  <2>1. RowsStayGood
    BY <1>9, RowsUntouched DEF Exit
  <2> QED
    BY <1>9, <2>1, LetsGo, Together DEF Exit, RowsStayGood, Quiet
<1>10. ASSUME NEW r \in Runs, BecomeDue(r) \/ BecomeStale(r)
       PROVE  OutboxInv'
  <2> DEFINE item == IF BecomeDue(r) THEN [items[r] EXCEPT !.due = TRUE]
                                     ELSE [items[r] EXCEPT !.stale = TRUE]
  <2>1. /\ items[r] \in Item /\ items[r].state = "waiting" /\ ItemInv(r)
        /\ items[r].stale => items[r].holder # NULL
    BY <1>10 DEF OutboxInv, OutboxTypeOK, BecomeDue, BecomeStale
  <2>2. /\ item \in Item /\ item.state = "waiting"
        /\ item.stale => item.holder # NULL
        /\ item.model = items[r].model /\ item.text = items[r].text
    BY <1>10, <2>1 DEF Item, BecomeStale
  <2>3. items[r].model \in Models
    BY <2>1 DEF ItemInv
  <2>4. items' = [items EXCEPT ![r] = item] /\ UNCHANGED <<memories, delivery, faults>>
    BY <1>10 DEF BecomeDue, BecomeStale, OutboxInv, OutboxTypeOK
  <2> HIDE DEF item
  <2>5. RowsStayGood
    BY <2>1, <2>2, <2>3, <2>4, Written DEF RowsStayGood
  <2>6. /\ delivery' \in [Workers -> Delivery]
        /\ \A v \in Workers : WorkInv(v)'
    BY <2>4, <2>5 DEF RowsStayGood, OutboxInv, OutboxTypeOK, WorkInv, Delivering
  <2> QED
    BY <2>4, <2>5, <2>6, Together DEF RowsStayGood, Quiet
<1>11. CASE UNCHANGED ovars
  BY <1>11 DEF ovars, OutboxInv, OutboxTypeOK, ItemInv, WorkInv
<1>12. ASSUME NEW w \in Workers, NEW r \in Runs,
              ClaimSummary(w, r) \/ ClaimAnswerLost(w, r)
       PROVE  OutboxInv'
  BY <1>2, <1>12 DEF ClaimSummary, ClaimAnswerLost
<1>13. ASSUME NEW w \in Workers, DeliveryStep(w)
       PROVE  OutboxInv'
  BY <1>3, <1>4, <1>5, <1>6, <1>13 DEF DeliveryStep
<1> QED
  BY <1>1, <1>7, <1>8, <1>9, <1>10, <1>11, <1>12, <1>13 DEF OutboxNext
-----------------------------------------------------------------------------
(* The strengthened invariant holds always. *)
THEOREM DeliveryInvariance == OutboxSpec => []OutboxInv
<1>1. OutboxInit => OutboxInv
  BY InitInv
<1>2. OutboxInv /\ [OutboxNext]_ovars => OutboxInv'
  BY StepInv
<1> QED
  BY <1>1, <1>2, PTL DEF OutboxSpec

(* The table, the memories and the workers keep their types, only waiting  *)
(* rows are claimed and only claims expire.                                *)
THEOREM OutboxTypes == OutboxSpec => []OutboxTypeOK
<1>1. OutboxInv => OutboxTypeOK
  BY DEF OutboxInv
<1> QED
  BY <1>1, DeliveryInvariance, PTL

(* A run leaves one memory, in the configuration it was made under,        *)
(* however often and by however many workers its summary is delivered.     *)
THEOREM OneMemory == OutboxSpec => []OneMemoryPerRun
<1>1. OutboxInv => OneMemoryPerRun
  <2> SUFFICES ASSUME OutboxInv, NEW r \in Runs
               PROVE  /\ Len(memories[r]) <= 1
                      /\ memories[r] # <<>> => memories[r][1] = items[r].model
    BY DEF OneMemoryPerRun
  <2>1. memories[r] \in {<<>>, <<items[r].model>>}
    BY DEF OutboxInv, ItemInv
  <2>2. CASE memories[r] = <<>>
    BY <2>2
  <2>3. CASE memories[r] = <<items[r].model>>
    BY <2>3
  <2> QED
    BY <2>1, <2>2, <2>3
<1> QED
  BY <1>1, DeliveryInvariance, PTL

(* No summary is marked delivered without its memory, and none with a text *)
(* is rejected.                                                            *)
THEOREM NothingIsForgotten == OutboxSpec => []DeliveredIsRemembered
<1>1. OutboxInv => DeliveredIsRemembered
  BY DEF OutboxInv, ItemInv, DeliveredIsRemembered
<1> QED
  BY <1>1, DeliveryInvariance, PTL

(* A step that frees a row frees that of a worker at work that holds it.   *)
LEMMA OnlyHeldRowsAreFreed ==
  ASSUME OutboxInv, NEW w \in Workers, NEW r \in Runs,
         delivery[w].stage \in Delivering \cup {"quarantine"},
         delivery'[w] # delivery[w],
         \/ UNCHANGED items
         \/ Holds(w) /\ \E item : items' = [items EXCEPT ![Target(w)] = item]
  PROVE  /\ items[r].state \in Settled => items'[r] = items[r]
         /\ items'[r].holder # items[r].holder =>
              w = items[r].holder /\ Target(w) = r
<1>1. items \in [Runs -> Item] /\ Target(w) \in Runs
  BY DEF OutboxInv, OutboxTypeOK, WorkInv, Target
<1>2. CASE Target(w) = r
  BY <1>1, <1>2 DEF Holds, Settled
<1>3. CASE Target(w) # r
  BY <1>1, <1>3
<1> QED
  BY <1>2, <1>3

(* A claim that has not expired is ended only by its holder, and a settled *)
(* summary never changes again: what two workers that deliver the same     *)
(* summary can do to each other is nothing.                                *)
THEOREM HolderSettles == OutboxSpec => OnlyHolderSettles
<1> DEFINE Ended(r) ==
      /\ items[r].holder # NULL /\ ~items[r].stale
      /\ items'[r].holder # items[r].holder
           Kept(r) ==
      /\ items[r].state \in Settled => items'[r] = items[r]
      /\ Ended(r) => \E w \in Workers : /\ w = items[r].holder
                                        /\ Target(w) = r
                                        /\ delivery'[w] # delivery[w]
<1>1. ASSUME OutboxInv, [OutboxNext]_ovars, NEW r \in Runs
      PROVE  Kept(r)
  <2>1. /\ items \in [Runs -> Item] /\ memories \in [Runs -> Seq(Models)]
        /\ delivery \in [Workers -> Delivery]
        /\ \A v \in Workers : WorkInv(v)
    BY <1>1 DEF OutboxInv, OutboxTypeOK
  <2>2. ASSUME NEW w \in Workers, DeliveryStep(w) \/ DeliveryRaises(w)
        PROVE  Kept(r)
    <3>1. delivery[w].stage \in Delivering \cup {"quarantine"}
      BY <2>2 DEF DeliveryStep, QuarantineSummary, RetryMismatch, WriteMemory,
        CompleteSummary, RetryFailed, DeliveryRaises, At, Delivering
    <3>2. delivery'[w] # delivery[w]
      BY <2>1, <2>2 DEF DeliveryStep, QuarantineSummary, RetryMismatch,
        WriteMemory, CompleteSummary, RetryFailed, DeliveryRaises, At, LetGo,
        Goto, AfterRaise, Delivery
    <3>3. \/ UNCHANGED items
          \/ Holds(w) /\ \E item : items' = [items EXCEPT ![Target(w)] = item]
      BY <2>2 DEF DeliveryStep, QuarantineSummary, RetryMismatch, WriteMemory,
        CompleteSummary, RetryFailed, DeliveryRaises, GiveBack
    <3> QED
      BY <1>1, <3>1, <3>2, <3>3, OnlyHeldRowsAreFreed
  <2>3. ASSUME NEW x \in Runs, NEW model \in Models, NEW text \in BOOLEAN,
               Produce(x, model, text)
        PROVE  Kept(r)
    BY <2>1, <2>3 DEF Produce, Settled, Item
  <2>4. ASSUME NEW w \in Workers, NEW x \in Runs, ClaimTx(w, x)
        PROVE  Kept(r)
    BY <2>1, <2>4 DEF ClaimTx, Claimable, Settled, Item
  <2>5. ASSUME NEW x \in Runs, BecomeDue(x) \/ BecomeStale(x)
        PROVE  Kept(r)
    BY <2>1, <2>5 DEF BecomeDue, BecomeStale, Settled, Item
  <2>6. CASE UNCHANGED items
    BY <2>6
  <2> QED
    BY <1>1, <2>2, <2>3, <2>4, <2>5, <2>6
    DEF OutboxNext, ovars, ClaimSummary, ClaimAnswerLost, GiveBackRaises, Exit
<1>2. OutboxInv /\ [OutboxNext]_ovars
        => [\A r \in Runs : Kept(r)]_ovars
  BY <1>1
<1>3. OutboxSpec => [][\A r \in Runs : Kept(r)]_ovars
  BY <1>2, DeliveryInvariance, PTL DEF OutboxSpec
<1>4. [\A r \in Runs : Kept(r)]_ovars <=>
      [\A r \in Runs :
         /\ items[r].state \in Settled => items'[r] = items[r]
         /\ items[r].holder # NULL /\ ~items[r].stale
              /\ items'[r].holder # items[r].holder
            => \E w \in Workers :
                 /\ w = items[r].holder
                 /\ Target(w) = r
                 /\ delivery'[w] # delivery[w]]_ovars
  OBVIOUS
<1> QED
  BY <1>3, <1>4, PTL DEF OnlyHolderSettles
=============================================================================
