----------------------------- MODULE WebProofs ------------------------------
(***************************************************************************)
(* Proofs about WebClient, for every number of users, conversations, calls *)
(* in flight and events.  A handler between two awaits is a page and what  *)
(* it has still to do, next to the other calls in flight.  The invariant   *)
(* of the calls in flight, Good and Usable, is first shown to carry over   *)
(* from what an answer changes (Continue) to what the handler does next    *)
(* (Proceed), then for every action; Undisturbed is the same for a handler *)
(* that runs alone.                                                        *)
(***************************************************************************)
EXTENDS WebClient, DataInduction, SequenceTheorems

-----------------------------------------------------------------------------
(* What the server answers from *)

\* A list of the server holds conversations of the user who asks for it, none twice.
LEMMA OwnLists ==
    ASSUME server \in Server, NEW u
    PROVE  /\ Own(u) \in Listing /\ ListFor(u) \in Listing
           /\ \A i \in 1..Len(ListFor(u)) : server.owner[ListFor(u)[i]] = u
           /\ \A c \in Conv : Contains(Own(u), c) => server.owner[c] = u
<1> DEFINE mine == {c \in Conv : server.owner[c] = u}
<1>1. server.recent \in Seq(Conv) /\ IsInjective(server.recent)
  BY DEF Server, Listing
<1>2. Own(u) = Keep(server.recent, mine)
  BY DEF Own
<1>3. /\ Own(u) \in Seq(Conv) /\ IsInjective(Own(u))
      /\ \A i \in 1..Len(Own(u)) : Own(u)[i] \in mine
  <2> HIDE DEF mine
  <2> QED
    BY <1>1, <1>2, KeepElements
<1> DEFINE n == IF Len(Own(u)) < Limit THEN Len(Own(u)) ELSE Limit
<1>4. n \in Nat /\ n <= Len(Own(u))
  BY <1>3, WebAssumption
<1>5. ListFor(u) = SubSeq(Own(u), 1, n)
  BY DEF ListFor
<1> HIDE DEF n
<1>6. /\ ListFor(u) \in Seq(Conv) /\ Len(ListFor(u)) = n
      /\ \A i \in 1..n : ListFor(u)[i] = Own(u)[i] /\ i \in 1..Len(Own(u))
  BY <1>3, <1>4, <1>5
<1>7. IsInjective(ListFor(u))
  <2>1. DOMAIN ListFor(u) = 1..n /\ DOMAIN Own(u) = 1..Len(Own(u))
    BY <1>3, <1>6
  <2> QED
    BY <1>3, <1>6, <2>1, Zenon DEF IsInjective
<1>8. \A i \in 1..Len(ListFor(u)) : server.owner[ListFor(u)[i]] = u
  BY <1>3, <1>6
<1>9. \A c \in Conv : Contains(Own(u), c) => server.owner[c] = u
  BY <1>3 DEF Contains
<1> QED
  BY <1>3, <1>6, <1>7, <1>8, <1>9 DEF Listing

\* The latest turns are turns.
LEMMA RecentTurns ==
    ASSUME NEW n \in 0..MaxTurns
    PROVE  Recent(n) \in SUBSET Turn
BY WebAssumption DEF Recent, Turn

LEMMA Touched ==
    ASSUME server \in Server, NEW c \in Conv
    PROVE  Touch(c) \in Listing /\ Without(c) \in Listing
<1>1. server.recent \in Seq(Conv) /\ IsInjective(server.recent)
  BY DEF Server, Listing
<1>2. /\ Without(c) \in Seq(Conv) /\ IsInjective(Without(c))
      /\ \A i \in 1..Len(Without(c)) : Without(c)[i] \in Conv \ {c}
  BY <1>1, KeepElements DEF Without
<1> DEFINE t == <<c>> \o Without(c)
<1>3. /\ t \in Seq(Conv) /\ Len(t) = Len(Without(c)) + 1 /\ t[1] = c
      /\ \A i \in 2..Len(t) : t[i] = Without(c)[i - 1] /\ i - 1 \in 1..Len(Without(c))
  BY <1>2
<1>4. IsInjective(t)
  <2> HIDE DEF t
  <2> SUFFICES ASSUME NEW i \in 1..Len(t), NEW j \in 1..Len(t), t[i] = t[j], i # j PROVE FALSE
    BY <1>3 DEF IsInjective
  <2>1. \A k \in 2..Len(t) : t[k] # c
    BY <1>2, <1>3
  <2>2. i \in 2..Len(t) /\ j \in 2..Len(t)
    BY <1>3, <2>1
  <2>3. \A k, l \in 1..Len(Without(c)) : Without(c)[k] = Without(c)[l] => k = l
    BY <1>2 DEF IsInjective
  <2>4. i - 1 = j - 1
    BY <1>3, <2>2, <2>3
  <2> QED
    BY <2>2, <2>4
<1> QED
  BY <1>2, <1>3, <1>4 DEF Touch, Listing

-----------------------------------------------------------------------------
(* The page *)

LEMMA Controls ==
    ASSUME NEW p \in Page, NEW on \in BOOLEAN
    PROVE  /\ SetConversationControlsEnabled(p, on) \in Page
           /\ SetQueryEnabled(p, on) \in Page
           /\ ClearSession(p) \in Page /\ RenderConversations(p) \in Page /\ Enabled(p) \in Page
<1>1. ASSUME NEW q \in Page, NEW b \in BOOLEAN
      PROVE  SetConversationControlsEnabled(q, b) \in Page
  <2> DEFINE listed == b /\ q.conversations # <<>>
             chosen == b /\ q.selected # None
  <2>1. listed \in BOOLEAN /\ chosen \in BOOLEAN
    OBVIOUS
  <2>2. SetConversationControlsEnabled(q, b) = [q EXCEPT !.new = b, !.list = listed, !.change = chosen]
    BY DEF SetConversationControlsEnabled
  <2> HIDE DEF listed, chosen
  <2> QED
    BY <2>1, <2>2 DEF Page
<1>2. \A q \in Page, b \in BOOLEAN : SetQueryEnabled(q, b) \in Page
  BY <1>1 DEF Page, SetQueryEnabled
<1>3. <<>> \in Listing
  BY DEF Listing, IsInjective
<1>4. ClearSession(p) \in Page
  BY <1>3 DEF Page, ClearSession
<1>5. [p EXCEPT !.options = p.conversations,
                !.value = IF Contains(p.conversations, p.selected) THEN p.selected ELSE None] \in Page
  BY DEF Page
<1>6. (p.token # None /\ p.capabilities) \in BOOLEAN /\ p.capabilities \in BOOLEAN
  BY DEF Page
<1> QED
  BY <1>1, <1>2, <1>4, <1>5, <1>6 DEF RenderConversations, Enabled

-----------------------------------------------------------------------------
(* What a handler has still to do *)

Does(todo, what) == \E i \in 1..Len(todo) : todo[i].do = what
Later(todo, i, what) == \E j \in (i + 1)..Len(todo) : todo[j].do = what

\* The controls are enabled between two requests, never twice in a row; they are after the
\* requests that a refresh disables them for, and the list is loaded after its changes.
Tidy(todo) == \A i \in 1..Len(todo) :
    /\ todo[i].do = "enable" => /\ todo[i] = Do("enable")
                                /\ \A j \in 1..Len(todo) : j = i + 1 => todo[j].do # "enable"
    /\ todo[i].do \in {"exchange", "catalog"} => Later(todo, i, "enable")
    /\ todo[i].do \in {"create", "rename", "delete"} => Later(todo, i, "list")

\* The list is loaded before any control is enabled.
FreshTodo(todo) == \E k \in 1..Len(todo) :
    todo[k].do = "list" /\ \A j \in 1..(k - 1) : todo[j].do \in {"exchange", "catalog"}

\* What is sent for todo, without and with a refresh of the token before it.
Resent(p, todo, sent) ==
    /\ sent \in Seq(Item) /\ Len(sent) = Len(todo)
    /\ sent[1] = Named(p, todo[1])
    /\ \A i \in 2..Len(todo) : sent[i] = todo[i]
Refreshed(todo, sent) ==
    /\ sent \in Seq(Item) /\ Len(sent) = Len(todo) + 4
    /\ sent[1] = Do("exchange") /\ sent[2] = Do("catalog") /\ sent[3] = Do("list")
    /\ sent[4] = Do("enable") /\ sent[5] = [todo[1] EXCEPT !.renewed = TRUE]
    /\ \A i \in 2..Len(todo) : sent[i + 4] = todo[i]

LEMMA Items ==
    /\ \A what \in {"exchange", "catalog", "list", "turns", "create", "rename", "delete",
                    "query", "enable"} : Do(what) \in Item
    /\ \A item \in Item : [item EXCEPT !.renewed = TRUE] \in Item
    /\ \A p \in Page, item \in Item : Named(p, item) \in Item
BY DEF Do, Item, Named, Page

LEMMA RefreshedTodo ==
    ASSUME NEW todo \in Seq(Item), todo # <<>>
    PROVE  Refreshed(todo, <<Do("exchange")>> \o RenderSession
                           \o <<[Head(todo) EXCEPT !.renewed = TRUE]>> \o Tail(todo))
<1> DEFINE e == Do("exchange")  c == Do("catalog")  l == Do("list")  n == Do("enable")
           r == [Head(todo) EXCEPT !.renewed = TRUE]
           t == Tail(todo)
           a == <<e>> \o <<c, l, n>> \o <<r>>
           sent == a \o t
<1>1. e \in Item /\ c \in Item /\ l \in Item /\ n \in Item /\ r \in Item
  BY Items
<1>2. t \in Seq(Item) /\ Len(t) = Len(todo) - 1 /\ \A i \in 2..Len(todo) : todo[i] = t[i - 1]
  OBVIOUS
<1>3. Head(todo) = todo[1] /\ Len(todo) \in Nat \ {0}
  OBVIOUS
<1> HIDE DEF e, c, l, n, r, t
<1>4. /\ a \in Seq(Item) /\ Len(a) = 5
      /\ a[1] = e /\ a[2] = c /\ a[3] = l /\ a[4] = n /\ a[5] = r
  BY <1>1
<1> HIDE DEF a
<1>5. /\ sent \in Seq(Item) /\ Len(sent) = 5 + Len(t)
      /\ \A i \in 1..5 : sent[i] = a[i]
      /\ \A i \in 6..Len(sent) : sent[i] = t[i - 5]
  <2>1. /\ sent \in Seq(Item) /\ Len(sent) = Len(a) + Len(t)
        /\ \A i \in 1..(Len(a) + Len(t)) : sent[i] = IF i <= Len(a) THEN a[i] ELSE t[i - Len(a)]
    BY <1>2, <1>4, ConcatProperties, Zenon
  <2>2. Len(t) \in Nat
    BY <1>2
  <2> HIDE DEF sent
  <2> QED
    BY <1>4, <2>1, <2>2
<1> HIDE DEF sent
<1>6. /\ Len(sent) = Len(todo) + 4
      /\ sent[1] = e /\ sent[2] = c /\ sent[3] = l /\ sent[4] = n /\ sent[5] = r
  BY <1>2, <1>4, <1>5
<1>7. \A i \in 2..Len(todo) : sent[i + 4] = todo[i]
  <2> SUFFICES ASSUME NEW i \in 2..Len(todo) PROVE sent[i + 4] = todo[i]
    OBVIOUS
  <2>1. i + 4 \in 6..Len(sent) /\ (i + 4) - 5 = i - 1
    BY <1>3, <1>6
  <2> QED
    BY <1>2, <1>5, <2>1
<1>8. Refreshed(todo, sent)
  BY <1>3, <1>5, <1>6, <1>7 DEF Refreshed, e, c, l, n, r
<1> QED
  BY <1>8 DEF sent, a, e, c, l, n, r, t, RenderSession

LEMMA ResentTodo ==
    ASSUME NEW p \in Page, NEW todo \in Seq(Item), todo # <<>>
    PROVE  Resent(p, todo, <<Named(p, Head(todo))>> \o Tail(todo))
<1> DEFINE item == Named(p, Head(todo))  t == Tail(todo)  sent == <<item>> \o t
<1>1. item \in Item /\ Head(todo) = todo[1]
  BY Items
<1>2. t \in Seq(Item) /\ Len(t) = Len(todo) - 1 /\ \A i \in 2..Len(todo) : todo[i] = t[i - 1]
  OBVIOUS
<1> HIDE DEF item, t
<1>3. /\ sent \in Seq(Item) /\ Len(sent) = 1 + Len(t) /\ sent[1] = item
      /\ \A i \in 2..Len(sent) : sent[i] = t[i - 1]
  BY <1>1, <1>2
<1>4. Len(todo) \in Nat
  OBVIOUS
<1> HIDE DEF sent
<1>5. Resent(p, todo, sent)
  BY <1>1, <1>2, <1>3, <1>4 DEF Resent, item
<1> QED
  BY <1>5 DEF sent, item, t

LEMMA TailTidy ==
    ASSUME NEW todo \in Seq(Item), todo # <<>>, Tidy(todo)
    PROVE  /\ Tail(todo) \in Seq(Item) /\ Len(Tail(todo)) = Len(todo) - 1
           /\ \A i \in 1..Len(Tail(todo)) : Tail(todo)[i] = todo[i + 1]
           /\ Tidy(Tail(todo))
           /\ \A what : Does(todo, what) => todo[1].do = what \/ Does(Tail(todo), what)
           /\ \A what : Does(Tail(todo), what) => Does(todo, what)
<1> DEFINE t == Tail(todo)
<1>1. t \in Seq(Item) /\ Len(t) = Len(todo) - 1 /\ Len(todo) \in Nat \ {0}
  OBVIOUS
<1>2. \A i \in 1..Len(t) : t[i] = todo[i + 1]
  OBVIOUS
<1> HIDE DEF t
<1>3. \A i \in 1..Len(t) : i + 1 \in 1..Len(todo)
  BY <1>1
<1>4. ASSUME NEW i \in 1..Len(t), NEW what, Later(todo, i + 1, what) PROVE Later(t, i, what)
  <2>1. PICK j \in (i + 2)..Len(todo) : todo[j].do = what
    BY <1>4 DEF Later
  <2>2. j - 1 \in (i + 1)..Len(t) /\ (j - 1) + 1 = j /\ j - 1 \in 1..Len(t)
    BY <1>1
  <2> QED
    BY <1>2, <2>1, <2>2 DEF Later
<1>5. ASSUME NEW i \in 1..Len(t), NEW j \in 1..Len(t), j = i + 1, t[i].do = "enable"
      PROVE  t[j].do # "enable"
  <2>1. j + 1 \in 1..Len(todo) /\ j + 1 = (i + 1) + 1
    BY <1>3, <1>5
  <2> QED
    BY <1>2, <1>3, <1>5, <2>1 DEF Tidy
<1>6. Tidy(t)
  BY <1>2, <1>3, <1>4, <1>5 DEF Tidy
<1>7. ASSUME NEW what, Does(todo, what), todo[1].do # what PROVE Does(t, what)
  <2>1. PICK i \in 1..Len(todo) : todo[i].do = what
    BY <1>7 DEF Does
  <2>2. i - 1 \in 1..Len(t) /\ (i - 1) + 1 = i
    BY <1>1, <1>7, <2>1
  <2> QED
    BY <1>2, <2>1, <2>2 DEF Does
<1>8. \A what : Does(t, what) => Does(todo, what)
  BY <1>2, <1>3 DEF Does
<1> QED
  BY <1>1, <1>2, <1>6, <1>7, <1>8 DEF t

\* What is sent keeps the shape and does whatever was to do.
LEMMA SentTidy ==
    ASSUME NEW p \in Page, NEW todo \in Seq(Item), todo # <<>>, Tidy(todo),
           todo[1].do # "enable", NEW sent,
           Resent(p, todo, sent) \/ Refreshed(todo, sent)
    PROVE  /\ sent \in Seq(Item) /\ Len(sent) > 0 /\ sent[1].do # "enable"
           /\ Tidy(sent)
           /\ \A what : Does(todo, what) => Does(sent, what)
           /\ FreshTodo(todo) => FreshTodo(sent)
<1>0. Len(todo) \in Nat \ {0} /\ todo[1] \in Item
  OBVIOUS
<1>1. CASE Resent(p, todo, sent)
  <2>1. sent[1].do = todo[1].do
    BY <1>0, <1>1 DEF Resent, Named, Item
  <2>2. Len(sent) = Len(todo) /\ \A i \in 1..Len(todo) : sent[i].do = todo[i].do
    BY <1>0, <1>1, <2>1 DEF Resent
  <2>3. \A i \in 1..Len(todo) : sent[i].do = "enable" => sent[i] = todo[i]
    BY <1>0, <1>1, <2>1 DEF Resent
  <2>4. ASSUME NEW i \in 1..Len(todo), NEW what, Later(todo, i, what) PROVE Later(sent, i, what)
    BY <2>2, <2>4 DEF Later
  <2>5. Tidy(sent)
    BY <2>2, <2>3, <2>4 DEF Tidy
  <2>6. FreshTodo(todo) => FreshTodo(sent)
    BY <2>2 DEF FreshTodo
  <2>7. \A what : Does(todo, what) => Does(sent, what)
    BY <2>2 DEF Does
  <2> QED
    BY <1>0, <1>1, <2>1, <2>5, <2>6, <2>7 DEF Resent
<1>2. CASE Refreshed(todo, sent)
  <2>1. /\ Len(sent) = Len(todo) + 4
        /\ sent[1].do = "exchange" /\ sent[2].do = "catalog" /\ sent[3].do = "list"
        /\ sent[4] = Do("enable") /\ sent[4].do = "enable" /\ sent[5].do = todo[1].do
    BY <1>0, <1>2 DEF Refreshed, Do, Item
  <2>2. \A i \in 1..Len(todo) : i + 4 \in 5..Len(sent) /\ sent[i + 4].do = todo[i].do
    <3>1. 1 + 4 = 5 /\ \A i \in 1..Len(todo) : i + 4 \in 5..Len(sent) /\ (i = 1 \/ i \in 2..Len(todo))
      BY <1>0, <2>1
    <3>2. \A i \in 2..Len(todo) : sent[i + 4].do = todo[i].do
      BY <1>2 DEF Refreshed
    <3> QED
      BY <2>1, <3>1, <3>2
  <2>3. \A i \in 1..Len(sent) : i \in 1..4 \/ i - 4 \in 1..Len(todo)
    BY <1>0, <2>1
  <2>4. \A i \in 5..Len(sent) : i - 4 \in 1..Len(todo) /\ sent[i].do = todo[i - 4].do
    <3> SUFFICES ASSUME NEW i \in 5..Len(sent)
                 PROVE  i - 4 \in 1..Len(todo) /\ sent[i].do = todo[i - 4].do
      OBVIOUS
    <3>1. i - 4 \in 1..Len(todo) /\ (i - 4) + 4 = i
      BY <1>0, <2>1
    <3> QED
      BY <2>2, <3>1
  <2>5. \A i \in 6..Len(sent) : sent[i] = todo[i - 4]
    <3> SUFFICES ASSUME NEW i \in 6..Len(sent) PROVE sent[i] = todo[i - 4]
      OBVIOUS
    <3>1. i - 4 \in 2..Len(todo) /\ (i - 4) + 4 = i
      BY <1>0, <2>1
    <3> QED
      BY <1>2, <3>1 DEF Refreshed
  <2>6. ASSUME NEW i \in 5..Len(sent), NEW what, Later(todo, i - 4, what) PROVE Later(sent, i, what)
    <3>1. PICK j \in ((i - 4) + 1)..Len(todo) : todo[j].do = what
      BY <2>6 DEF Later
    <3>2. j \in 1..Len(todo) /\ j + 4 \in (i + 1)..Len(sent)
      BY <1>0, <2>1
    <3> QED
      BY <2>2, <3>1, <3>2 DEF Later
  <2>7. Later(sent, 1, "enable") /\ Later(sent, 2, "enable")
    BY <1>0, <2>1 DEF Later
  <2>8. ASSUME NEW i \in 1..Len(sent), sent[i].do = "enable"
        PROVE  /\ sent[i] = Do("enable")
               /\ \A j \in 1..Len(sent) : j = i + 1 => sent[j].do # "enable"
    <3>1. CASE i = 4
      BY <2>1, <3>1
    <3>2. CASE i > 5
      <4>1. i \in 6..Len(sent) /\ i - 4 \in 1..Len(todo)
        BY <2>1, <3>2
      <4>2. \A j \in 1..Len(sent) : j = i + 1 => j - 4 \in 1..Len(todo) /\ j - 4 = (i - 4) + 1 /\ j \in 5..Len(sent)
        BY <2>1, <4>1
      <4>3. todo[i - 4].do = "enable" /\ todo[i - 4] = sent[i]
        BY <2>5, <2>8, <4>1
      <4> QED
        BY <2>4, <4>1, <4>2, <4>3 DEF Tidy
    <3>3. i # 1 /\ i # 2 /\ i # 3 /\ i # 5
      BY <2>1, <2>8
    <3> QED
      BY <3>1, <3>2, <3>3
  <2>9. ASSUME NEW i \in 1..Len(sent), sent[i].do \in {"exchange", "catalog"}
        PROVE  Later(sent, i, "enable")
    <3>1. CASE i \in 5..Len(sent)
      BY <2>4, <2>6, <2>9, <3>1 DEF Tidy
    <3>2. CASE i \in 1..4
      BY <2>1, <2>7, <2>9, <3>2
    <3> QED
      BY <2>1, <3>1, <3>2
  <2>10. ASSUME NEW i \in 1..Len(sent), sent[i].do \in {"create", "rename", "delete"}
         PROVE  Later(sent, i, "list")
    <3>1. i \in 5..Len(sent)
      BY <2>1, <2>10
    <3> QED
      BY <2>4, <2>6, <2>10, <3>1 DEF Tidy
  <2>11. Tidy(sent)
    BY <2>8, <2>9, <2>10 DEF Tidy
  <2>12. \A what : Does(todo, what) => Does(sent, what)
    BY <2>2 DEF Does
  <2>13. FreshTodo(sent)
    BY <1>0, <2>1 DEF FreshTodo
  <2> QED
    BY <1>2, <2>1, <2>11, <2>12, <2>13, <1>0 DEF Refreshed
<1> QED
  BY <1>1, <1>2

-----------------------------------------------------------------------------
(* Up to the next await *)

Off(p) == ~p.submit /\ ~p.new /\ ~p.list /\ ~p.change
Asks(call, todo) == [call EXCEPT !.todo = todo, !.state = "asked", !.answer = NoAnswer]

\* What a handler that threw leaves of the page.
Broken(p, kind, q) ==
    /\ q \in Page /\ q.user = p.user /\ q.options = p.options
    /\ \/ /\ q.conversations = p.conversations /\ q.selected = p.selected
          /\ q.new = p.new /\ q.list = p.list /\ q.change = p.change
          /\ kind # "query" => q.submit = p.submit
       \/ q.conversations = <<>> /\ q.selected = None /\ Off(q)

Requested(p, call, todo, r) ==
    \/ r.threw /\ r.call = None /\ Broken(p, call.kind, r.page)
    \/ /\ ~r.threw /\ r.page = p /\ p.token # None
       /\ \E sent : /\ Resent(p, todo, sent) \/ Refreshed(todo, sent)
                    /\ r.call = Asks(call, sent)

Proceeded(p, call, todo, r) ==
    \/ todo = <<>> /\ ~r.threw /\ r.call = None /\ r.page = Conclude(p, call.kind)
    \/ /\ todo = <<Do("enable")>> /\ ~r.threw /\ r.call = None
       /\ r.page = Conclude(Enabled(p), call.kind)
    \/ Len(todo) > 1 /\ todo[1].do = "enable" /\ Requested(Enabled(p), call, Tail(todo), r)
    \/ todo # <<>> /\ todo[1].do # "enable" /\ Requested(p, call, todo, r)

LEMMA Concluded ==
    ASSUME NEW p \in Page, NEW kind
    PROVE  /\ Conclude(p, kind) \in Page
           /\ \E b \in BOOLEAN : Conclude(p, kind) = [p EXCEPT !.submit = b]
           /\ kind # "query" => Conclude(p, kind) = p
           /\ kind = "query" => Conclude(p, kind) = [p EXCEPT !.submit = p.token # None /\ p.capabilities]
<1> DEFINE b == p.token # None /\ p.capabilities
<1>1. b \in BOOLEAN
  BY DEF Page
<1>2. kind = "query" => Conclude(p, kind) = [p EXCEPT !.submit = b]
  BY DEF Conclude
<1>3. kind # "query" => Conclude(p, kind) = p
  BY DEF Conclude
<1>4. p = [p EXCEPT !.submit = p.submit] /\ p.submit \in BOOLEAN
  BY DEF Page
<1> HIDE DEF b
<1>5. [p EXCEPT !.submit = b] \in Page
  BY <1>1 DEF Page
<1>6. \E c \in BOOLEAN : Conclude(p, kind) = [p EXCEPT !.submit = c]
  BY <1>1, <1>2, <1>3, <1>4, Zenon
<1>7. Conclude(p, kind) \in Page
  BY <1>2, <1>3, <1>5
<1> QED
  BY <1>2, <1>3, <1>6, <1>7 DEF b

\* A session that was cleared, with its controls disabled.
LEMMA Cleared ==
    ASSUME NEW p \in Page
    PROVE  LET q == SetQueryEnabled(ClearSession(p), FALSE) IN
           /\ q \in Page /\ q.user = p.user /\ q.options = p.options /\ q.token = None
           /\ q.conversations = <<>> /\ q.selected = None /\ Off(q)
<1>1. ClearSession(p) \in Page
  BY Controls
<1>2. SetQueryEnabled(ClearSession(p), FALSE) \in Page
  BY <1>1, Controls
<1> QED
  BY <1>2 DEF SetQueryEnabled, SetConversationControlsEnabled, ClearSession, Page, Off

LEMMA ThrownPage ==
    ASSUME NEW p \in Page, NEW call
    PROVE  /\ Thrown(p, call).threw /\ Thrown(p, call).call = None
           /\ Broken(p, call.kind, Thrown(p, call).page)
<1> DEFINE q == Thrown(p, call).page
<1>1. CASE call.kind = "load"
  <2>1. q = SetQueryEnabled(ClearSession(p), FALSE)
    BY <1>1 DEF Thrown
  <2> HIDE DEF q
  <2>2. Broken(p, call.kind, q)
    BY <2>1, Cleared DEF Broken
  <2> QED
    BY <2>2 DEF q, Thrown
<1>2. CASE call.kind # "load"
  <2>1. q = Conclude(p, call.kind)
    BY <1>2 DEF Thrown
  <2> HIDE DEF q
  <2>2. PICK b \in BOOLEAN : q = [p EXCEPT !.submit = b]
    BY <2>1, Concluded
  <2>3. q \in Page /\ (call.kind # "query" => q = p)
    BY <2>1, Concluded
  <2>4. Broken(p, call.kind, q)
    BY <2>2, <2>3 DEF Broken, Page
  <2> QED
    BY <2>4 DEF q, Thrown
<1> QED
  BY <1>1, <1>2

LEMMA RequestResult ==
    ASSUME NEW p \in Page, NEW call \in Call, NEW todo \in Seq(Item), todo # <<>>
    PROVE  Requested(p, call, todo, Request(p, call, todo))
<1> DEFINE r == Request(p, call, todo)
<1>1. p.token \in {None, "current", "expired"} /\ Head(todo) \in Item
  BY DEF Page
<1>2. CASE r = Thrown(p, call)
  BY <1>2, ThrownPage DEF Requested
<1>3. CASE p.token # None /\ r = Sent(p, call, <<Named(p, Head(todo))>> \o Tail(todo))
  <2> DEFINE sent == <<Named(p, Head(todo))>> \o Tail(todo)
  <2>1. Resent(p, todo, sent)
    BY ResentTodo
  <2>2. r.page = p /\ r.call = Asks(call, sent) /\ ~r.threw
    BY <1>3 DEF Sent, Asks
  <2> HIDE DEF sent, r
  <2>3. Requested(p, call, todo, r)
    BY <1>3, <2>1, <2>2 DEF Requested
  <2> QED
    BY <2>3 DEF r
<1>4. CASE /\ p.token # None
           /\ r = Sent(p, call, <<Do("exchange")>> \o RenderSession
                                \o <<[Head(todo) EXCEPT !.renewed = TRUE]>> \o Tail(todo))
  <2> DEFINE sent == <<Do("exchange")>> \o RenderSession
                     \o <<[Head(todo) EXCEPT !.renewed = TRUE]>> \o Tail(todo)
  <2>1. Refreshed(todo, sent)
    BY RefreshedTodo
  <2>2. r.page = p /\ r.call = Asks(call, sent) /\ ~r.threw
    BY <1>4 DEF Sent, Asks
  <2> HIDE DEF sent, r
  <2>3. Requested(p, call, todo, r)
    BY <1>4, <2>1, <2>2 DEF Requested
  <2> QED
    BY <2>3 DEF r
<1>5. CASE r = Thrown(SetQueryEnabled(ClearSession(p), FALSE), call)
  <2> DEFINE q == SetQueryEnabled(ClearSession(p), FALSE)
  <2>1. /\ q \in Page /\ q.user = p.user /\ q.options = p.options
        /\ q.conversations = <<>> /\ q.selected = None /\ Off(q)
    BY Cleared
  <2> HIDE DEF q
  <2>2. r.threw /\ r.call = None /\ Broken(q, call.kind, r.page)
    BY <1>5, <2>1, ThrownPage DEF q
  <2>3. Off(r.page) \/ call.kind = "query"
    BY <2>1, <2>2 DEF Broken, Off
  <2>4. q.token = None
    BY Cleared DEF q
  <2>5. call.kind = "query" => r.page = [q EXCEPT !.submit = FALSE]
    <3>1. call.kind = "query" => r.page = Conclude(q, call.kind)
      BY <1>5 DEF Thrown, q
    <3> QED
      BY <2>1, <2>4, <3>1, Concluded
  <2>6. Off(r.page)
    BY <2>1, <2>3, <2>5 DEF Off, Page
  <2> HIDE DEF r
  <2>7. r.page.conversations = <<>> /\ r.page.selected = None
    BY <2>1, <2>2 DEF Broken
  <2>8. Broken(p, call.kind, r.page)
    BY <2>1, <2>2, <2>6, <2>7 DEF Broken
  <2>9. Requested(p, call, todo, r)
    BY <2>2, <2>8 DEF Requested
  <2> QED
    BY <2>9 DEF r
<1>6. CASE p.token = None
  BY <1>2, <1>6, WebAssumption DEF Request
<1>7. CASE p.token # None /\ (p.token = "current" \/ Head(todo).renewed)
  BY <1>1, <1>3, <1>7 DEF Request
<1>8. CASE p.token # None /\ p.token # "current" /\ ~Head(todo).renewed
  <2>1. p.token = "expired"
    BY <1>1, <1>8
  <2>2. CASE p.user \in Refreshable
    BY <1>4, <1>8, <2>1, <2>2 DEF Request
  <2>3. CASE p.user \notin Refreshable
    BY <1>5, <1>8, <2>1, <2>3 DEF Request
  <2> QED
    BY <2>2, <2>3
<1> QED
  BY <1>6, <1>7, <1>8

LEMMA ProceedResult ==
    ASSUME NEW p \in Page, NEW call \in Call, NEW todo \in Seq(Item), Tidy(todo)
    PROVE  Proceeded(p, call, todo, Proceed(p, call, todo))
<1> DEFINE r == Proceed(p, call, todo)
<1>1. CASE todo = <<>>
  BY <1>1 DEF Proceed, Proceeded, Ended
<1>2. CASE todo # <<>> /\ todo[1].do = "enable"
  <2>1. todo[1] = Do("enable") /\ Head(todo) = todo[1] /\ Len(todo) \in Nat \ {0}
    BY <1>2 DEF Tidy
  <2>2. CASE Len(todo) = 1
    <3>1. todo = <<Do("enable")>>
      BY <2>1, <2>2
    <3> QED
      BY <3>1 DEF Proceed, Proceeded, Ended
  <2>3. CASE Len(todo) > 1
    <3>1. todo # <<Do("enable")>>
      BY <2>3
    <3>2. r = Request(Enabled(p), call, Tail(todo))
      BY <1>2, <2>1, <2>3, <3>1 DEF Proceed
    <3>3. Tail(todo) \in Seq(Item) /\ Tail(todo) # <<>>
      BY <2>3
    <3>4. Requested(Enabled(p), call, Tail(todo), r)
      BY <3>2, <3>3, RequestResult, Controls
    <3> QED
      BY <1>2, <2>3, <3>4 DEF Proceeded
  <2>4. Len(todo) = 1 \/ Len(todo) > 1
    <3>1. Len(todo) \in Nat /\ Len(todo) >= 1
      BY <1>2
    <3>2. \A n \in Nat : n >= 1 => n = 1 \/ n > 1
      OBVIOUS
    <3> QED
      BY <3>1, <3>2, Zenon
  <2> HIDE DEF r
  <2> QED
    BY <2>2, <2>3, <2>4, Zenon
<1>3. CASE todo # <<>> /\ todo[1].do # "enable"
  <2>1. Head(todo) = todo[1] /\ todo # <<Do("enable")>>
    BY <1>3 DEF Do
  <2>2. r = Request(p, call, todo)
    BY <1>3, <2>1 DEF Proceed
  <2> QED
    BY <1>3, <2>2, RequestResult DEF Proceeded
<1> QED
  BY <1>1, <1>2, <1>3

-----------------------------------------------------------------------------
(* Whose conversations the page holds *)

Pending(cs) == {s \in Slot : cs[s] # None}

\* A conversation of the user who is signed in.
Mine(p, sv, c) == c # None => p.user # None /\ sv.owner[c] = p.user
MineTodo(p, sv, todo) == \A i \in 1..Len(todo) : Mine(p, sv, todo[i].conv)
MineAnswer(p, sv, answer) ==
    Mine(p, sv, answer.conv) /\ \A i \in 1..Len(answer.convs) : Mine(p, sv, answer.convs[i])
MineLists(p, sv) ==
    /\ \A i \in 1..Len(p.conversations) : Mine(p, sv, p.conversations[i])
    /\ \A i \in 1..Len(p.options) : Mine(p, sv, p.options[i])

CallGood(p, sv, call) ==
    /\ Len(call.todo) > 0 /\ call.todo[1].do # "enable" /\ Tidy(call.todo)
    /\ MineTodo(p, sv, call.todo) /\ MineAnswer(p, sv, call.answer)

\* The selection that the session storage kept may be somebody else's until the list is
\* loaded.  Until then nothing can be done with it.
Fresh(p, cs) == Off(p) /\ \A s \in Pending(cs) : cs[s].kind = "load" /\ FreshTodo(cs[s].todo)

Shown(p) == p.options = p.conversations \/ (p.conversations = <<>> /\ ~p.list)

Good(p, cs, sv) ==
    /\ \A s \in Pending(cs) : CallGood(p, sv, cs[s])
    /\ MineLists(p, sv)
    /\ Mine(p, sv, p.selected) \/ Fresh(p, cs)
    /\ p.user = None => p.token = None /\ Off(p) /\ Pending(cs) = {}
    /\ Shown(p)

\* What is out of step is still to be brought in line by a handler, if none has failed.
Comes(cs, what) == \E s \in Pending(cs) : Does(cs[s].todo, what)
Asking(cs) == \E s \in Pending(cs) : cs[s].kind = "query"
Follows(p, list, enable, asking) ==
    /\ p.options = p.conversations
    /\ p.selected # p.value => list
    /\ p.submit # p.capabilities => enable \/ asking
    /\ p.new # p.capabilities => enable
    /\ p.list # (p.capabilities /\ p.conversations # <<>>) => enable
    /\ p.change # (p.capabilities /\ p.selected # None) => enable \/ list
Usable(p, cs) ==
    /\ p.token = None => Off(p) /\ Pending(cs) = {}
    /\ p.token # None => Follows(p, Comes(cs, "list"), Comes(cs, "enable"), Asking(cs))

-----------------------------------------------------------------------------
(* The same while the handler in slot s runs, which has todo before it *)

Others(cs, s) == Pending(cs) \ {s}
Running(p, cs, sv, s, kind, todo) ==
    /\ p.user # None
    /\ \A t \in Others(cs, s) : CallGood(p, sv, cs[t])
    /\ Tidy(todo) /\ MineTodo(p, sv, todo)
    /\ MineLists(p, sv)
    /\ \/ Mine(p, sv, p.selected)
       \/ /\ Off(p) /\ kind = "load" /\ FreshTodo(todo)
          /\ \A t \in Others(cs, s) : cs[t].kind = "load" /\ FreshTodo(cs[t].todo)
    /\ Shown(p)
RunComes(cs, s, todo, what) ==
    Does(todo, what) \/ \E t \in Others(cs, s) : Does(cs[t].todo, what)
RunAsking(cs, s, kind) == kind = "query" \/ \E t \in Others(cs, s) : cs[t].kind = "query"
UsableWhile(p, cs, s, kind, todo) ==
    /\ p.token # None
    /\ Follows(p, RunComes(cs, s, todo, "list"), RunComes(cs, s, todo, "enable"),
               RunAsking(cs, s, kind))

\* The other calls go on as they were.
Beside(cs, ds, s) == \A t \in Slot \ {s} :
    /\ ds[t] = None <=> cs[t] = None
    /\ cs[t] # None => /\ ds[t].kind = cs[t].kind /\ ds[t].todo = cs[t].todo
                       /\ ds[t].answer = cs[t].answer

LEMMA OthersStay ==
    ASSUME NEW cs, NEW ds, NEW s \in Slot, Beside(cs, ds, s)
    PROVE  /\ Others(ds, s) = Others(cs, s)
           /\ \A t \in Others(cs, s) :
                 /\ ds[t].kind = cs[t].kind /\ ds[t].todo = cs[t].todo
                 /\ ds[t].answer = cs[t].answer
           /\ ds[s] = None => Pending(ds) = Others(cs, s)
           /\ ds[s] # None => Pending(ds) = Others(cs, s) \cup {s}
BY DEF Beside, Others, Pending

\* A page of the same user.
LEMMA SameUser ==
    ASSUME NEW p, NEW q, NEW sv, q.user = p.user
    PROVE  /\ \A c : Mine(q, sv, c) <=> Mine(p, sv, c)
           /\ \A todo : MineTodo(q, sv, todo) <=> MineTodo(p, sv, todo)
           /\ \A call, other : /\ CallGood(p, sv, call)
                               /\ other.todo = call.todo /\ other.answer = call.answer
                               => CallGood(q, sv, other)
<1>1. \A c : Mine(q, sv, c) <=> Mine(p, sv, c)
  BY DEF Mine
<1> QED
  BY <1>1 DEF MineTodo, MineAnswer, CallGood

LEMMA ThrownGood ==
    ASSUME NEW p \in Page, NEW cs, NEW ds, NEW sv, NEW s \in Slot, NEW kind, NEW todo, NEW q,
           Running(p, cs, sv, s, kind, todo), Beside(cs, ds, s), ds[s] = None, Broken(p, kind, q)
    PROVE  Good(q, ds, sv)
<1>1. q \in Page /\ q.user = p.user /\ q.user # None
  BY DEF Broken, Running
<1>2. Pending(ds) = Others(cs, s) /\ \A t \in Others(cs, s) :
         ds[t].kind = cs[t].kind /\ ds[t].todo = cs[t].todo /\ ds[t].answer = cs[t].answer
  BY OthersStay
<1>3. \A t \in Pending(ds) : CallGood(q, sv, ds[t])
  BY <1>1, <1>2, SameUser DEF Running
<1>4. MineLists(q, sv)
  <2>1. q.options = p.options /\ (q.conversations = p.conversations \/ q.conversations = <<>>)
    BY DEF Broken
  <2>2. \A i \in 1..Len(q.options) : Mine(q, sv, q.options[i])
    BY <1>1, <2>1, SameUser DEF MineLists, Running
  <2>3. \A i \in 1..Len(q.conversations) : Mine(q, sv, q.conversations[i])
    <3>1. CASE q.conversations = p.conversations
      BY <1>1, <3>1, SameUser DEF MineLists, Running
    <3>2. CASE q.conversations = <<>>
      BY <3>2
    <3> QED
      BY <2>1, <3>1, <3>2
  <2> QED
    BY <2>2, <2>3 DEF MineLists
<1>5. Mine(q, sv, q.selected) \/ Fresh(q, ds)
  <2>1. CASE q.selected = None
    BY <2>1 DEF Mine
  <2>2. CASE q.selected # None
    <3>1. /\ q.selected = p.selected /\ q.new = p.new /\ q.list = p.list /\ q.change = p.change
          /\ kind # "query" => q.submit = p.submit
      BY <2>2 DEF Broken
    <3>2. CASE Mine(p, sv, p.selected)
      BY <1>1, <3>1, <3>2, SameUser
    <3>3. CASE ~Mine(p, sv, p.selected)
      BY <1>2, <3>1, <3>3 DEF Running, Fresh, Off
    <3> QED
      BY <3>2, <3>3
  <2> QED
    BY <2>1, <2>2
<1>6. Shown(q)
  BY DEF Broken, Running, Shown, Off
<1> QED
  BY <1>1, <1>3, <1>4, <1>5, <1>6 DEF Good

LEMMA SentMine ==
    ASSUME NEW p \in Page, NEW sv, NEW todo \in Seq(Item), todo # <<>>, NEW sent,
           MineTodo(p, sv, todo), todo[1].do = "query" => Mine(p, sv, p.selected),
           Resent(p, todo, sent) \/ Refreshed(todo, sent)
    PROVE  MineTodo(p, sv, sent)
<1>0. Len(todo) \in Nat \ {0} /\ todo[1] \in Item
  OBVIOUS
<1>1. CASE Resent(p, todo, sent)
  <2>1. Mine(p, sv, sent[1].conv)
    BY <1>0, <1>1 DEF Resent, Named, MineTodo, Item
  <2>2. \A i \in 2..Len(todo) : Mine(p, sv, sent[i].conv)
    BY <1>0, <1>1 DEF Resent, MineTodo
  <2> QED
    BY <1>0, <1>1, <2>1, <2>2 DEF Resent, MineTodo
<1>2. CASE Refreshed(todo, sent)
  <2> SUFFICES ASSUME NEW i \in 1..Len(sent) PROVE Mine(p, sv, sent[i].conv)
    BY DEF MineTodo
  <2>1. Len(sent) = Len(todo) + 4
    BY <1>2 DEF Refreshed
  <2>2. CASE i \in 1..4
    <3>1. sent[i].conv = None
      BY <1>2, <2>2 DEF Refreshed, Do
    <3> QED
      BY <3>1 DEF Mine
  <2>3. CASE i = 5
    <3>1. sent[i].conv = todo[1].conv
      BY <1>0, <1>2, <2>3 DEF Refreshed, Item
    <3> QED
      BY <1>0, <3>1 DEF MineTodo
  <2>4. CASE i \in 6..Len(sent)
    <3>1. i - 4 \in 2..Len(todo) /\ (i - 4) + 4 = i
      BY <1>0, <2>1, <2>4
    <3>2. sent[i] = todo[i - 4]
      BY <1>2, <3>1 DEF Refreshed
    <3> QED
      BY <3>1, <3>2 DEF MineTodo
  <2> QED
    BY <2>1, <2>2, <2>3, <2>4
<1> QED
  BY <1>1, <1>2

LEMMA Unanswered ==
    ASSUME NEW call \in Call, NEW sent \in Seq(Item)
    PROVE  /\ Asks(call, sent) \in Call /\ Asks(call, sent) # None
           /\ Asks(call, sent).todo = sent /\ Asks(call, sent).kind = call.kind
           /\ Asks(call, sent).answer = NoAnswer /\ Asks(call, sent).state = "asked"
           /\ Asks(call, sent).alone = call.alone /\ Asks(call, sent).listed = call.listed
<1>1. NoAnswer \in Answer
  BY WebAssumption DEF NoAnswer, Answer, Listing, IsInjective
<1> QED
  BY <1>1, NoneAssumption DEF Asks, Call

LEMMA RequestGood ==
    ASSUME NEW p \in Page, NEW cs, NEW ds, NEW sv, NEW s \in Slot, NEW call \in Call,
           NEW todo \in Seq(Item), todo # <<>>, todo[1].do # "enable", NEW r,
           Running(p, cs, sv, s, call.kind, todo), Requested(p, call, todo, r),
           Beside(cs, ds, s), ds[s] = r.call
    PROVE  /\ r.page \in Page /\ r.call \in Call \cup {None}
           /\ Good(r.page, ds, sv)
           /\ ~r.threw /\ UsableWhile(p, cs, s, call.kind, todo) => Usable(r.page, ds)
<1>1. CASE r.threw
  <2>1. r.call = None /\ Broken(p, call.kind, r.page)
    BY <1>1 DEF Requested
  <2> QED
    BY <1>1, <2>1, ThrownGood DEF Broken
<1>2. CASE ~r.threw
  <2>1. r.page = p /\ p.token # None
    BY <1>2 DEF Requested
  <2>2. PICK sent : /\ Resent(p, todo, sent) \/ Refreshed(todo, sent)
                    /\ r.call = Asks(call, sent)
    BY <1>2 DEF Requested
  <2>3. /\ sent \in Seq(Item) /\ Len(sent) > 0 /\ sent[1].do # "enable" /\ Tidy(sent)
        /\ \A what : Does(todo, what) => Does(sent, what)
        /\ FreshTodo(todo) => FreshTodo(sent)
    BY <2>2, SentTidy DEF Running
  <2>4. /\ ds[s] \in Call /\ ds[s] # None /\ ds[s].todo = sent /\ ds[s].kind = call.kind
        /\ ds[s].answer = NoAnswer
    BY <2>2, <2>3, Unanswered
  <2>5. /\ Pending(ds) = Others(cs, s) \cup {s}
        /\ \A t \in Others(cs, s) :
              ds[t].kind = cs[t].kind /\ ds[t].todo = cs[t].todo /\ ds[t].answer = cs[t].answer
    BY <2>4, OthersStay
  <2>6. MineTodo(p, sv, sent)
    <3>1. todo[1].do = "query" => Mine(p, sv, p.selected)
      <4> SUFFICES ASSUME todo[1].do = "query", FreshTodo(todo) PROVE FALSE
        BY DEF Running
      <4>1. PICK k \in 1..Len(todo) : todo[k].do = "list"
                 /\ \A j \in 1..(k - 1) : todo[j].do \in {"exchange", "catalog"}
        BY DEF FreshTodo
      <4>2. k = 1 \/ 1 \in 1..(k - 1)
        OBVIOUS
      <4> QED
        BY <4>1, <4>2
    <3> QED
      BY <2>2, <3>1, SentMine DEF Running
  <2>7. CallGood(p, sv, ds[s])
    <3>1. MineAnswer(p, sv, NoAnswer)
      BY DEF MineAnswer, NoAnswer, Mine
    <3> QED
      BY <2>3, <2>4, <2>6, <3>1 DEF CallGood
  <2>8. \A t \in Pending(ds) : CallGood(p, sv, ds[t])
    <3>1. \A t \in Others(cs, s) : CallGood(p, sv, ds[t])
      BY <2>5, SameUser DEF Running
    <3> QED
      BY <2>5, <2>7, <3>1
  <2>9. Mine(p, sv, p.selected) \/ Fresh(p, ds)
    BY <2>3, <2>4, <2>5 DEF Running, Fresh
  <2>10. Good(p, ds, sv)
    BY <2>8, <2>9 DEF Good, Running
  <2>11. ASSUME UsableWhile(p, cs, s, call.kind, todo) PROVE Usable(p, ds)
    <3>1. \A what : RunComes(cs, s, todo, what) => Comes(ds, what)
      BY <2>3, <2>4, <2>5 DEF RunComes, Comes
    <3>2. RunAsking(cs, s, call.kind) => Asking(ds)
      BY <2>4, <2>5 DEF RunAsking, Asking
    <3> QED
      BY <2>11, <3>1, <3>2 DEF UsableWhile, Usable, Follows
  <2> QED
    BY <2>1, <2>4, <2>10, <2>11
<1> QED
  BY <1>1, <1>2

\* Where the controls have been enabled, all of them are in step.
LEMMA EnabledFollows ==
    ASSUME NEW p \in Page, NEW list, NEW enable, NEW asking, NEW on, NEW now, NEW query,
           Follows(p, list, enable, asking), list => on
    PROVE  Follows(Enabled(p), on, now, query)
BY DEF Follows, Enabled, SetQueryEnabled, SetConversationControlsEnabled, Page

LEMMA EnabledRuns ==
    ASSUME NEW p \in Page
    PROVE  /\ Enabled(p).user = p.user /\ Enabled(p).token = p.token
           /\ Enabled(p).selected = p.selected /\ Enabled(p).options = p.options
           /\ Enabled(p).conversations = p.conversations /\ Enabled(p).value = p.value
           /\ Enabled(p).turns = p.turns /\ Enabled(p).shown = p.shown
           /\ Shown(p) => Shown(Enabled(p))
BY DEF Shown, Enabled, SetQueryEnabled, SetConversationControlsEnabled, Page

LEMMA EndedGood ==
    ASSUME NEW p \in Page, NEW cs, NEW ds, NEW sv, NEW s \in Slot, NEW call \in Call,
           NEW todo, todo = <<>>, NEW r,
           Running(p, cs, sv, s, call.kind, todo), Beside(cs, ds, s),
           ~r.threw, r.call = None, ds[s] = None, r.page = Conclude(p, call.kind)
    PROVE  /\ r.page \in Page
           /\ Good(r.page, ds, sv)
           /\ UsableWhile(p, cs, s, call.kind, todo) => Usable(r.page, ds)
<1> DEFINE q == Conclude(p, call.kind)
<1>1. /\ q \in Page
      /\ \E b \in BOOLEAN : q = [p EXCEPT !.submit = b]
      /\ call.kind # "query" => q = p
      /\ call.kind = "query" => q = [p EXCEPT !.submit = p.token # None /\ p.capabilities]
  BY Concluded
<1> HIDE DEF q
<1>2. Broken(p, call.kind, q)
  BY <1>1 DEF Broken, Page
<1>3. Good(q, ds, sv)
  BY <1>2, ThrownGood
<1>4. ASSUME UsableWhile(p, cs, s, call.kind, todo) PROVE Usable(q, ds)
  <2>1. Pending(ds) = Others(cs, s) /\ \A t \in Others(cs, s) :
           ds[t].kind = cs[t].kind /\ ds[t].todo = cs[t].todo
    BY OthersStay
  <2>2. \A what : RunComes(cs, s, todo, what) => Comes(ds, what)
    BY <2>1 DEF RunComes, Comes, Does
  <2>3. call.kind # "query" => (RunAsking(cs, s, call.kind) => Asking(ds))
    BY <2>1 DEF RunAsking, Asking
  <2>4. /\ q.token = p.token /\ q.options = p.options /\ q.conversations = p.conversations
        /\ q.selected = p.selected /\ q.value = p.value /\ q.capabilities = p.capabilities
        /\ q.new = p.new /\ q.list = p.list /\ q.change = p.change
    BY <1>1 DEF Page
  <2>5. q.submit # q.capabilities => Comes(ds, "enable") \/ Asking(ds)
    <3>1. CASE call.kind = "query"
      BY <1>1, <1>4, <3>1 DEF UsableWhile, Page
    <3>2. CASE call.kind # "query"
      BY <1>1, <1>4, <2>2, <2>3, <3>2 DEF UsableWhile, Follows
    <3> QED
      BY <3>1, <3>2
  <2> QED
    BY <1>4, <2>2, <2>4, <2>5 DEF UsableWhile, Usable, Follows
<1> QED
  BY <1>1, <1>3, <1>4 DEF q

LEMMA ProceedGood ==
    ASSUME NEW p \in Page, NEW cs, NEW ds, NEW sv, NEW s \in Slot, NEW call \in Call,
           NEW todo \in Seq(Item), NEW r, r = Proceed(p, call, todo),
           Running(p, cs, sv, s, call.kind, todo), Beside(cs, ds, s), ds[s] = r.call
    PROVE  /\ r.page \in Page /\ r.call \in Call \cup {None}
           /\ Good(r.page, ds, sv)
           /\ ~r.threw /\ UsableWhile(p, cs, s, call.kind, todo) => Usable(r.page, ds)
<1>1. Proceeded(p, call, todo, r)
  BY ProceedResult DEF Running
<1>2. CASE todo = <<>> /\ ~r.threw /\ r.call = None /\ r.page = Conclude(p, call.kind)
  BY <1>2, EndedGood
<1>3. CASE todo # <<>> /\ todo[1].do # "enable" /\ Requested(p, call, todo, r)
  BY <1>3, RequestGood
<1>4. CASE todo # <<>> /\ todo[1].do = "enable"
  <2> DEFINE q == Enabled(p)  t == Tail(todo)
  <2>1. /\ t \in Seq(Item) /\ Len(t) = Len(todo) - 1
        /\ \A i \in 1..Len(t) : t[i] = todo[i + 1]
        /\ Tidy(t) /\ \A what : Does(todo, what) => todo[1].do = what \/ Does(t, what)
    BY <1>4, TailTidy DEF Running
  <2>2. q \in Page
    BY Controls
  <2>3. /\ q.user = p.user /\ q.token = p.token /\ q.selected = p.selected
        /\ q.options = p.options /\ q.conversations = p.conversations /\ q.value = p.value
        /\ Shown(p) => Shown(q)
    BY EnabledRuns
  <2> HIDE DEF q, t
  <2>4. ~FreshTodo(todo)
    <3> SUFFICES ASSUME FreshTodo(todo) PROVE FALSE
      OBVIOUS
    <3>1. PICK k \in 1..Len(todo) : todo[k].do = "list"
               /\ \A j \in 1..(k - 1) : todo[j].do \in {"exchange", "catalog"}
      BY DEF FreshTodo
    <3>2. k = 1 \/ 1 \in 1..(k - 1)
      OBVIOUS
    <3> QED
      BY <1>4, <3>1, <3>2
  <2>5. Running(q, cs, sv, s, call.kind, t)
    <3>1. MineTodo(p, sv, t)
      <4>1. \A i \in 1..Len(t) : i + 1 \in 1..Len(todo)
        BY <2>1
      <4> QED
        BY <2>1, <4>1 DEF MineTodo, Running
    <3>2. \A u \in Others(cs, s) : CallGood(q, sv, cs[u])
      BY <2>3, SameUser DEF Running
    <3>3. MineLists(q, sv) /\ MineTodo(q, sv, t) /\ Mine(q, sv, q.selected)
      BY <2>3, <2>4, <3>1, SameUser DEF Running, MineLists
    <3> QED
      BY <2>1, <2>3, <3>2, <3>3 DEF Running
  <2>6. ASSUME UsableWhile(p, cs, s, call.kind, todo) PROVE UsableWhile(q, cs, s, call.kind, t)
    <3>1. RunComes(cs, s, todo, "list") => RunComes(cs, s, t, "list")
      BY <1>4, <2>1 DEF RunComes
    <3>2. Follows(q, RunComes(cs, s, t, "list"), RunComes(cs, s, t, "enable"),
                  RunAsking(cs, s, call.kind))
      BY <2>6, <3>1, EnabledFollows DEF UsableWhile, q
    <3> QED
      BY <2>3, <2>6, <3>2 DEF UsableWhile
  <2>7. CASE Len(todo) > 1 /\ Requested(q, call, t, r)
    <3>1. t # <<>>
      BY <2>1, <2>7
    <3>2. t[1].do # "enable"
      <4>1. 1 \in 1..Len(todo) /\ 2 \in 1..Len(todo) /\ 1 \in 1..Len(t) /\ 1 + 1 = 2
        BY <2>1, <2>7
      <4>2. todo[2].do # "enable"
        BY <1>4, <4>1 DEF Tidy, Running
      <4> QED
        BY <2>1, <4>1, <4>2
    <3> QED
      BY <2>1, <2>2, <2>5, <2>6, <2>7, <3>1, <3>2, RequestGood
  <2>8. CASE todo = <<Do("enable")>> /\ ~r.threw /\ r.call = None /\ r.page = Conclude(q, call.kind)
    <3>1. t = <<>>
      BY <2>8 DEF t
    <3> QED
      BY <2>2, <2>5, <2>6, <2>8, <3>1, EndedGood
  <2> QED
    BY <1>1, <1>4, <2>7, <2>8 DEF Proceeded, q, t
<1>5. CASE todo = <<>>
  <2>1. ~(Len(todo) > 1) /\ todo # <<Do("enable")>>
    BY <1>5
  <2> QED
    BY <1>1, <1>2, <1>5, <2>1 DEF Proceeded
<1>6. CASE todo # <<>> /\ todo[1].do # "enable"
  <2>1. todo # <<Do("enable")>>
    BY <1>6 DEF Do
  <2> QED
    BY <1>1, <1>3, <1>6, <2>1 DEF Proceeded
<1> QED
  BY <1>4, <1>5, <1>6

-----------------------------------------------------------------------------
(* An answer arrives *)

LEMMA ConsTidy ==
    ASSUME NEW item \in Item, item.do \in {"list", "turns"}, NEW todo \in Seq(Item), Tidy(todo)
    PROVE  LET all == <<item>> \o todo IN
           /\ all \in Seq(Item) /\ Tidy(all) /\ all # <<>> /\ Len(all) = Len(todo) + 1
           /\ all[1] = item /\ \A i \in 2..Len(all) : all[i] = todo[i - 1] /\ i - 1 \in 1..Len(todo)
           /\ \A what : Does(todo, what) => Does(all, what)
           /\ Does(all, item.do)
<1> DEFINE all == <<item>> \o todo
<1>0. Len(todo) \in Nat
  OBVIOUS
<1>1. /\ all \in Seq(Item) /\ Len(all) = Len(todo) + 1 /\ all[1] = item
      /\ \A i \in 2..Len(all) : all[i] = todo[i - 1]
  OBVIOUS
<1> HIDE DEF all
<1>2. \A i \in 2..Len(all) : i - 1 \in 1..Len(todo)
  BY <1>0, <1>1
<1>3. \A i \in 1..Len(todo) : i + 1 \in 2..Len(all) /\ all[i + 1] = todo[i]
  <2> SUFFICES ASSUME NEW i \in 1..Len(todo) PROVE i + 1 \in 2..Len(all) /\ all[i + 1] = todo[i]
    OBVIOUS
  <2>1. i + 1 \in 2..Len(all) /\ (i + 1) - 1 = i
    BY <1>0, <1>1
  <2> QED
    BY <1>1, <2>1
<1>4. \A what : Does(todo, what) => Does(all, what)
  <2>1. \A i \in 1..Len(todo) : i + 1 \in 1..Len(all)
    BY <1>3
  <2> QED
    BY <1>3, <2>1 DEF Does
<1>5. Does(all, item.do)
  BY <1>0, <1>1 DEF Does
<1>6. ASSUME NEW i \in 2..Len(all), NEW what, Later(todo, i - 1, what) PROVE Later(all, i, what)
  <2>1. PICK j \in ((i - 1) + 1)..Len(todo) : todo[j].do = what
    BY <1>6 DEF Later
  <2>2. j \in 1..Len(todo) /\ j + 1 \in (i + 1)..Len(all)
    BY <1>0, <1>1
  <2> QED
    BY <1>3, <2>1, <2>2 DEF Later
<1>7. ASSUME NEW i \in 2..Len(all), NEW j \in 1..Len(all), j = i + 1, all[i].do = "enable"
      PROVE  all[j].do # "enable"
  <2>1. j \in 2..Len(all) /\ j - 1 = (i - 1) + 1
    BY <1>7
  <2> QED
    BY <1>1, <1>2, <1>7, <2>1 DEF Tidy
<1>8. ASSUME NEW i \in 1..Len(all)
      PROVE  /\ all[i].do = "enable" => /\ all[i] = Do("enable")
                                        /\ \A j \in 1..Len(all) : j = i + 1 => all[j].do # "enable"
             /\ all[i].do \in {"exchange", "catalog"} => Later(all, i, "enable")
             /\ all[i].do \in {"create", "rename", "delete"} => Later(all, i, "list")
  <2>1. CASE i = 1
    BY <1>1, <2>1
  <2>2. CASE i # 1
    <3>1. i \in 2..Len(all)
      BY <2>2
    <3> QED
      BY <1>1, <1>2, <1>6, <1>7, <3>1 DEF Tidy
  <2> QED
    BY <2>1, <2>2
<1>9. Tidy(all)
  BY <1>8, Zenon DEF Tidy
<1>10. all # <<>>
  BY <1>0, <1>1
<1> QED
  BY <1>1, <1>2, <1>4, <1>5, <1>9, <1>10 DEF all

\* The first request of a handler has been answered.
LEMMA Answered ==
    ASSUME NEW p \in Page, NEW cs \in [Slot -> Call \cup {None}], NEW sv, NEW s \in Pending(cs),
           Good(p, cs, sv)
    PROVE  /\ cs[s] \in Call /\ cs[s].todo \in Seq(Item) /\ cs[s].answer \in Answer
           /\ cs[s].todo # <<>> /\ Head(cs[s].todo) = cs[s].todo[1] /\ cs[s].todo[1] \in Item
           /\ cs[s].todo[1].do # "enable"
           /\ Running(p, cs, sv, s, cs[s].kind, cs[s].todo)
           /\ Usable(p, cs) => UsableWhile(p, cs, s, cs[s].kind, cs[s].todo)
           /\ Mine(p, sv, cs[s].todo[1].conv) /\ MineAnswer(p, sv, cs[s].answer)
<1>1. s \in Slot /\ cs[s] \in Call
  BY DEF Pending
<1>2. /\ cs[s].todo \in Seq(Item) /\ cs[s].answer \in Answer
  BY <1>1 DEF Call
<1>3. CallGood(p, sv, cs[s])
  BY DEF Good
<1>4. cs[s].todo # <<>> /\ Len(cs[s].todo) \in Nat \ {0}
  BY <1>2, <1>3 DEF CallGood
<1>5. Running(p, cs, sv, s, cs[s].kind, cs[s].todo)
  BY <1>3 DEF Running, Good, CallGood, Others, Fresh
<1>6. Pending(cs) = Others(cs, s) \cup {s}
  BY DEF Others
<1>7. ASSUME Usable(p, cs) PROVE UsableWhile(p, cs, s, cs[s].kind, cs[s].todo)
  <2>1. p.token # None /\ Follows(p, Comes(cs, "list"), Comes(cs, "enable"), Asking(cs))
    BY <1>7 DEF Usable
  <2>2. \A what : Comes(cs, what) => RunComes(cs, s, cs[s].todo, what)
    BY <1>6 DEF Comes, RunComes
  <2>3. Asking(cs) => RunAsking(cs, s, cs[s].kind)
    BY <1>6 DEF Asking, RunAsking
  <2> QED
    BY <2>1, <2>2, <2>3 DEF UsableWhile, Follows
<1>8. Mine(p, sv, cs[s].todo[1].conv) /\ MineAnswer(p, sv, cs[s].answer)
  BY <1>3, <1>4 DEF CallGood, MineTodo
<1> QED
  BY <1>1, <1>2, <1>3, <1>4, <1>5, <1>7, <1>8 DEF CallGood

\* Of the rest of what there was to do.
LEMMA Rest ==
    ASSUME NEW p, NEW cs, NEW sv, NEW s, NEW kind, NEW todo \in Seq(Item), todo # <<>>,
           Running(p, cs, sv, s, kind, todo)
    PROVE  /\ Tail(todo) \in Seq(Item) /\ Tidy(Tail(todo)) /\ MineTodo(p, sv, Tail(todo))
           /\ \A what : RunComes(cs, s, todo, what) /\ todo[1].do # what
                        => RunComes(cs, s, Tail(todo), what)
           /\ todo[1].do \in {"exchange", "catalog"} => RunComes(cs, s, Tail(todo), "enable")
           /\ todo[1].do \in {"create", "rename", "delete"} => RunComes(cs, s, Tail(todo), "list")
           /\ FreshTodo(todo) =>
                 /\ todo[1].do \in {"exchange", "catalog", "list"}
                 /\ todo[1].do # "list" => FreshTodo(Tail(todo))
<1> DEFINE t == Tail(todo)
<1>1. /\ t \in Seq(Item) /\ Len(t) = Len(todo) - 1 /\ Tidy(t)
      /\ \A i \in 1..Len(t) : t[i] = todo[i + 1]
      /\ \A what : Does(todo, what) => todo[1].do = what \/ Does(t, what)
  BY TailTidy DEF Running
<1>2. Len(todo) \in Nat \ {0} /\ \A i \in 1..Len(t) : i + 1 \in 1..Len(todo)
  BY <1>1
<1> HIDE DEF t
<1>3. MineTodo(p, sv, t)
  BY <1>1, <1>2 DEF Running, MineTodo
<1>4. \A what : RunComes(cs, s, todo, what) /\ todo[1].do # what => RunComes(cs, s, t, what)
  BY <1>1 DEF RunComes
<1>5. \A what : Later(todo, 1, what) => Does(t, what)
  <2> SUFFICES ASSUME NEW what, Later(todo, 1, what) PROVE Does(t, what)
    OBVIOUS
  <2>1. PICK j \in 2..Len(todo) : todo[j].do = what
    BY DEF Later
  <2>2. j - 1 \in 1..Len(t) /\ (j - 1) + 1 = j
    BY <1>1, <1>2
  <2> QED
    BY <1>1, <2>1, <2>2 DEF Does
<1>6. /\ todo[1].do \in {"exchange", "catalog"} => RunComes(cs, s, t, "enable")
      /\ todo[1].do \in {"create", "rename", "delete"} => RunComes(cs, s, t, "list")
  BY <1>2, <1>5 DEF Running, Tidy, RunComes
<1>7. ASSUME FreshTodo(todo)
      PROVE  /\ todo[1].do \in {"exchange", "catalog", "list"}
             /\ todo[1].do # "list" => FreshTodo(t)
  <2>1. PICK k \in 1..Len(todo) : todo[k].do = "list"
             /\ \A j \in 1..(k - 1) : todo[j].do \in {"exchange", "catalog"}
    BY <1>7 DEF FreshTodo
  <2>2. k = 1 \/ 1 \in 1..(k - 1)
    OBVIOUS
  <2>3. ASSUME k # 1 PROVE FreshTodo(t)
    <3>1. k - 1 \in 1..Len(t) /\ (k - 1) + 1 = k
      BY <1>1, <2>3
    <3>2. t[k - 1].do = "list"
      BY <1>1, <2>1, <3>1
    <3>3. \A j \in 1..((k - 1) - 1) : j \in 1..Len(t) /\ j + 1 \in 1..(k - 1)
      BY <3>1
    <3> QED
      BY <1>1, <2>1, <3>1, <3>2, <3>3 DEF FreshTodo
  <2> QED
    BY <2>1, <2>2, <2>3
<1> QED
  BY <1>1, <1>3, <1>4, <1>6, <1>7 DEF t

\* The list is rendered: one of the conversations is selected, if there are any, and the
\* list shows it.
LEMMA Rendered ==
    ASSUME NEW p \in Page, NEW convs \in Listing
    PROVE  LET q == RenderConversations(Select(p, convs)) IN
           /\ q \in Page /\ q.user = p.user /\ q.token = p.token
           /\ q.capabilities = p.capabilities /\ q.submit = p.submit
           /\ q.turns = p.turns /\ q.shown = p.shown
           /\ q.conversations = convs /\ q.options = convs /\ q.value = q.selected
           /\ q.selected = None <=> convs = <<>>
           /\ q.selected # None => Contains(convs, q.selected)
           /\ Contains(convs, p.selected) => q.selected = p.selected
           /\ q.new = (p.token # None /\ p.capabilities)
           /\ q.list = (p.token # None /\ p.capabilities /\ convs # <<>>)
           /\ q.change = (p.token # None /\ p.capabilities /\ q.selected # None)
<1> DEFINE r == Select(p, convs)
           on == p.token # None /\ p.capabilities
           t == [r EXCEPT !.options = r.conversations,
                          !.value = IF Contains(r.conversations, r.selected) THEN r.selected ELSE None]
           q == SetConversationControlsEnabled(t, on)
<1>1. convs \in Seq(Conv) /\ p.selected \in Conv \cup {None} /\ None \notin Conv
  BY WebAssumption DEF Listing, Page
<1>2. /\ convs # <<>> => convs[1] \in Conv /\ Contains(convs, convs[1])
      /\ \A c : Contains(convs, c) => c \in Conv /\ convs # <<>>
  BY <1>1 DEF Contains
<1> DEFINE chosen == CASE Contains(convs, p.selected) -> p.selected
                       [] ~Contains(convs, p.selected) /\ convs # <<>> -> convs[1]
                       [] OTHER -> None
<1>3. /\ chosen \in Conv \cup {None}
      /\ chosen = None <=> convs = <<>>
      /\ chosen # None => Contains(convs, chosen)
      /\ Contains(convs, p.selected) => chosen = p.selected
  <2>1. CASE Contains(convs, p.selected)
    BY <1>1, <1>2, <2>1
  <2>2. CASE ~Contains(convs, p.selected) /\ convs # <<>>
    BY <1>1, <1>2, <2>2
  <2>3. CASE ~Contains(convs, p.selected) /\ convs = <<>>
    BY <1>1, <2>3
  <2> QED
    BY <2>1, <2>2, <2>3
<1>4. r = [p EXCEPT !.conversations = convs, !.selected = chosen]
  BY DEF Select
<1> HIDE DEF chosen, r
<1>5. /\ r \in Page /\ r.conversations = convs /\ r.selected = chosen
      /\ r.user = p.user /\ r.token = p.token /\ r.capabilities = p.capabilities
      /\ r.submit = p.submit /\ r.turns = p.turns /\ r.shown = p.shown
  BY <1>3, <1>4 DEF Page
<1>6. /\ t \in Page /\ t.conversations = convs /\ t.selected = chosen /\ t.options = convs
      /\ t.value = chosen
      /\ t.user = p.user /\ t.token = p.token /\ t.capabilities = p.capabilities
      /\ t.submit = p.submit /\ t.turns = p.turns /\ t.shown = p.shown
  <2>1. (IF Contains(r.conversations, r.selected) THEN r.selected ELSE None) = chosen
    BY <1>3, <1>5
  <2> QED
    BY <1>3, <1>5, <2>1 DEF Page
<1>7. on \in BOOLEAN
  BY DEF Page
<1> HIDE DEF t
<1>8. q \in Page
  BY <1>6, <1>7, Controls
<1>9. /\ q.conversations = convs /\ q.selected = chosen /\ q.options = convs /\ q.value = chosen
      /\ q.user = p.user /\ q.token = p.token /\ q.capabilities = p.capabilities
      /\ q.submit = p.submit /\ q.turns = p.turns /\ q.shown = p.shown
      /\ q.new = on /\ q.list = (on /\ convs # <<>>) /\ q.change = (on /\ chosen # None)
  BY <1>6 DEF SetConversationControlsEnabled, Page
<1>10. q = RenderConversations(Select(p, convs))
  BY <1>5 DEF RenderConversations, r, t
<1> HIDE DEF q
<1> QED
  BY <1>3, <1>8, <1>9, <1>10

\* A page of the same user takes the place of p, and all is to do instead of todo.
LEMMA Changed ==
    ASSUME NEW p, NEW q, NEW cs, NEW sv, NEW s, NEW kind, NEW todo, NEW all,
           Running(p, cs, sv, s, kind, todo), q.user = p.user,
           Tidy(all), MineTodo(p, sv, all), MineLists(q, sv), Shown(q),
           \/ Mine(p, sv, q.selected)
           \/ /\ q.selected = p.selected /\ (Off(p) => Off(q))
              /\ FreshTodo(todo) => FreshTodo(all)
    PROVE  Running(q, cs, sv, s, kind, all)
<1>1. \A t \in Others(cs, s) : CallGood(q, sv, cs[t])
  BY SameUser DEF Running
<1>2. MineTodo(q, sv, all)
  BY SameUser
<1>3. \/ Mine(q, sv, q.selected)
      \/ /\ Off(q) /\ kind = "load" /\ FreshTodo(all)
         /\ \A t \in Others(cs, s) : cs[t].kind = "load" /\ FreshTodo(cs[t].todo)
  <2>1. CASE Mine(p, sv, q.selected)
    BY <2>1, SameUser
  <2>2. CASE /\ q.selected = p.selected /\ (Off(p) => Off(q))
             /\ FreshTodo(todo) => FreshTodo(all)
    BY <2>2, SameUser DEF Running
  <2> QED
    BY <2>1, <2>2
<1> QED
  BY <1>1, <1>2, <1>3 DEF Running

LEMMA ContinueGood ==
    ASSUME NEW p \in Page, NEW cs, NEW sv, NEW s, NEW kind, NEW todo \in Seq(Item), todo # <<>>,
           NEW item \in Item, item = todo[1], item.do # "enable", NEW answer \in Answer,
           Running(p, cs, sv, s, kind, todo), Mine(p, sv, item.conv), MineAnswer(p, sv, answer),
           NEW n, n = Continue(p, item, answer)
    PROVE  /\ n.page \in Page /\ n.page.user = p.user
           /\ n.first \o Tail(todo) \in Seq(Item)
           /\ Running(n.page, cs, sv, s, kind, n.first \o Tail(todo))
           /\ UsableWhile(p, cs, s, kind, todo)
              => UsableWhile(n.page, cs, s, kind, n.first \o Tail(todo))
<1> DEFINE t == Tail(todo)  all == n.first \o t  q == n.page
           Goal(pp, aa) == /\ pp \in Page /\ pp.user = p.user /\ aa \in Seq(Item)
                           /\ Running(pp, cs, sv, s, kind, aa)
                           /\ UsableWhile(p, cs, s, kind, todo) => UsableWhile(pp, cs, s, kind, aa)
<1>1. /\ t \in Seq(Item) /\ Tidy(t) /\ MineTodo(p, sv, t)
      /\ \A what : RunComes(cs, s, todo, what) /\ item.do # what => RunComes(cs, s, t, what)
      /\ item.do \in {"exchange", "catalog"} => RunComes(cs, s, t, "enable")
      /\ item.do \in {"create", "rename", "delete"} => RunComes(cs, s, t, "list")
      /\ FreshTodo(todo) =>
            /\ item.do \in {"exchange", "catalog", "list"}
            /\ item.do # "list" => FreshTodo(t)
  BY Rest
<1>2. <<>> \o t = t
  BY <1>1, ConcatEmptySeq
<1>3. MineLists(p, sv) /\ Shown(p) /\ p.user # None
      /\ (Mine(p, sv, p.selected) \/ (Off(p) /\ FreshTodo(todo)))
  BY DEF Running
<1> HIDE DEF t
<1>4. ASSUME item.do = "exchange" PROVE Goal(q, all)
  <2> DEFINE r == [p EXCEPT !.token = "current"]
  <2>1. q = SetQueryEnabled(r, FALSE) /\ all = t
    BY <1>2, <1>4 DEF Continue
  <2>2. r \in Page
    BY DEF Page
  <2>3. q \in Page
    BY <2>1, <2>2, Controls
  <2>4. /\ q.user = p.user /\ q.token = "current" /\ q.selected = p.selected /\ q.value = p.value
        /\ q.options = p.options /\ q.conversations = p.conversations /\ Off(q)
    BY <2>1 DEF SetQueryEnabled, SetConversationControlsEnabled, Page, Off
  <2> HIDE DEF q, all
  <2>5. Running(q, cs, sv, s, kind, t)
    <3>1. Shown(q)
      BY <1>3, <2>4 DEF Shown, Off
    <3>2. MineLists(q, sv)
      BY <1>3, <2>4, SameUser DEF MineLists
    <3> QED
      BY <1>1, <1>4, <2>4, <3>1, <3>2, Changed
  <2>6. UsableWhile(p, cs, s, kind, todo) => UsableWhile(q, cs, s, kind, t)
    BY <1>1, <1>4, <2>4, WebAssumption DEF UsableWhile, Follows
  <2> QED
    BY <1>1, <2>1, <2>3, <2>4, <2>5, <2>6
<1>5. ASSUME item.do = "catalog" PROVE Goal(q, all)
  <2> DEFINE b == p.user \in Capable
  <2>1. q = [p EXCEPT !.capabilities = b] /\ all = t
    BY <1>2, <1>5 DEF Continue
  <2>2. b \in BOOLEAN
    OBVIOUS
  <2> HIDE DEF b
  <2>3. q \in Page
    BY <2>1, <2>2 DEF Page
  <2>4. /\ q.user = p.user /\ q.token = p.token /\ q.selected = p.selected /\ q.value = p.value
        /\ q.options = p.options /\ q.conversations = p.conversations /\ (Off(p) => Off(q))
        /\ Shown(p) => Shown(q)
    BY <2>1 DEF Page, Off, Shown
  <2> HIDE DEF q, all
  <2>5. Running(q, cs, sv, s, kind, t)
    <3>1. MineLists(q, sv)
      BY <1>3, <2>4, SameUser DEF MineLists
    <3> QED
      BY <1>1, <1>3, <1>5, <2>4, <3>1, Changed
  <2>6. UsableWhile(p, cs, s, kind, todo) => UsableWhile(q, cs, s, kind, t)
    BY <1>1, <1>5, <2>4 DEF UsableWhile, Follows
  <2> QED
    BY <1>1, <2>1, <2>3, <2>4, <2>5, <2>6
<1>6. ASSUME item.do = "list" PROVE Goal(q, all)
  <2> DEFINE r == RenderConversations(Select(p, answer.convs))
  <2>1. answer.convs \in Listing
    BY DEF Answer
  <2>2. /\ r \in Page /\ r.user = p.user /\ r.token = p.token
        /\ r.capabilities = p.capabilities /\ r.submit = p.submit
        /\ r.conversations = answer.convs /\ r.options = answer.convs /\ r.value = r.selected
        /\ r.selected # None => Contains(answer.convs, r.selected)
        /\ r.new = (p.token # None /\ p.capabilities)
        /\ r.list = (p.token # None /\ p.capabilities /\ answer.convs # <<>>)
        /\ r.change = (p.token # None /\ p.capabilities /\ r.selected # None)
    BY <2>1, Rendered
  <2>3. /\ r.selected # None => q = r /\ n.first = <<DoWith("turns", r.selected)>>
        /\ r.selected = None => q = RenderTurns(r, None, {}) /\ n.first = <<>>
    BY <1>6 DEF Continue
  <2> HIDE DEF r, q
  <2>4. /\ q \in Page /\ q.user = p.user /\ q.token = p.token
        /\ q.capabilities = p.capabilities /\ q.submit = p.submit
        /\ q.conversations = answer.convs /\ q.options = answer.convs /\ q.value = q.selected
        /\ q.selected # None => Contains(answer.convs, q.selected)
        /\ q.new = (p.token # None /\ p.capabilities)
        /\ q.list = (p.token # None /\ p.capabilities /\ answer.convs # <<>>)
        /\ q.change = (p.token # None /\ p.capabilities /\ q.selected # None)
        /\ q.selected = r.selected
    <3>1. CASE r.selected # None
      BY <2>2, <2>3, <3>1
    <3>2. CASE r.selected = None
      <4>1. q = [r EXCEPT !.turns = None, !.shown = {}]
        BY <2>3, <3>2 DEF RenderTurns
      <4>2. q \in Page
        <5>1. {} \in SUBSET Turn /\ None \in Conv \cup {None}
          BY WebAssumption
        <5>2. r \in Page
          BY <2>2
        <5> QED
          BY <4>1, <5>1, <5>2 DEF Page
      <4>3. /\ q.user = r.user /\ q.token = r.token /\ q.capabilities = r.capabilities
            /\ q.submit = r.submit /\ q.conversations = r.conversations /\ q.options = r.options
            /\ q.value = r.value /\ q.selected = r.selected /\ q.new = r.new /\ q.list = r.list
            /\ q.change = r.change
        BY <2>2, <4>1 DEF Page
      <4> QED
        BY <2>2, <4>2, <4>3
    <3> QED
      BY <3>1, <3>2
  <2>5. Mine(p, sv, q.selected)
    BY <2>4 DEF Contains, MineAnswer, Mine
  <2>6. MineLists(q, sv)
    BY <2>4, SameUser DEF MineAnswer, MineLists
  <2>7. Shown(q)
    BY <2>4 DEF Shown
  <2>8. /\ all \in Seq(Item) /\ Tidy(all) /\ MineTodo(p, sv, all)
        /\ \A what : Does(t, what) => Does(all, what)
    <3>1. CASE q.selected = None
      BY <1>1, <1>2, <2>3, <2>4, <3>1
    <3>2. CASE q.selected # None
      <4> DEFINE it == DoWith("turns", q.selected)
      <4>1. it \in Item /\ it.do = "turns" /\ it.conv = q.selected
        BY <2>4 DEF DoWith, Item, Page
      <4>2. all = <<it>> \o t
        BY <2>3, <2>4, <3>2
      <4> HIDE DEF it, all
      <4>3. /\ all \in Seq(Item) /\ Tidy(all) /\ all[1] = it
            /\ \A i \in 2..Len(all) : all[i] = t[i - 1] /\ i - 1 \in 1..Len(t)
            /\ \A what : Does(t, what) => Does(all, what)
        BY <1>1, <4>1, <4>2, ConsTidy
      <4>4. MineTodo(p, sv, all)
        <5>1. \A i \in 1..Len(all) : i = 1 \/ i \in 2..Len(all)
          BY <4>3
        <5> QED
          BY <1>1, <2>5, <4>1, <4>3, <5>1 DEF MineTodo
      <4> QED
        BY <4>3, <4>4
    <3> QED
      BY <3>1, <3>2
  <2> HIDE DEF all
  <2>9. Running(q, cs, sv, s, kind, all)
    BY <2>4, <2>5, <2>6, <2>7, <2>8, Changed
  <2>10. UsableWhile(p, cs, s, kind, todo) => UsableWhile(q, cs, s, kind, all)
    <3>1. RunComes(cs, s, todo, "enable") => RunComes(cs, s, all, "enable")
      BY <1>1, <1>6, <2>8 DEF RunComes
    <3> SUFFICES ASSUME UsableWhile(p, cs, s, kind, todo)
                 PROVE  UsableWhile(q, cs, s, kind, all)
      OBVIOUS
    <3>2. p.token # None /\ p.capabilities \in BOOLEAN
      BY DEF UsableWhile, Page
    <3>3. p.submit # p.capabilities => RunComes(cs, s, todo, "enable") \/ RunAsking(cs, s, kind)
      BY DEF UsableWhile, Follows
    <3>4. /\ q.new = q.capabilities /\ q.list = (q.capabilities /\ q.conversations # <<>>)
          /\ q.change = (q.capabilities /\ q.selected # None)
      BY <2>4, <3>2
    <3> QED
      BY <2>4, <3>1, <3>2, <3>3, <3>4 DEF UsableWhile, Follows
  <2> QED
    BY <2>4, <2>8, <2>9, <2>10
\* Where the selection is the user's, the rest concerns nothing else that must stay.
<1>7. ASSUME item.do \notin {"exchange", "catalog", "list"} PROVE Mine(p, sv, p.selected)
  BY <1>1, <1>3, <1>7
<1>8. ASSUME item.do = "turns" PROVE Goal(q, all)
  <2>1. q = RenderTurns(p, item.conv, answer.shown) /\ all = t
    BY <1>2, <1>8 DEF Continue
  <2>2. q \in Page
    BY <2>1 DEF RenderTurns, Page, Item, Answer
  <2>3. /\ q.user = p.user /\ q.token = p.token /\ q.selected = p.selected /\ q.value = p.value
        /\ q.options = p.options /\ q.conversations = p.conversations
        /\ q.capabilities = p.capabilities /\ q.submit = p.submit /\ q.new = p.new
        /\ q.list = p.list /\ q.change = p.change
    BY <2>1 DEF RenderTurns, Page
  <2> HIDE DEF q, all
  <2>4. Running(q, cs, sv, s, kind, t)
    <3>1. MineLists(q, sv) /\ Shown(q)
      BY <1>3, <2>3, SameUser DEF MineLists, Shown
    <3> QED
      BY <1>1, <1>7, <1>8, <2>3, <3>1, Changed
  <2>5. UsableWhile(p, cs, s, kind, todo) => UsableWhile(q, cs, s, kind, t)
    BY <1>1, <1>8, <2>3 DEF UsableWhile, Follows
  <2> QED
    BY <1>1, <2>1, <2>2, <2>3, <2>4, <2>5
<1>9. ASSUME NEW c \in Conv \cup {None}, Mine(p, sv, c), q = [p EXCEPT !.selected = c],
             all \in Seq(Item), Tidy(all), MineTodo(p, sv, all),
             RunComes(cs, s, all, "list"),
             \A what : RunComes(cs, s, todo, what) /\ item.do # what => RunComes(cs, s, all, what)
      PROVE  Goal(q, all)
  <2>1. q \in Page
    BY <1>9 DEF Page
  <2>2. /\ q.user = p.user /\ q.token = p.token /\ q.selected = c /\ q.value = p.value
        /\ q.options = p.options /\ q.conversations = p.conversations
        /\ q.capabilities = p.capabilities /\ q.submit = p.submit /\ q.new = p.new
        /\ q.list = p.list /\ q.change = p.change
    BY <1>9 DEF Page
  <2> HIDE DEF q, all
  <2>3. Running(q, cs, sv, s, kind, all)
    <3>1. MineLists(q, sv) /\ Shown(q)
      BY <1>3, <2>2, SameUser DEF MineLists, Shown
    <3> QED
      BY <1>9, <2>2, <3>1, Changed
  <2>4. UsableWhile(p, cs, s, kind, todo) => UsableWhile(q, cs, s, kind, all)
    BY <1>9, <2>2 DEF UsableWhile, Follows
  <2> QED
    BY <1>9, <2>1, <2>2, <2>3, <2>4
<1>10. ASSUME item.do = "create" PROVE Goal(q, all)
  <2>1. q = [p EXCEPT !.selected = answer.conv] /\ all = t
    BY <1>2, <1>10 DEF Continue
  <2>2. answer.conv \in Conv \cup {None} /\ Mine(p, sv, answer.conv)
    BY DEF Answer, MineAnswer
  <2> QED
    BY <1>1, <1>9, <1>10, <2>1, <2>2
<1>11. ASSUME item.do = "delete" PROVE Goal(q, all)
  <2>1. q = [p EXCEPT !.selected = None] /\ all = t
    BY <1>2, <1>11 DEF Continue
  <2>2. Mine(p, sv, None)
    BY DEF Mine
  <2> QED
    BY <1>1, <1>9, <1>11, <2>1, <2>2
<1>12. ASSUME item.do = "query", answer.conv # None PROVE Goal(q, all)
  <2>1. q = [p EXCEPT !.selected = answer.conv] /\ all = <<Do("list")>> \o t
    BY <1>12 DEF Continue
  <2>2. answer.conv \in Conv \cup {None} /\ Mine(p, sv, answer.conv)
    BY DEF Answer, MineAnswer
  <2>3. Do("list") \in Item /\ Do("list").do = "list" /\ Do("list").conv = None
    BY DEF Do, Item
  <2> HIDE DEF q, all
  <2>4. /\ all \in Seq(Item) /\ Tidy(all) /\ all[1] = Do("list") /\ Does(all, "list")
        /\ \A i \in 2..Len(all) : all[i] = t[i - 1] /\ i - 1 \in 1..Len(t)
        /\ \A what : Does(t, what) => Does(all, what)
    BY <1>1, <2>1, <2>3, ConsTidy
  <2>5. MineTodo(p, sv, all)
    <3>1. \A i \in 1..Len(all) : i = 1 \/ i \in 2..Len(all)
      BY <2>4
    <3> QED
      BY <1>1, <2>3, <2>4, <3>1 DEF MineTodo, Mine
  <2>6. RunComes(cs, s, all, "list") /\ \A what : RunComes(cs, s, t, what) => RunComes(cs, s, all, what)
    BY <2>4 DEF RunComes
  <2> QED
    BY <1>1, <1>9, <2>1, <2>2, <2>4, <2>5, <2>6
<1>13. ASSUME item.do = "rename" \/ (item.do = "query" /\ answer.conv = None) PROVE Goal(q, all)
  <2>1. q = p /\ all = t
    BY <1>2, <1>13 DEF Continue
  <2> HIDE DEF q, all
  <2>2. Running(p, cs, sv, s, kind, t)
    BY <1>1, <1>3, <1>7, <1>13, Changed
  <2>3. UsableWhile(p, cs, s, kind, todo) => UsableWhile(p, cs, s, kind, t)
    BY <1>1, <1>13 DEF UsableWhile, Follows
  <2> QED
    BY <1>1, <2>1, <2>2, <2>3
<1> HIDE DEF Goal
<1>14. Goal(q, all)
  BY <1>4, <1>5, <1>6, <1>8, <1>10, <1>11, <1>12, <1>13 DEF Item
<1> QED
  BY <1>14 DEF Goal, q, all, t

-----------------------------------------------------------------------------
(* The steps *)

Sound == /\ TypeOK
         /\ Good(page, calls, server)
         /\ ~failed => Usable(page, calls)
SoundNext == /\ TypeOK'
             /\ Good(page', calls', server')
             /\ ~failed' => Usable(page', calls')

\* The variables of a step that keeps the types.
LEMMA Typed ==
    ASSUME page' \in Page, calls' \in [Slot -> Call \cup {None}], server' \in Server,
           failed' \in BOOLEAN, events' \in 0..MaxEvents, settled' \in {"no", "turns", "all"}
    PROVE  TypeOK'
BY DEF TypeOK

LEMMA ReceiveSound ==
    ASSUME Sound, NEW s \in Slot, Receive(s)
    PROVE  SoundNext
<1> DEFINE call == calls[s]  todo == call.todo  item == Head(todo)
           n == Continue(page, item, call.answer)
           after == [call EXCEPT !.listed = @ \/ item.do = "list"]
           all == n.first \o Tail(todo)
           r == Proceed(n.page, after, all)
<1>1. /\ call # None /\ page' = r.page /\ calls' = [calls EXCEPT ![s] = r.call]
      /\ failed' = (failed \/ r.threw) /\ server' = server /\ events' = events
      /\ settled' = IF r.call = None /\ ~r.threw /\ call.alone
                    THEN SettledBy(call.kind, after.listed) ELSE "no"
  BY DEF Receive
<1>2. /\ page \in Page /\ calls \in [Slot -> Call \cup {None}] /\ server \in Server
      /\ failed \in BOOLEAN /\ events \in 0..MaxEvents
      /\ Good(page, calls, server) /\ (~failed => Usable(page, calls))
  BY DEF Sound, TypeOK
<1>3. s \in Pending(calls)
  BY <1>1 DEF Pending
<1>4. /\ call \in Call /\ todo \in Seq(Item) /\ call.answer \in Answer
      /\ todo # <<>> /\ item = todo[1] /\ item \in Item /\ item.do # "enable"
      /\ Running(page, calls, server, s, call.kind, todo)
      /\ Usable(page, calls) => UsableWhile(page, calls, s, call.kind, todo)
      /\ Mine(page, server, item.conv) /\ MineAnswer(page, server, call.answer)
  BY <1>2, <1>3, Answered
<1> DEFINE listed == call.listed \/ item.do = "list"
<1>5. after \in Call /\ after.kind = call.kind
  <2>1. listed \in BOOLEAN /\ after = [call EXCEPT !.listed = listed]
    BY <1>4
  <2> HIDE DEF listed, call
  <2> QED
    BY <1>4, <2>1 DEF Call
<1> HIDE DEF call, todo, item, after, listed
<1>6. /\ n.page \in Page /\ all \in Seq(Item)
      /\ Running(n.page, calls, server, s, call.kind, all)
      /\ UsableWhile(page, calls, s, call.kind, todo)
         => UsableWhile(n.page, calls, s, call.kind, all)
  BY <1>2, <1>4, ContinueGood
<1> HIDE DEF n, all
<1>7. Beside(calls, calls', s) /\ calls'[s] = r.call
  BY <1>1, <1>2 DEF Beside
<1>8. /\ r.page \in Page /\ r.call \in Call \cup {None}
      /\ Good(r.page, calls', server)
      /\ ~r.threw /\ UsableWhile(n.page, calls, s, call.kind, all) => Usable(r.page, calls')
  <2> DEFINE rr == r
  <2>1. rr = Proceed(n.page, after, all)
    OBVIOUS
  <2> HIDE DEF rr
  <2>2. calls'[s] = rr.call
    BY <1>7, <2>1
  <2>3. Running(n.page, calls, server, s, after.kind, all)
    BY <1>5, <1>6
  <2>4. /\ rr.page \in Page /\ rr.call \in Call \cup {None}
        /\ Good(rr.page, calls', server)
        /\ ~rr.threw /\ UsableWhile(n.page, calls, s, after.kind, all) => Usable(rr.page, calls')
    BY <1>5, <1>6, <1>7, <2>1, <2>2, <2>3, ProceedGood
  <2> QED
    BY <1>5, <2>1, <2>4
<1> HIDE DEF r
<1>9. calls' \in [Slot -> Call \cup {None}]
  BY <1>1, <1>2, <1>8
<1>10. failed' \in BOOLEAN /\ settled' \in {"no", "turns", "all"}
  BY <1>1 DEF SettledBy
<1>11. TypeOK'
  BY <1>1, <1>2, <1>8, <1>9, <1>10, Typed
<1>12. ~failed' => Usable(page', calls')
  BY <1>1, <1>2, <1>4, <1>6, <1>8
<1> QED
  BY <1>1, <1>8, <1>11, <1>12 DEF SoundNext

LEMMA RaiseSound ==
    ASSUME Sound, NEW s \in Slot, Raise(s)
    PROVE  SoundNext
<1>1. /\ calls[s] # None /\ page' = Thrown(page, calls[s]).page
      /\ calls' = [calls EXCEPT ![s] = None]
      /\ failed' = TRUE /\ settled' = "no" /\ server' = server /\ events' = events
  BY DEF Raise
<1>2. /\ page \in Page /\ calls \in [Slot -> Call \cup {None}] /\ server \in Server
      /\ events \in 0..MaxEvents /\ Good(page, calls, server)
  BY DEF Sound, TypeOK
<1>3. s \in Pending(calls)
  BY <1>1 DEF Pending
<1>4. Running(page, calls, server, s, calls[s].kind, calls[s].todo)
  BY <1>2, <1>3, Answered
<1>5. Broken(page, calls[s].kind, page')
  BY <1>1, <1>2, ThrownPage
<1>6. Beside(calls, calls', s) /\ calls'[s] = None
  BY <1>1, <1>2 DEF Beside
<1>7. Good(page', calls', server')
  BY <1>1, <1>2, <1>4, <1>5, <1>6, ThrownGood
<1>8. TypeOK'
  <2>1. page' \in Page /\ calls' \in [Slot -> Call \cup {None}] /\ failed' \in BOOLEAN
    BY <1>1, <1>2, <1>5 DEF Broken
  <2> QED
    BY <1>1, <1>2, <2>1, Typed
<1> QED
  BY <1>1, <1>7, <1>8 DEF SoundNext

\* Calls that are as they were but for what the invariant does not look at.
LEMMA SameCalls ==
    ASSUME NEW p, NEW cs, NEW ds, NEW sv,
           \A t \in Slot : /\ ds[t] = None <=> cs[t] = None
                           /\ cs[t] # None => /\ ds[t].kind = cs[t].kind /\ ds[t].todo = cs[t].todo
                                              /\ ds[t].answer = cs[t].answer,
           Good(p, cs, sv)
    PROVE  Good(p, ds, sv) /\ (Usable(p, cs) => Usable(p, ds))
<1>1. Pending(ds) = Pending(cs) /\ \A t \in Pending(cs) :
         ds[t].kind = cs[t].kind /\ ds[t].todo = cs[t].todo /\ ds[t].answer = cs[t].answer
  BY DEF Pending
<1>2. \A t \in Pending(ds) : CallGood(p, sv, ds[t])
  BY <1>1, SameUser DEF Good
<1>3. Fresh(p, cs) => Fresh(p, ds)
  BY <1>1 DEF Fresh
<1>4. Good(p, ds, sv)
  BY <1>1, <1>2, <1>3 DEF Good
<1>5. \A what : Comes(ds, what) <=> Comes(cs, what)
  BY <1>1 DEF Comes
<1>6. Asking(ds) <=> Asking(cs)
  BY <1>1 DEF Asking
<1> QED
  BY <1>1, <1>4, <1>5, <1>6 DEF Usable, Follows

\* A conversation never changes hands.
LEMMA OwnersKept ==
    ASSUME NEW p \in Page, NEW cs \in [Slot -> Call \cup {None}], NEW sv \in Server, NEW sw \in Server,
           \A c \in Conv : sv.owner[c] # None => sw.owner[c] = sv.owner[c],
           Good(p, cs, sv)
    PROVE  Good(p, cs, sw)
<1>1. \A c \in Conv \cup {None} : Mine(p, sv, c) => Mine(p, sw, c)
  BY DEF Mine
<1>2. ASSUME NEW t \in Pending(cs) PROVE CallGood(p, sw, cs[t])
  <2>1. cs[t] \in Call /\ CallGood(p, sv, cs[t])
    BY DEF Pending, Good
  <2>2. cs[t].todo \in Seq(Item) /\ cs[t].answer \in Answer
    BY <2>1 DEF Call
  <2>3. MineTodo(p, sw, cs[t].todo)
    <3>1. \A i \in 1..Len(cs[t].todo) : cs[t].todo[i].conv \in Conv \cup {None}
      <4>1. \A i \in 1..Len(cs[t].todo) : cs[t].todo[i] \in Item
        BY <2>2
      <4> QED
        BY <4>1 DEF Item
    <3> QED
      BY <1>1, <2>1, <3>1 DEF MineTodo, CallGood
  <2>4. MineAnswer(p, sw, cs[t].answer)
    <3>1. /\ cs[t].answer.conv \in Conv \cup {None}
          /\ \A i \in 1..Len(cs[t].answer.convs) : cs[t].answer.convs[i] \in Conv
      BY <2>2 DEF Answer, Listing
    <3> QED
      BY <1>1, <2>1, <3>1 DEF MineAnswer, CallGood
  <2> QED
    BY <2>1, <2>3, <2>4 DEF CallGood
<1>3. MineLists(p, sw)
  <2>1. /\ \A i \in 1..Len(p.conversations) : p.conversations[i] \in Conv
        /\ \A i \in 1..Len(p.options) : p.options[i] \in Conv
    BY DEF Page, Listing
  <2> QED
    BY <1>1, <2>1 DEF MineLists, Good
<1>4. Mine(p, sv, p.selected) => Mine(p, sw, p.selected)
  BY <1>1 DEF Page
<1> QED
  BY <1>2, <1>3, <1>4 DEF Good

\* The calls, with an answer for the one of s.
WithAnswer(cs, s, a) == [cs EXCEPT ![s] = [cs[s] EXCEPT !.state = "answered", !.answer = a]]

LEMMA RepliedGood ==
    ASSUME NEW p \in Page, NEW cs \in [Slot -> Call \cup {None}], NEW sv, NEW s \in Pending(cs),
           Good(p, cs, sv), NEW a \in Answer, MineAnswer(p, sv, a),
           NEW ds, ds = WithAnswer(cs, s, a)
    PROVE  /\ ds \in [Slot -> Call \cup {None}]
           /\ Good(p, ds, sv)
           /\ Usable(p, cs) => Usable(p, ds)
<1>1. s \in Slot /\ cs[s] \in Call /\ cs[s] # None
  BY DEF Pending
<1> DEFINE call == [cs[s] EXCEPT !.state = "answered", !.answer = a]
<1>2. ds = [cs EXCEPT ![s] = call]
  BY DEF WithAnswer
<1>3. call \in Call /\ call.kind = cs[s].kind /\ call.todo = cs[s].todo /\ call.answer = a
  BY <1>1 DEF Call
<1>4. call # None
  BY <1>3, NoneAssumption
<1> HIDE DEF call
<1>5. ds \in [Slot -> Call \cup {None}]
  BY <1>2, <1>3
<1>6. /\ Pending(ds) = Pending(cs)
      /\ \A t \in Pending(cs) : ds[t].kind = cs[t].kind /\ ds[t].todo = cs[t].todo
      /\ \A t \in Pending(cs) : t # s => ds[t] = cs[t]
      /\ ds[s].answer = a
  BY <1>1, <1>2, <1>3, <1>4 DEF Pending
<1>7. ASSUME NEW t \in Pending(ds) PROVE CallGood(p, sv, ds[t])
  BY <1>6 DEF Good, CallGood
<1>8. Fresh(p, cs) => Fresh(p, ds)
  BY <1>6 DEF Fresh
<1>9. Good(p, ds, sv)
  BY <1>6, <1>7, <1>8 DEF Good
<1>10. /\ \A what : Comes(ds, what) <=> Comes(cs, what)
       /\ Asking(ds) <=> Asking(cs)
  BY <1>6 DEF Comes, Asking
<1> QED
  BY <1>5, <1>6, <1>9, <1>10 DEF Usable, Follows

LEMMA Served ==
    ASSUME server \in Server, NEW c \in Conv, NEW u \in User
    PROVE  /\ CreateFor(u, c) => /\ server' \in Server
                                 /\ \A d \in Conv : server.owner[d] # None => server'.owner[d] = server.owner[d]
                                 /\ server'.owner[c] = u
           /\ RenameOf(c) \/ DeleteOf(c) \/ AddTurn(c) => server' \in Server /\ server'.owner = server.owner
<1>1. Touch(c) \in Listing /\ Without(c) \in Listing
  BY Touched
<1>2. ASSUME CreateFor(u, c)
      PROVE  /\ server' \in Server
             /\ \A d \in Conv : server.owner[d] # None => server'.owner[d] = server.owner[d]
             /\ server'.owner[c] = u
  BY <1>1, <1>2 DEF CreateFor, Server
<1>3. ASSUME RenameOf(c) \/ DeleteOf(c) PROVE server' \in Server /\ server'.owner = server.owner
  BY <1>1, <1>3 DEF RenameOf, DeleteOf, Server
<1>4. ASSUME AddTurn(c) PROVE server' \in Server /\ server'.owner = server.owner
  <2>1. server.turns[c] \in 0..MaxTurns /\ server.turns[c] + 1 \in 0..MaxTurns
    BY <1>4, WebAssumption DEF AddTurn, Server
  <2>2. server' = [server EXCEPT !.turns = [server.turns EXCEPT ![c] = server.turns[c] + 1]]
    BY <1>4 DEF AddTurn
  <2> QED
    BY <2>1, <2>2 DEF Server
<1> QED
  BY <1>2, <1>3, <1>4

\* The server answers a request.
LEMMA HandleSound ==
    ASSUME Sound, NEW s \in Slot, Handle(s)
    PROVE  SoundNext
<1>1. /\ page \in Page /\ calls \in [Slot -> Call \cup {None}] /\ server \in Server
      /\ failed \in BOOLEAN /\ events \in 0..MaxEvents /\ settled \in {"no", "turns", "all"}
      /\ Good(page, calls, server) /\ (~failed => Usable(page, calls))
  BY DEF Sound, TypeOK
<1>2. calls[s] # None /\ page' = page /\ failed' = failed /\ events' = events /\ settled' = settled
  BY DEF Handle, HandleRead, HandleCreate, HandleRename, HandleDelete, HandleQuery, Asked
<1>3. s \in Pending(calls)
  BY <1>2 DEF Pending
<1>4. page.user # None /\ page.user \in User
  BY <1>1, <1>3 DEF Good, Page
<1>5. ASSUME server' \in Server,
             \A c \in Conv : server.owner[c] # None => server'.owner[c] = server.owner[c],
             NEW a \in Answer, MineAnswer(page, server', a), Reply(s, a)
      PROVE  SoundNext
  <2>1. Good(page, calls, server')
    BY <1>1, <1>5, OwnersKept
  <2>2. calls' = [calls EXCEPT ![s].state = "answered", ![s].answer = a]
    BY <1>5 DEF Reply
  <2>3. /\ calls' \in [Slot -> Call \cup {None}]
        /\ Good(page, calls', server')
        /\ Usable(page, calls) => Usable(page, calls')
    <3> DEFINE ds == calls'
    <3>1. ds = WithAnswer(calls, s, a)
      BY <1>1, <2>2 DEF WithAnswer
    <3> HIDE DEF ds
    <3>1a. /\ page \in Page /\ calls \in [Slot -> Call \cup {None}] /\ s \in Pending(calls)
           /\ a \in Answer /\ MineAnswer(page, server', a) /\ Good(page, calls, server')
      BY <1>1, <1>3, <1>5, <2>1
    <3>2. /\ ds \in [Slot -> Call \cup {None}]
          /\ Good(page, ds, server')
          /\ Usable(page, calls) => Usable(page, ds)
      BY <3>1, <3>1a, RepliedGood
    <3> QED
      BY <3>2 DEF ds
  <2>4. TypeOK'
    BY <1>1, <1>2, <1>5, <2>3, Typed
  <2> QED
    BY <1>1, <1>2, <2>3, <2>4 DEF SoundNext
<1>6. {} \in SUBSET Turn /\ <<>> \in Listing
  BY WebAssumption DEF Listing, IsInjective
<1>7. ASSUME NEW c \in Conv \cup {None}, Mine(page, server', c), Replied(s, c),
             server' \in Server,
             \A d \in Conv : server.owner[d] # None => server'.owner[d] = server.owner[d]
      PROVE  SoundNext
  <2> DEFINE a == [NoAnswer EXCEPT !.conv = c]
  <2>1. a \in Answer /\ a.conv = c /\ a.convs = <<>>
    BY <1>6 DEF NoAnswer, Answer
  <2>2. Reply(s, a)
    BY <1>7 DEF Replied
  <2> HIDE DEF a
  <2>3. MineAnswer(page, server', a)
    BY <1>7, <2>1 DEF MineAnswer
  <2> QED
    BY <1>5, <1>7, <2>1, <2>2, <2>3
<1>8. ASSUME NEW c, Has(page.user, c)
      PROVE  c \in Conv /\ c # None /\ server.owner[c] = page.user
  <2>1. Contains(Own(page.user), c) /\ Own(page.user) \in Seq(Conv)
    BY <1>1, <1>8, OwnLists DEF Has, Listing
  <2>2. c \in Conv
    BY <2>1 DEF Contains
  <2> QED
    BY <1>1, <1>8, <2>1, <2>2, OwnLists DEF Has
<1>9. ASSUME NEW c \in Conv, CreateFor(page.user, c), Replied(s, c) PROVE SoundNext
  <2>1. /\ server' \in Server /\ server'.owner[c] = page.user
        /\ \A d \in Conv : server.owner[d] # None => server'.owner[d] = server.owner[d]
    BY <1>1, <1>4, <1>9, Served
  <2> QED
    BY <1>4, <1>7, <1>9, <2>1 DEF Mine
<1>10. ASSUME NEW c, Has(page.user, c), RenameOf(c) \/ DeleteOf(c) \/ AddTurn(c),
              Replied(s, c) \/ Replied(s, None)
       PROVE  SoundNext
  <2>1. c \in Conv /\ server.owner[c] = page.user
    BY <1>8, <1>10
  <2>2. server' \in Server /\ server'.owner = server.owner
    BY <1>1, <1>4, <1>10, <2>1, Served
  <2>3. Mine(page, server', c) /\ Mine(page, server', None)
    BY <1>4, <2>1, <2>2 DEF Mine
  <2> QED
    BY <1>7, <1>10, <2>1, <2>2, <2>3
<1>11. CASE HandleRead(s)
  <2>0. server' = server
    BY <1>11 DEF HandleRead
  <2>1. CASE Reply(s, [NoAnswer EXCEPT !.convs = ListFor(page.user)])
    <3> DEFINE a == [NoAnswer EXCEPT !.convs = ListFor(page.user)]
    <3>1. /\ ListFor(page.user) \in Listing
          /\ \A i \in 1..Len(ListFor(page.user)) : server.owner[ListFor(page.user)[i]] = page.user
      BY <1>1, OwnLists
    <3>2. a \in Answer /\ a.conv = None /\ a.convs = ListFor(page.user)
      BY <1>6, <3>1 DEF NoAnswer, Answer
    <3> HIDE DEF a
    <3>3. MineAnswer(page, server', a)
      BY <1>4, <2>0, <3>1, <3>2 DEF MineAnswer, Mine
    <3> QED
      BY <1>1, <1>5, <2>0, <2>1, <3>2, <3>3 DEF a
  <2>2. CASE /\ Has(page.user, ConvOf(s))
             /\ Reply(s, [NoAnswer EXCEPT !.shown = Recent(server.turns[ConvOf(s)])])
    <3> DEFINE a == [NoAnswer EXCEPT !.shown = Recent(server.turns[ConvOf(s)])]
    <3>0. server.turns[ConvOf(s)] \in 0..MaxTurns
      BY <1>1, <1>8, <2>2 DEF Server
    <3>1. Recent(server.turns[ConvOf(s)]) \in SUBSET Turn
      BY <3>0, RecentTurns
    <3>2. a \in Answer /\ a.conv = None /\ a.convs = <<>>
      BY <1>6, <3>1 DEF NoAnswer, Answer
    <3> HIDE DEF a
    <3>3. MineAnswer(page, server', a)
      BY <3>2 DEF MineAnswer, Mine
    <3> QED
      BY <1>1, <1>5, <2>0, <2>2, <3>2, <3>3 DEF a
  <2> QED
    BY <1>11, <2>1, <2>2 DEF HandleRead
<1>12. CASE HandleCreate(s)
  BY <1>9, <1>12 DEF HandleCreate
<1>13. CASE HandleRename(s)
  BY <1>10, <1>13 DEF HandleRename
<1>14. CASE HandleDelete(s)
  BY <1>10, <1>14 DEF HandleDelete
<1>15. CASE HandleQuery(s)
  <2>1. CASE Has(page.user, ConvOf(s)) /\ AddTurn(ConvOf(s)) /\ Replied(s, ConvOf(s))
    BY <1>10, <2>1
  <2>2. CASE \E c \in Conv : CreateFor(page.user, c) /\ Replied(s, c)
    BY <1>9, <2>2
  <2>3. CASE Replied(s, None) /\ server' = server
    <3>1. Mine(page, server', None)
      BY DEF Mine
    <3> QED
      BY <1>1, <1>7, <2>3, <3>1
  <2> QED
    BY <1>15, <2>1, <2>2, <2>3 DEF HandleQuery
<1> QED
  BY <1>11, <1>12, <1>13, <1>14, <1>15 DEF Handle

\* Another page, and what was still to come for a page that is gone.
LEMMA ElsewhereSound ==
    ASSUME Sound, NEW u \in User, Elsewhere(u)
    PROVE  SoundNext
<1>1. /\ page \in Page /\ calls \in [Slot -> Call \cup {None}] /\ server \in Server
      /\ failed \in BOOLEAN /\ events \in 0..MaxEvents
      /\ Good(page, calls, server) /\ (~failed => Usable(page, calls))
  BY DEF Sound, TypeOK
<1>2. /\ page' = page /\ failed' = failed /\ settled' = "no"
      /\ events < MaxEvents /\ events' = events + 1
      /\ calls' = [s \in Slot |-> IF calls[s] = None THEN None ELSE [calls[s] EXCEPT !.alone = FALSE]]
  BY DEF Elsewhere, Event
<1>3. /\ server' \in Server
      /\ \A d \in Conv : server.owner[d] # None => server'.owner[d] = server.owner[d]
  <2>1. PICK c \in Conv : \/ CreateFor(u, c)
                          \/ Has(u, c) /\ (RenameOf(c) \/ DeleteOf(c) \/ AddTurn(c))
    BY DEF Elsewhere
  <2> QED
    BY <1>1, <2>1, Served
<1>4. \A t \in Slot : calls[t] # None =>
         LET call == [calls[t] EXCEPT !.alone = FALSE] IN
         /\ call \in Call /\ call # None
         /\ call.kind = calls[t].kind /\ call.todo = calls[t].todo /\ call.answer = calls[t].answer
  <2> SUFFICES ASSUME NEW t \in Slot, calls[t] # None
               PROVE  LET call == [calls[t] EXCEPT !.alone = FALSE] IN
                      /\ call \in Call /\ call # None
                      /\ call.kind = calls[t].kind /\ call.todo = calls[t].todo
                      /\ call.answer = calls[t].answer
    OBVIOUS
  <2>1. calls[t] \in Call
    BY <1>1
  <2>2. [calls[t] EXCEPT !.alone = FALSE] \in Call
    BY <2>1 DEF Call
  <2>3. [calls[t] EXCEPT !.alone = FALSE] # None
    BY <2>2, NoneAssumption
  <2> QED
    BY <2>1, <2>2, <2>3 DEF Call
<1>5. \A t \in Slot :
         /\ calls'[t] = None <=> calls[t] = None
         /\ calls[t] # None => /\ calls'[t].kind = calls[t].kind /\ calls'[t].todo = calls[t].todo
                               /\ calls'[t].answer = calls[t].answer
  BY <1>2, <1>4
<1>6. calls' \in [Slot -> Call \cup {None}]
  BY <1>2, <1>4
<1>7. Good(page, calls, server')
  BY <1>1, <1>3, OwnersKept
<1>8. Good(page, calls', server') /\ (Usable(page, calls) => Usable(page, calls'))
  <2> DEFINE ds == calls'
  <2>1. \A t \in Slot :
           /\ ds[t] = None <=> calls[t] = None
           /\ calls[t] # None => /\ ds[t].kind = calls[t].kind /\ ds[t].todo = calls[t].todo
                                 /\ ds[t].answer = calls[t].answer
    BY <1>5
  <2> HIDE DEF ds
  <2>2. Good(page, ds, server') /\ (Usable(page, calls) => Usable(page, ds))
    BY <1>7, <2>1, SameCalls
  <2> QED
    BY <2>2 DEF ds
<1>9. TypeOK'
  <2>1. events' \in 0..MaxEvents
    BY <1>1, <1>2, WebAssumption
  <2> QED
    BY <1>1, <1>2, <1>3, <1>6, <2>1, Typed
<1> QED
  BY <1>1, <1>2, <1>8, <1>9 DEF SoundNext

\* The token expires.
LEMMA ExpireSound ==
    ASSUME Sound, Expire
    PROVE  SoundNext
<1>1. /\ page \in Page /\ calls \in [Slot -> Call \cup {None}] /\ server \in Server
      /\ failed \in BOOLEAN /\ events \in 0..MaxEvents /\ settled \in {"no", "turns", "all"}
      /\ Good(page, calls, server) /\ (~failed => Usable(page, calls))
  BY DEF Sound, TypeOK
<1>2. /\ page.token = "current" /\ page' = [page EXCEPT !.token = "expired"]
      /\ events < MaxEvents /\ events' = events + 1
      /\ calls' = calls /\ server' = server /\ failed' = failed /\ settled' = settled
  BY DEF Expire, Event
<1> DEFINE q == [page EXCEPT !.token = "expired"]
<1>3. /\ q \in Page /\ q.user = page.user /\ q.token = "expired" /\ q.selected = page.selected
      /\ q.value = page.value /\ q.conversations = page.conversations /\ q.options = page.options
      /\ q.capabilities = page.capabilities /\ q.submit = page.submit /\ q.new = page.new
      /\ q.list = page.list /\ q.change = page.change
  BY <1>1 DEF Page
<1> HIDE DEF q
<1>4. page.token # None /\ q.token # None
  BY <1>2, <1>3, WebAssumption
<1>5. Good(q, calls, server)
  <2>1. \A s \in Pending(calls) : CallGood(q, server, calls[s])
    BY <1>1, <1>3, SameUser DEF Good
  <2>2. MineLists(q, server) /\ (Mine(page, server, page.selected) <=> Mine(q, server, q.selected))
    BY <1>1, <1>3, SameUser DEF Good, MineLists
  <2>3. (Fresh(page, calls) <=> Fresh(q, calls)) /\ (Shown(page) <=> Shown(q))
    BY <1>3 DEF Fresh, Off, Shown
  <2> QED
    BY <1>1, <1>3, <1>4, <2>1, <2>2, <2>3 DEF Good
<1>6. Usable(page, calls) => Usable(q, calls)
  BY <1>3, <1>4 DEF Usable, Follows
<1>7. page' = q
  BY <1>2 DEF q
<1>8. TypeOK'
  <2>1. events' \in 0..MaxEvents
    BY <1>1, <1>2, WebAssumption
  <2> QED
    BY <1>1, <1>2, <1>3, <1>7, <2>1, Typed
<1> QED
  BY <1>1, <1>2, <1>5, <1>6, <1>7, <1>8 DEF SoundNext

\* A handler starts on p with todo.
LEMMA StartSound ==
    ASSUME Sound, NEW kind, kind \in {"load", "query", "create", "rename", "delete", "choose"},
           NEW p \in Page, NEW todo \in Seq(Item), Start(kind, p, todo),
           \A s \in Slot : calls[s] = None =>
              /\ Running(p, calls, server, s, kind, todo)
              /\ Usable(page, calls) => UsableWhile(p, calls, s, kind, todo)
    PROVE  SoundNext
<1>1. /\ calls \in [Slot -> Call \cup {None}] /\ server \in Server
      /\ failed \in BOOLEAN /\ events \in 0..MaxEvents /\ (~failed => Usable(page, calls))
  BY DEF Sound, TypeOK
<1> DEFINE call == NewCall(kind, <<>>, InFlight = {})  r == Proceed(p, call, todo)
<1>2. PICK s \in Slot :
         /\ Event /\ calls[s] = None /\ page' = r.page
         /\ calls' = [t \in Slot |->
               CASE t = s -> r.call
                 [] t # s /\ calls[t] # None -> [calls[t] EXCEPT !.alone = FALSE]
                 [] OTHER -> None]
         /\ failed' = (failed \/ r.threw) /\ settled' = "no" /\ server' = server
  BY DEF Start
<1> DEFINE alone == InFlight = {}
<1>3. call \in Call /\ call.kind = kind
  <2>1. alone \in BOOLEAN /\ NoAnswer \in Answer /\ <<>> \in Seq(Item)
    BY WebAssumption DEF NoAnswer, Answer, Listing, IsInjective
  <2>2. call = NewCall(kind, <<>>, alone)
    OBVIOUS
  <2> HIDE DEF alone, call
  <2> QED
    BY <2>1, <2>2 DEF NewCall, Call
<1> HIDE DEF alone, call
<1> DEFINE ds == calls'
<1>4. Beside(calls, ds, s) /\ ds[s] = r.call
  <2>1. \A t \in Slot \ {s} : calls[t] # None => calls[t] \in Call
    BY <1>1
  <2>2. \A c \in Call : /\ [c EXCEPT !.alone = FALSE] \in Call
                        /\ [c EXCEPT !.alone = FALSE] # None
                        /\ [c EXCEPT !.alone = FALSE].kind = c.kind
                        /\ [c EXCEPT !.alone = FALSE].todo = c.todo
                        /\ [c EXCEPT !.alone = FALSE].answer = c.answer
    BY NoneAssumption DEF Call
  <2>3. \A t \in Slot \ {s} :
           /\ calls[t] = None => ds[t] = None
           /\ calls[t] # None => ds[t] = [calls[t] EXCEPT !.alone = FALSE]
    BY <1>2
  <2>4. ds[s] = r.call
    BY <1>2
  <2> HIDE DEF ds, r
  <2> QED
    BY <2>1, <2>2, <2>3, <2>4 DEF Beside
<1>5. /\ r.page \in Page /\ r.call \in Call \cup {None}
      /\ Good(r.page, ds, server)
      /\ ~r.threw /\ UsableWhile(p, calls, s, kind, todo) => Usable(r.page, ds)
  <2> DEFINE rr == r
  <2>1. rr = Proceed(p, call, todo)
    OBVIOUS
  <2>2. ds[s] = rr.call
    BY <1>4
  <2> HIDE DEF rr, ds
  <2>3. Running(p, calls, server, s, call.kind, todo)
    BY <1>2, <1>3
  <2>4. /\ rr.page \in Page /\ rr.call \in Call \cup {None}
        /\ Good(rr.page, ds, server)
        /\ ~rr.threw /\ UsableWhile(p, calls, s, call.kind, todo) => Usable(rr.page, ds)
    BY <1>3, <1>4, <2>1, <2>2, <2>3, ProceedGood
  <2> QED
    BY <1>3, <2>1, <2>4
<1> HIDE DEF r
<1>6. calls' \in [Slot -> Call \cup {None}]
  <2>1. \A c \in Call : [c EXCEPT !.alone = FALSE] \in Call
    BY DEF Call
  <2> QED
    BY <1>1, <1>2, <1>5, <2>1
<1>7. TypeOK'
  <2>1. events' \in 0..MaxEvents
    BY <1>1, <1>2, WebAssumption DEF Event
  <2>2. failed' \in BOOLEAN
    BY <1>2
  <2> QED
    BY <1>1, <1>2, <1>5, <1>6, <2>1, <2>2, Typed
<1> HIDE DEF ds
<1>8. SoundNext
  BY <1>1, <1>2, <1>5, <1>7 DEF SoundNext, ds
<1> QED
  BY <1>8

\* What there is to do for an event.
LEMMA Todos ==
    ASSUME NEW c \in Conv \cup {None}
    PROVE  /\ \A todo \in {RenderSession, <<Do("query")>>, <<Do("create"), Do("list"), Do("query")>>,
                           <<Do("create"), Do("list")>>} :
                 /\ todo \in Seq(Item) /\ Tidy(todo)
                 /\ \A i \in 1..Len(todo) : todo[i].conv = None
           /\ \A todo \in {<<DoWith("rename", c), Do("list")>>, <<DoWith("delete", c), Do("list")>>,
                           <<DoWith("turns", c)>>} :
                 /\ todo \in Seq(Item) /\ Tidy(todo)
                 /\ \A i \in 1..Len(todo) : todo[i].conv \in {None, c}
           /\ FreshTodo(RenderSession) /\ Does(RenderSession, "list")
<1>1. \A what \in {"catalog", "list", "enable", "query", "create"} :
         Do(what) \in Item /\ Do(what).do = what /\ Do(what).conv = None
  BY DEF Do, Item
<1>2. \A what \in {"rename", "delete", "turns"} :
         DoWith(what, c) \in Item /\ DoWith(what, c).do = what /\ DoWith(what, c).conv = c
  BY DEF DoWith, Item
<1>3. ASSUME NEW a \in Item PROVE <<a>> \in Seq(Item) /\ Len(<<a>>) = 1 /\ <<a>>[1] = a
  OBVIOUS
<1>4. ASSUME NEW a \in Item, a.do \in {"query", "turns"} PROVE Tidy(<<a>>)
  BY <1>3, <1>4 DEF Tidy
<1>5. ASSUME NEW a \in Item, NEW b \in Item, a.do \in {"create", "rename", "delete"}, b.do = "list"
      PROVE  <<a, b>> \in Seq(Item) /\ Tidy(<<a, b>>)
  BY <1>5 DEF Tidy, Later
<1>6. ASSUME NEW a \in Item, NEW b \in Item, NEW d \in Item,
             a.do = "create", b.do = "list", d.do = "query"
      PROVE  <<a, b, d>> \in Seq(Item) /\ Tidy(<<a, b, d>>)
  BY <1>6 DEF Tidy, Later
<1>7. RenderSession \in Seq(Item) /\ Tidy(RenderSession) /\ Len(RenderSession) = 3
      /\ RenderSession[1] = Do("catalog") /\ RenderSession[2] = Do("list")
      /\ RenderSession[3] = Do("enable")
  BY <1>1 DEF RenderSession, Tidy, Later
<1>8. FreshTodo(RenderSession) /\ Does(RenderSession, "list")
  <2>1. 2 \in 1..3 /\ \A j \in 1..(2 - 1) : j = 1
    OBVIOUS
  <2> QED
    BY <1>1, <1>7, <2>1 DEF FreshTodo, Does
<1>9. /\ \A todo \in {RenderSession, <<Do("query")>>, <<Do("create"), Do("list"), Do("query")>>,
                      <<Do("create"), Do("list")>>} : todo \in Seq(Item) /\ Tidy(todo)
      /\ \A todo \in {<<DoWith("rename", c), Do("list")>>, <<DoWith("delete", c), Do("list")>>,
                      <<DoWith("turns", c)>>} : todo \in Seq(Item) /\ Tidy(todo)
  BY <1>1, <1>2, <1>3, <1>4, <1>5, <1>6, <1>7
<1>10. /\ \A todo \in {RenderSession, <<Do("query")>>, <<Do("create"), Do("list"), Do("query")>>,
                       <<Do("create"), Do("list")>>} : \A i \in 1..Len(todo) : todo[i].conv = None
       /\ \A todo \in {<<DoWith("rename", c), Do("list")>>, <<DoWith("delete", c), Do("list")>>,
                       <<DoWith("turns", c)>>} : \A i \in 1..Len(todo) : todo[i].conv \in {None, c}
  <2> DEFINE q == Do("query")  cr == Do("create")  l == Do("list")  rn == DoWith("rename", c)
             dl == DoWith("delete", c)  tu == DoWith("turns", c)
  <2>1. /\ q.conv = None /\ cr.conv = None /\ l.conv = None /\ rn.conv = c /\ dl.conv = c /\ tu.conv = c
    BY <1>1, <1>2
  <2> HIDE DEF q, cr, l, rn, dl, tu
  <2>2. /\ \A i \in 1..Len(<<q>>) : <<q>>[i].conv = None
        /\ \A i \in 1..Len(<<cr, l, q>>) : <<cr, l, q>>[i].conv = None
        /\ \A i \in 1..Len(<<cr, l>>) : <<cr, l>>[i].conv = None
        /\ \A i \in 1..Len(<<rn, l>>) : <<rn, l>>[i].conv \in {None, c}
        /\ \A i \in 1..Len(<<dl, l>>) : <<dl, l>>[i].conv \in {None, c}
        /\ \A i \in 1..Len(<<tu>>) : <<tu>>[i].conv \in {None, c}
    BY <2>1
  <2>3. \A i \in 1..Len(RenderSession) : RenderSession[i].conv = None
    BY <1>1, <1>7
  <2> QED
    BY <2>2, <2>3 DEF q, cr, l, rn, dl, tu
<1> QED
  BY <1>8, <1>9, <1>10

\* An event of a page with something enabled.
LEMMA Started ==
    ASSUME Sound, ~Off(page), NEW p \in Page, p.user = page.user, Mine(page, server, p.selected),
           MineLists(p, server), Shown(p), NEW kind, NEW todo, Tidy(todo),
           MineTodo(page, server, todo), NEW s \in Slot, calls[s] = None
    PROVE  /\ Running(p, calls, server, s, kind, todo)
           /\ p.token = page.token
              /\ (\A list, enable, asking : page.token # None /\ Follows(page, list, enable, asking)
                                            => Follows(p, list, enable, asking \/ kind = "query"))
              /\ Usable(page, calls) => UsableWhile(p, calls, s, kind, todo)
<1>1. Good(page, calls, server)
  BY DEF Sound
<1>2. Others(calls, s) = Pending(calls)
  BY DEF Others, Pending
<1>3. page.user # None
  BY <1>1 DEF Good
<1>4. Running(p, calls, server, s, kind, todo)
  <2>1. \A t \in Others(calls, s) : CallGood(p, server, calls[t])
    BY <1>1, <1>2, SameUser DEF Good
  <2>2. MineTodo(p, server, todo) /\ Mine(p, server, p.selected)
    BY SameUser
  <2> QED
    BY <1>3, <2>1, <2>2 DEF Running
<1>5. ASSUME p.token = page.token, Usable(page, calls),
             \A list, enable, asking : page.token # None /\ Follows(page, list, enable, asking)
                                       => Follows(p, list, enable, asking \/ kind = "query")
      PROVE  UsableWhile(p, calls, s, kind, todo)
  <2>1. page.token # None /\ Follows(page, Comes(calls, "list"), Comes(calls, "enable"), Asking(calls))
    BY <1>5 DEF Usable
  <2>2. Follows(p, Comes(calls, "list"), Comes(calls, "enable"), Asking(calls) \/ kind = "query")
    BY <1>5, <2>1
  <2>3. /\ \A what : Comes(calls, what) => RunComes(calls, s, todo, what)
        /\ Asking(calls) \/ kind = "query" => RunAsking(calls, s, kind)
    BY <1>2 DEF Comes, RunComes, Asking, RunAsking
  <2> QED
    BY <1>5, <2>1, <2>2, <2>3 DEF UsableWhile, Follows
<1> QED
  BY <1>4, <1>5

LEMMA EventsSound ==
    ASSUME Sound,
           RunQuery \/ CreateConversation \/ RenameConversation \/ DeleteConversation \/ Choose
    PROVE  SoundNext
<1>1. /\ page \in Page /\ Good(page, calls, server)
      /\ page.selected \in Conv \cup {None}
  BY DEF Sound, TypeOK, Page
<1>2. ~Off(page)
  BY DEF RunQuery, CreateConversation, RenameConversation, DeleteConversation, Choose, Off
<1>3. /\ Mine(page, server, page.selected) /\ MineLists(page, server) /\ Shown(page)
      /\ page.user # None
  BY <1>1, <1>2 DEF Good, Fresh
<1>4. CASE RunQuery
  <2> DEFINE p == [page EXCEPT !.submit = FALSE]
             todo == (IF page.selected = None THEN <<Do("create"), Do("list")>> ELSE <<>>)
                     \o <<Do("query")>>
  <2>1. todo = <<Do("query")>> \/ todo = <<Do("create"), Do("list"), Do("query")>>
    <3>1. <<>> \o <<Do("query")>> = <<Do("query")>>
      OBVIOUS
    <3>2. ASSUME NEW a \in Item, NEW b \in Item, NEW d \in Item
          PROVE  <<a, b>> \o <<d>> = <<a, b, d>>
      <4> DEFINE l == <<a, b>> \o <<d>>  r == <<a, b, d>>
      <4>1. l \in Seq(Item) /\ Len(l) = 3 /\ l[1] = a /\ l[2] = b /\ l[3] = d
        OBVIOUS
      <4>2. r \in Seq(Item) /\ Len(r) = 3 /\ r[1] = a /\ r[2] = b /\ r[3] = d
        OBVIOUS
      <4> HIDE DEF l, r
      <4>3. \A i \in 1..Len(l) : l[i] = r[i]
        BY <4>1, <4>2
      <4>4. l = r
        BY <4>1, <4>2, <4>3, SeqEqual
      <4> QED
        BY <4>4 DEF l, r
    <3>3. <<Do("create"), Do("list")>> \o <<Do("query")>> = <<Do("create"), Do("list"), Do("query")>>
      BY <3>2, Items
    <3> QED
      BY <3>1, <3>3, Zenon
  <2>2. Start("query", p, todo)
    BY <1>4 DEF RunQuery
  <2> HIDE DEF todo
  <2>3. todo \in Seq(Item) /\ Tidy(todo) /\ \A i \in 1..Len(todo) : todo[i].conv = None
    BY <2>1, Todos
  <2>4. /\ p \in Page /\ p.user = page.user /\ p.selected = page.selected /\ p.token = page.token
        /\ p.options = page.options /\ p.conversations = page.conversations
        /\ p.value = page.value /\ p.capabilities = page.capabilities /\ p.new = page.new
        /\ p.list = page.list /\ p.change = page.change
    BY <1>1 DEF Page
  <2> HIDE DEF p, todo
  <2>5. Mine(page, server, p.selected) /\ MineLists(p, server) /\ Shown(p)
    BY <1>3, <2>4, SameUser DEF MineLists, Shown
  <2>6. MineTodo(page, server, todo)
    BY <2>3 DEF MineTodo, Mine
  <2>7. \A list, enable, asking : Follows(page, list, enable, asking)
                                  => Follows(p, list, enable, asking \/ "query" = "query")
    BY <2>4 DEF Follows
  <2>8. \A s \in Slot : calls[s] = None =>
           /\ Running(p, calls, server, s, "query", todo)
           /\ Usable(page, calls) => UsableWhile(p, calls, s, "query", todo)
    BY <1>2, <2>3, <2>4, <2>5, <2>6, <2>7, Started
  <2> QED
    BY <2>2, <2>3, <2>4, <2>8, StartSound
<1>5. ASSUME NEW kind \in {"create", "rename", "delete"}, NEW todo \in Seq(Item), Tidy(todo),
             \A i \in 1..Len(todo) : todo[i].conv \in {None, page.selected},
             Start(kind, page, todo)
      PROVE  SoundNext
  <2>1. MineTodo(page, server, todo)
    BY <1>3, <1>5 DEF MineTodo, Mine
  <2>2. \A list, enable, asking : Follows(page, list, enable, asking)
                                  => Follows(page, list, enable, asking \/ kind = "query")
    BY DEF Follows
  <2>3. \A s \in Slot : calls[s] = None =>
           /\ Running(page, calls, server, s, kind, todo)
           /\ Usable(page, calls) => UsableWhile(page, calls, s, kind, todo)
    BY <1>1, <1>2, <1>3, <1>5, <2>1, <2>2, Started
  <2> QED
    BY <1>1, <1>5, <2>3, StartSound
<1>6. CASE CreateConversation
  <2> DEFINE todo == <<Do("create"), Do("list")>>
  <2>1. todo \in Seq(Item) /\ Tidy(todo) /\ \A i \in 1..Len(todo) : todo[i].conv = None
    BY Todos
  <2>2. Start("create", page, todo)
    BY <1>6 DEF CreateConversation
  <2> HIDE DEF todo
  <2> QED
    BY <1>5, <2>1, <2>2
<1>7. CASE RenameConversation
  <2> DEFINE todo == <<DoWith("rename", page.selected), Do("list")>>
  <2>1. todo \in Seq(Item) /\ Tidy(todo) /\ \A i \in 1..Len(todo) : todo[i].conv \in {None, page.selected}
    BY <1>1, Todos
  <2>2. Start("rename", page, todo)
    BY <1>7 DEF RenameConversation
  <2> HIDE DEF todo
  <2> QED
    BY <1>5, <2>1, <2>2
<1>8. CASE DeleteConversation
  <2> DEFINE todo == <<DoWith("delete", page.selected), Do("list")>>
  <2>1. todo \in Seq(Item) /\ Tidy(todo) /\ \A i \in 1..Len(todo) : todo[i].conv \in {None, page.selected}
    BY <1>1, Todos
  <2>2. Start("delete", page, todo)
    BY <1>8 DEF DeleteConversation
  <2> HIDE DEF todo
  <2> QED
    BY <1>5, <2>1, <2>2
<1>9. CASE Choose
  <2>1. PICK c \in ToSet(page.options) \ {page.value} :
           /\ page.list
           /\ Start("choose", RenderConversations([page EXCEPT !.selected = c]), <<DoWith("turns", c)>>)
    BY <1>9 DEF Choose
  <2> DEFINE p0 == [page EXCEPT !.selected = c]  p == RenderConversations(p0)
             todo == <<DoWith("turns", c)>>
  <2>2. page.options = page.conversations /\ page.conversations \in Listing
        /\ page.conversations \in Seq(Conv)
    BY <1>1, <1>3, <2>1 DEF Shown, Page, Listing
  <2>3. c \in Conv /\ Contains(page.conversations, c) /\ Mine(page, server, c)
    BY <1>3, <2>2 DEF ToSet, Contains, MineLists
  <2>4. /\ p0 \in Page /\ p0.user = page.user /\ p0.token = page.token /\ p0.selected = c
        /\ p0.conversations = page.conversations /\ p0.submit = page.submit
        /\ p0.capabilities = page.capabilities
    BY <1>1, <2>3 DEF Page
  <2>5. Select(p0, page.conversations) = p0
    <3>1. Select(p0, page.conversations) =
             [p0 EXCEPT !.conversations = page.conversations, !.selected = c]
      BY <2>3, <2>4 DEF Select
    <3>2. p0 = [p0 EXCEPT !.conversations = page.conversations, !.selected = c]
      BY <2>4 DEF Page
    <3> QED
      BY <3>1, <3>2
  <2> HIDE DEF p0
  <2>6. /\ p \in Page /\ p.user = page.user /\ p.token = page.token
        /\ p.capabilities = page.capabilities /\ p.submit = page.submit
        /\ p.conversations = page.conversations /\ p.options = page.conversations
        /\ p.value = p.selected /\ p.selected = c
        /\ p.new = (page.token # None /\ page.capabilities)
        /\ p.list = (page.token # None /\ page.capabilities /\ page.conversations # <<>>)
        /\ p.change = (page.token # None /\ page.capabilities /\ c # None)
    BY <2>2, <2>3, <2>4, <2>5, Rendered
  <2>7. todo \in Seq(Item) /\ Tidy(todo) /\ \A i \in 1..Len(todo) : todo[i].conv \in {None, c}
    BY <2>3, Todos
  <2>8. Start("choose", p, todo)
    BY <2>1 DEF p0
  <2> HIDE DEF p, todo
  <2>9. Mine(page, server, p.selected) /\ MineLists(p, server) /\ Shown(p)
    BY <1>3, <2>2, <2>3, <2>6, SameUser DEF MineLists, Shown
  <2>10. MineTodo(page, server, todo)
    BY <2>3, <2>7 DEF MineTodo, Mine
  <2>11. \A list, enable, asking : page.token # None /\ Follows(page, list, enable, asking)
                                   => Follows(p, list, enable, asking \/ "choose" = "query")
    <3>1. page.capabilities \in BOOLEAN
      BY <1>1 DEF Page
    <3>2. page.token # None => /\ p.new = p.capabilities
                               /\ p.list = (p.capabilities /\ p.conversations # <<>>)
                               /\ p.change = (p.capabilities /\ p.selected # None)
      BY <2>6, <3>1
    <3> QED
      BY <2>6, <3>2 DEF Follows
  <2>12. \A s \in Slot : calls[s] = None =>
            /\ Running(p, calls, server, s, "choose", todo)
            /\ Usable(page, calls) => UsableWhile(p, calls, s, "choose", todo)
    BY <1>2, <2>6, <2>7, <2>9, <2>10, <2>11, Started
  <2> QED
    BY <2>6, <2>7, <2>8, <2>12, StartSound
<1> QED
  BY <1>4, <1>6, <1>7, <1>8, <1>9

\* A page as it is loaded.
LEMMA LoadedPage ==
    ASSUME NEW u \in User \cup {None}, NEW token \in {None, "current", "expired"},
           NEW c \in Conv \cup {None}
    PROVE  LET p == Loaded(u, token, c) IN
           /\ p \in Page /\ p.user = u /\ p.token = token /\ p.selected = c
           /\ p.conversations = <<>> /\ p.options = <<>> /\ p.value = None
           /\ ~p.capabilities /\ Off(p) /\ Shown(p) /\ \A sv : MineLists(p, sv)
<1>1. <<>> \in Listing /\ {} \in SUBSET Turn
  BY WebAssumption DEF Listing, IsInjective
<1>2. Loaded(u, token, c) \in Page
  BY <1>1 DEF Loaded, Page
<1> QED
  BY <1>2 DEF Loaded, Off, Shown, MineLists

\* Nothing is in flight on it.
LEMMA LoadedGood ==
    ASSUME NEW p \in Page, Off(p), Shown(p), NEW sv, MineLists(p, sv), NEW cs,
           \A t \in Slot : cs[t] = None, p.user = None => p.token = None
    PROVE  Good(p, cs, sv) /\ (p.token = None => Usable(p, cs))
<1>1. Pending(cs) = {}
  BY DEF Pending
<1> QED
  BY <1>1 DEF Good, Fresh, Usable

\* It renders the session.
LEMMA LoadedRuns ==
    ASSUME NEW p \in Page, Off(p), Shown(p), NEW sv, MineLists(p, sv), NEW cs,
           \A t \in Slot : cs[t] = None, p.user # None, NEW s \in Slot,
           p.token # None, p.options = <<>>, p.conversations = <<>>, ~p.capabilities
    PROVE  /\ Running(p, cs, sv, s, "load", RenderSession)
           /\ UsableWhile(p, cs, s, "load", RenderSession)
<1>1. Others(cs, s) = {}
  BY DEF Others, Pending
<1>2. /\ RenderSession \in Seq(Item) /\ Tidy(RenderSession) /\ FreshTodo(RenderSession)
      /\ Does(RenderSession, "list")
      /\ \A i \in 1..Len(RenderSession) : RenderSession[i].conv = None
  BY Todos
<1>3. MineTodo(p, sv, RenderSession)
  BY <1>2 DEF MineTodo, Mine
<1>4. Running(p, cs, sv, s, "load", RenderSession)
  BY <1>1, <1>2, <1>3 DEF Running
<1>5. RunComes(cs, s, RenderSession, "list")
  BY <1>2 DEF RunComes
<1>6. p.submit = p.capabilities /\ p.new = p.capabilities
      /\ p.list = (p.capabilities /\ p.conversations # <<>>)
      /\ p.change = (p.capabilities /\ p.selected # None)
  BY DEF Off, Page
<1> QED
  BY <1>4, <1>5, <1>6 DEF UsableWhile, Follows

LEMMA LoadSound ==
    ASSUME Sound, NEW u \in User \cup {None}, NEW token \in {None, "current", "expired"},
           NEW c \in Conv \cup {None}, u = None => token = None, Load(u, token, c)
    PROVE  SoundNext
<1> DEFINE p == Loaded(u, token, c)
           call == NewCall("load", <<>>, TRUE)
           r == Proceed(p, call, RenderSession)
<1>1. PICK s \in Slot :
         /\ Event
         /\ page' = IF token = None THEN p ELSE r.page
         /\ calls' = [t \in Slot |-> IF t = s /\ token # None THEN r.call ELSE None]
         /\ failed' = (token # None /\ r.threw) /\ settled' = "no" /\ server' = server
  BY DEF Load
<1>2. /\ p \in Page /\ p.user = u /\ p.token = token
      /\ p.conversations = <<>> /\ p.options = <<>>
      /\ ~p.capabilities /\ Off(p) /\ Shown(p) /\ MineLists(p, server)
  BY LoadedPage
<1>3. server \in Server /\ events \in 0..MaxEvents
  BY DEF Sound, TypeOK
<1>4. call \in Call /\ call.kind = "load"
  <2>1. NoAnswer \in Answer /\ <<>> \in Seq(Item)
    BY WebAssumption DEF NoAnswer, Answer, Listing, IsInjective
  <2> QED
    BY <2>1 DEF NewCall, Call
<1> HIDE DEF p, call
<1>5. events' \in 0..MaxEvents
  BY <1>1, <1>3, WebAssumption DEF Event
<1>6. failed' \in BOOLEAN
  BY <1>1
<1>7. CASE token = None
  <2>1. page' = p /\ (\A t \in Slot : calls'[t] = None) /\ calls' \in [Slot -> Call \cup {None}]
    BY <1>1, <1>7
  <2>2. Good(p, calls', server) /\ Usable(p, calls')
    BY <1>2, <1>7, <2>1, LoadedGood
  <2>3. TypeOK'
    BY <1>1, <1>2, <1>3, <1>5, <1>6, <2>1, Typed
  <2> QED
    BY <1>1, <2>1, <2>2, <2>3 DEF SoundNext
<1>8. CASE token # None
  <2> DEFINE ds == calls'  rr == r  cs == [t \in Slot |-> None]
  <2>1. rr = Proceed(p, call, RenderSession) /\ page' = rr.page /\ (rr.threw => failed')
    BY <1>1, <1>8
  <2>2. \A t \in Slot : cs[t] = None
    OBVIOUS
  <2>3. ds[s] = rr.call /\ Beside(cs, ds, s)
    BY <1>1, <1>8 DEF Beside
  <2>4. ds = [t \in Slot |-> IF t = s THEN rr.call ELSE None]
    BY <1>1, <1>8
  <2> HIDE DEF ds, r, rr, cs
  <2>5. Running(p, cs, server, s, "load", RenderSession) /\ UsableWhile(p, cs, s, "load", RenderSession)
    BY <1>2, <1>8, <2>2, LoadedRuns
  <2>6. RenderSession \in Seq(Item)
    BY Todos
  <2>7. /\ rr.page \in Page /\ rr.call \in Call \cup {None}
        /\ Good(rr.page, ds, server)
        /\ ~rr.threw /\ UsableWhile(p, cs, s, "load", RenderSession) => Usable(rr.page, ds)
    BY <1>2, <1>4, <2>1, <2>3, <2>5, <2>6, ProceedGood
  <2>8. calls' \in [Slot -> Call \cup {None}]
    BY <2>4, <2>7 DEF ds
  <2>9. TypeOK'
    BY <1>1, <1>3, <1>5, <1>6, <2>1, <2>7, <2>8, Typed
  <2> QED
    BY <1>1, <2>1, <2>5, <2>7, <2>9 DEF SoundNext, ds
<1> QED
  BY <1>7, <1>8

LEMMA InitSound == Init => Sound
<1> SUFFICES ASSUME Init PROVE Sound
  OBVIOUS
<1>1. PICK u \in User \cup {None} :
         /\ page = Loaded(u, IF u = None THEN None ELSE "current", None)
         /\ \E first \in Slot : calls =
               [s \in Slot |-> IF u # None /\ s = first THEN NewCall("load", RenderSession, TRUE)
                               ELSE None]
  BY DEF Init
<1>2. PICK first \in Slot : calls =
               [s \in Slot |-> IF u # None /\ s = first THEN NewCall("load", RenderSession, TRUE)
                               ELSE None]
  BY <1>1
<1> DEFINE token == IF u = None THEN None ELSE "current"
           call == NewCall("load", RenderSession, TRUE)
<1>3. token \in {None, "current", "expired"} /\ (token = None <=> u = None)
  BY WebAssumption
<1>4. /\ page \in Page /\ page.user = u /\ page.token = token /\ page.selected = None
      /\ page.conversations = <<>> /\ page.options = <<>>
      /\ ~page.capabilities /\ Off(page) /\ Shown(page) /\ MineLists(page, server)
  <2> DEFINE tok == token
  <2>1. tok \in {None, "current", "expired"} /\ page = Loaded(u, tok, None)
    BY <1>1, <1>3
  <2> HIDE DEF tok, token
  <2>2. /\ page \in Page /\ page.user = u /\ page.token = tok /\ page.selected = None
        /\ page.conversations = <<>> /\ page.options = <<>>
        /\ ~page.capabilities /\ Off(page) /\ Shown(page) /\ MineLists(page, server)
    BY <2>1, LoadedPage
  <2> QED
    BY <2>2 DEF tok
<1>5. /\ RenderSession \in Seq(Item) /\ Tidy(RenderSession) /\ Len(RenderSession) = 3
      /\ RenderSession[1].do = "catalog"
      /\ \A i \in 1..Len(RenderSession) : RenderSession[i].conv = None
  <2>1. Len(RenderSession) = 3 /\ RenderSession[1].do = "catalog"
    BY DEF RenderSession, Do
  <2> QED
    BY <2>1, Todos
<1>6. /\ call \in Call /\ call # None /\ call.kind = "load" /\ call.todo = RenderSession
      /\ call.answer = NoAnswer
  <2>1. NoAnswer \in Answer
    BY WebAssumption DEF NoAnswer, Answer, Listing, IsInjective
  <2>2. call \in Call
    BY <1>5, <2>1 DEF NewCall, Call
  <2> QED
    BY <2>2, NoneAssumption DEF NewCall
<1> HIDE DEF token, call
<1>7. calls \in [Slot -> Call \cup {None}]
  BY <1>2, <1>6 DEF call
<1>8. server \in Server
  <2>1. 0 \in 0..MaxTurns
    BY WebAssumption
  <2>2. Existing \in Listing
    BY WebAssumption DEF Listing
  <2> QED
    BY <2>1, <2>2, WebAssumption DEF Init, Server
<1>9. TypeOK
  <2>1. failed \in BOOLEAN /\ events \in 0..MaxEvents /\ settled \in {"no", "turns", "all"}
    <3>1. failed = FALSE /\ events = 0 /\ settled = "no"
      BY DEF Init
    <3>2. MaxEvents \in Nat
      BY WebAssumption
    <3>3. failed \in BOOLEAN
      BY <3>1
    <3>4. 0 \in 0..MaxEvents
      BY <3>2
    <3> QED
      BY <3>1, <3>3, <3>4, Zenon
  <2> QED
    BY <1>4, <1>7, <1>8, <2>1 DEF TypeOK
<1>10. CASE u = None
  <2>1. \A t \in Slot : calls[t] = None
    BY <1>2, <1>10
  <2>2. Good(page, calls, server) /\ Usable(page, calls)
    BY <1>3, <1>4, <1>10, <2>1, LoadedGood
  <2> QED
    BY <1>9, <2>2 DEF Sound
<1>11. CASE u # None
  <2>1. Pending(calls) = {first} /\ calls[first] = call
    BY <1>2, <1>6, <1>11 DEF Pending, call
  <2>2. CallGood(page, server, call)
    <3>1. MineTodo(page, server, call.todo)
      BY <1>5, <1>6 DEF MineTodo, Mine
    <3>2. MineAnswer(page, server, call.answer)
      BY <1>6 DEF MineAnswer, NoAnswer, Mine
    <3>3. Tidy(call.todo) /\ Len(call.todo) > 0 /\ call.todo[1].do # "enable"
      <4>1. call.todo = RenderSession
        BY <1>6
      <4>2. 3 > 0 /\ "catalog" # "enable"
        OBVIOUS
      <4> QED
        BY <1>5, <4>1, <4>2, Zenon
    <3> QED
      BY <3>1, <3>2, <3>3 DEF CallGood
  <2>3. Good(page, calls, server)
    BY <1>4, <1>11, <2>1, <2>2 DEF Good, Mine
  <2>4. Usable(page, calls)
    <3>1. Does(call.todo, "list")
      BY <1>6, Todos
    <3>2. Comes(calls, "list")
      BY <2>1, <3>1 DEF Comes
    <3>3. page.submit = page.capabilities /\ page.new = page.capabilities
          /\ page.list = (page.capabilities /\ page.conversations # <<>>)
          /\ page.change = (page.capabilities /\ page.selected # None)
      BY <1>4 DEF Off, Page
    <3> QED
      BY <1>3, <1>4, <1>11, <3>2, <3>3 DEF Usable, Follows
  <2> QED
    BY <1>9, <2>3, <2>4 DEF Sound
<1> QED
  BY <1>10, <1>11

LEMMA NextSound ==
    ASSUME Sound, [Next]_webVars
    PROVE  Sound'
<1>0. /\ page \in Page /\ page.user \in User \cup {None} /\ page.token \in {None, "current", "expired"}
      /\ page.selected \in Conv \cup {None} /\ Good(page, calls, server)
  BY DEF Sound, TypeOK, Page
<1>1. ASSUME SoundNext PROVE Sound'
  <2>1. Good(page, calls, server)'
    BY <1>1 DEF SoundNext, Good, CallGood, MineTodo, MineAnswer, MineLists, Mine, Fresh, FreshTodo,
                Off, Shown, Pending, Tidy, Later, Do
  <2>2. (~failed => Usable(page, calls))'
    BY <1>1 DEF SoundNext, Usable, Follows, Comes, Asking, Does, Off, Pending
  <2> QED
    BY <1>1, <2>1, <2>2 DEF SoundNext, Sound
<1>2. CASE \E s \in Slot : Handle(s) \/ Receive(s) \/ Raise(s)
  BY <1>1, <1>2, HandleSound, ReceiveSound, RaiseSound
<1>3. CASE RunQuery \/ CreateConversation \/ RenameConversation \/ DeleteConversation \/ Choose
  BY <1>1, <1>3, EventsSound
<1>4. CASE Reload
  BY <1>0, <1>1, <1>4, LoadSound DEF Reload
<1>5. CASE SignOut
  BY <1>1, <1>5, LoadSound DEF SignOut
<1>6. CASE Expire
  BY <1>1, <1>6, ExpireSound
<1>7. ASSUME NEW u \in User, SignIn(u) PROVE Sound'
  <2>1. u # None
    BY WebAssumption
  <2> QED
    BY <1>0, <1>1, <1>7, <2>1, LoadSound DEF SignIn
<1>8. ASSUME NEW u \in User, Elsewhere(u) PROVE Sound'
  BY <1>1, <1>8, ElsewhereSound
<1>9. CASE UNCHANGED webVars
  <2>1. SoundNext
    BY <1>9 DEF webVars, Sound, SoundNext, TypeOK
  <2> QED
    BY <1>1, <2>1
<1> QED
  BY <1>2, <1>3, <1>4, <1>5, <1>6, <1>7, <1>8, <1>9 DEF Next, Quiet

-----------------------------------------------------------------------------
(* The theorems *)

\* The page, the calls in flight and the tables the API answers from are what app.js and
\* the server take them for, whatever answers arrive in whatever order.
THEOREM TypeCorrect == Spec => []TypeOK
<1>1. Sound => TypeOK
  BY DEF Sound
<1> QED
  BY InitSound, NextSound, <1>1, PTL DEF Spec

\* A request names a conversation of the user who is signed in, whatever the session
\* storage kept and whatever answers arrive late: until the list is loaded the controls
\* are off and the handlers that run only render the session.
THEOREM RequestsNameOwn == Spec => []NamedAreOwn
<1>1. Sound => NamedAreOwn
  <2> SUFFICES ASSUME Sound, NEW s \in InFlight, ConvOf(s) # None
               PROVE  server.owner[ConvOf(s)] = page.user
    BY DEF NamedAreOwn
  <2>1. /\ page \in Page /\ calls \in [Slot -> Call \cup {None}] /\ Good(page, calls, server)
        /\ s \in Pending(calls)
    BY DEF Sound, TypeOK, InFlight, Pending
  <2>2. Head(calls[s].todo) = calls[s].todo[1] /\ Mine(page, server, calls[s].todo[1].conv)
    BY <2>1, Answered
  <2> QED
    BY <2>2 DEF ConvOf, Mine
<1> QED
  BY InitSound, NextSound, <1>1, PTL DEF Spec

\* However the handlers overlapped, when the last of them has ended and none has failed,
\* the page shows what it has loaded and everything that has an object can be used.
THEOREM QuietPageIsUsable == Spec => []QuietIsUsable
<1>1. Sound => QuietIsUsable
  <2> SUFFICES ASSUME Sound, InFlight = {}, ~failed, page.token # None
               PROVE  /\ page.options = page.conversations /\ page.value = page.selected
                      /\ page.submit = page.capabilities /\ page.new = page.capabilities
                      /\ page.list = (page.capabilities /\ page.conversations # <<>>)
                      /\ page.change = (page.capabilities /\ page.selected # None)
    BY DEF QuietIsUsable
  <2>1. Pending(calls) = {}
    BY DEF Pending, InFlight
  <2> QED
    BY <2>1 DEF Sound, Usable, Follows, Comes, Asking
<1> QED
  BY InitSound, NextSound, <1>1, PTL DEF Spec

-----------------------------------------------------------------------------
(* A handler that runs alone *)

\* ListFor, of the tables sv.
ListOf(sv, u) ==
    LET own == Keep(sv.recent, {c \in Conv : sv.owner[c] = u})
    IN  SubSeq(own, 1, IF Len(own) < Limit THEN Len(own) ELSE Limit)

\* Requests that change no conversation.
Reading == {"exchange", "catalog", "list", "enable", "turns"}

Synced(p, sv) ==
    /\ p.conversations = ListOf(sv, p.user) /\ p.value = p.selected
    /\ IF p.selected = None THEN p.conversations = <<>> ELSE Contains(p.conversations, p.selected)

TurnsShown(p, sv) ==
    p.turns = p.selected /\ (p.selected # None => p.shown = Recent(sv.turns[p.selected]))

\* The turns to be shown are those of the selection, which the list will confirm: nothing
\* before them changes a conversation.
Turned(p, sv, todo) == \A i \in 1..Len(todo) : todo[i].do = "turns" =>
    /\ todo[i].conv = p.selected /\ Contains(ListOf(sv, p.user), p.selected)
    /\ \A j \in 1..i : todo[j].do \in Reading

InStep(p, sv, kind, listed, todo) ==
    /\ kind # "choose" =>
          /\ Turned(p, sv, todo)
          /\ listed /\ ~Does(todo, "list") =>
                Synced(p, sv) /\ (Does(todo, "turns") \/ TurnsShown(p, sv))
    /\ kind = "choose" =>
          /\ \A i \in 1..Len(todo) : todo[i].do \in Reading
          /\ ~listed => /\ p.value = p.selected
                        /\ \A i \in 1..Len(todo) : todo[i].do = "turns" => todo[i].conv = p.selected
                        /\ Does(todo, "turns") \/ p.turns = p.selected

\* The answer to a query names its conversation: it has changed, and the list is loaded next.
Changing(call) == call.todo[1].do = "query" /\ call.answer.conv # None

AloneCall(p, sv, call) ==
    /\ call.state = "asked" => call.answer = NoAnswer
    /\ call.state = "answered" =>
          /\ call.todo[1].do = "list" => call.answer.convs = ListOf(sv, p.user)
          /\ call.todo[1].do = "turns" => call.answer.shown = Recent(sv.turns[call.todo[1].conv])
    /\ IF Changing(call) THEN call.kind # "choose" /\ Turned(p, sv, call.todo)
                         ELSE InStep(p, sv, call.kind, call.listed, call.todo)

Consistent(p, sv, what) ==
    /\ what # "no" => p.turns = p.selected /\ p.value = p.selected
    /\ what = "all" =>
          /\ p.conversations = ListOf(sv, p.user)
          /\ IF p.selected = None THEN p.conversations = <<>>
             ELSE /\ Contains(p.conversations, p.selected)
                  /\ p.shown = Recent(sv.turns[p.selected])

Undisturbed(p, cs, sv, what) ==
    /\ \A s \in Pending(cs) : cs[s].alone => Pending(cs) = {s} /\ AloneCall(p, sv, cs[s])
    /\ what # "no" => Pending(cs) = {}
    /\ Consistent(p, sv, what)

LEMMA NoTurns ==
    ASSUME NEW p, NEW sv, NEW todo
    PROVE  /\ ~Does(todo, "turns") => Turned(p, sv, todo)
           /\ /\ Turned(p, sv, todo) /\ Len(todo) \in Nat /\ Len(todo) > 0
              /\ todo[1].do \notin Reading
              => ~Does(todo, "turns")
BY DEF Turned, Does

\* An answer that does not change the selection.
LEMMA InStepTail ==
    ASSUME NEW p, NEW q, NEW sv, NEW kind, NEW listed,
           NEW todo \in Seq(Item), todo # <<>>, Tidy(todo), todo[1].do # "list",
           InStep(p, sv, kind, listed, todo),
           q.user = p.user, q.selected = p.selected, q.value = p.value,
           q.conversations = p.conversations,
           todo[1].do # "turns" => q.turns = p.turns /\ q.shown = p.shown,
           todo[1].do = "turns" => q.turns = todo[1].conv /\ q.shown = Recent(sv.turns[todo[1].conv])
    PROVE  InStep(q, sv, kind, listed, Tail(todo))
<1> DEFINE t == Tail(todo)
<1>1. /\ t \in Seq(Item) /\ Len(t) = Len(todo) - 1
      /\ \A i \in 1..Len(t) : t[i] = todo[i + 1]
      /\ \A what : Does(todo, what) => todo[1].do = what \/ Does(t, what)
      /\ \A what : Does(t, what) => Does(todo, what)
  BY TailTidy
<1>2. Len(todo) \in Nat /\ Len(todo) >= 1 /\ \A i \in 1..Len(t) : i + 1 \in 1..Len(todo)
  BY <1>1
<1> HIDE DEF t
<1>3. ASSUME Turned(p, sv, todo) PROVE Turned(q, sv, t)
  <2> SUFFICES ASSUME NEW i \in 1..Len(t), t[i].do = "turns"
               PROVE  /\ t[i].conv = q.selected /\ Contains(ListOf(sv, q.user), q.selected)
                      /\ \A j \in 1..i : t[j].do \in Reading
    BY DEF Turned
  <2>1. \A j \in 1..i : j \in 1..Len(t) /\ j + 1 \in 1..(i + 1)
    OBVIOUS
  <2>2. i + 1 \in 1..Len(todo) /\ todo[i + 1] = t[i]
    BY <1>1, <1>2
  <2>3. /\ todo[i + 1].conv = p.selected /\ Contains(ListOf(sv, p.user), p.selected)
        /\ \A j \in 1..(i + 1) : todo[j].do \in Reading
    BY <1>3, <2>2 DEF Turned
  <2> QED
    BY <1>1, <2>1, <2>2, <2>3
<1>4. ASSUME kind # "choose"
      PROVE  /\ Turned(q, sv, t)
             /\ listed /\ ~Does(t, "list") =>
                   Synced(q, sv) /\ (Does(t, "turns") \/ TurnsShown(q, sv))
  <2>1. Turned(p, sv, todo)
    BY <1>4 DEF InStep
  <2>2. ASSUME listed, ~Does(t, "list")
        PROVE  Synced(q, sv) /\ (Does(t, "turns") \/ TurnsShown(q, sv))
    <3>1. ~Does(todo, "list")
      BY <1>1, <2>2
    <3>2. Synced(p, sv) /\ (Does(todo, "turns") \/ TurnsShown(p, sv))
      BY <1>4, <2>2, <3>1 DEF InStep
    <3>3. Synced(q, sv)
      BY <3>2 DEF Synced
    <3>4. CASE todo[1].do = "turns"
      <4>1. todo[1].conv = p.selected
        BY <1>2, <2>1, <3>4 DEF Turned
      <4> QED
        BY <3>3, <3>4, <4>1 DEF TurnsShown
    <3>5. CASE todo[1].do # "turns"
      BY <1>1, <3>2, <3>3, <3>5 DEF TurnsShown
    <3> QED
      BY <3>4, <3>5
  <2> QED
    BY <1>3, <2>1, <2>2
<1>5. ASSUME kind = "choose"
      PROVE  /\ \A i \in 1..Len(t) : t[i].do \in Reading
             /\ ~listed => /\ q.value = q.selected
                           /\ \A i \in 1..Len(t) : t[i].do = "turns" => t[i].conv = q.selected
                           /\ Does(t, "turns") \/ q.turns = q.selected
  <2>1. \A i \in 1..Len(t) : t[i].do \in Reading
    BY <1>1, <1>2, <1>5 DEF InStep
  <2>2. ASSUME ~listed
        PROVE  /\ q.value = q.selected
               /\ \A i \in 1..Len(t) : t[i].do = "turns" => t[i].conv = q.selected
               /\ Does(t, "turns") \/ q.turns = q.selected
    <3>1. /\ p.value = p.selected
          /\ \A i \in 1..Len(todo) : todo[i].do = "turns" => todo[i].conv = p.selected
          /\ Does(todo, "turns") \/ p.turns = p.selected
      BY <1>5, <2>2 DEF InStep
    <3>2. \A i \in 1..Len(t) : t[i].do = "turns" => t[i].conv = q.selected
      BY <1>1, <1>2, <3>1
    <3>3. 1 \in 1..Len(todo)
      BY <1>2
    <3>4. Does(t, "turns") \/ q.turns = q.selected
      BY <1>1, <3>1, <3>3
    <3> QED
      BY <3>1, <3>2, <3>4
  <2> QED
    BY <2>1, <2>2
<1> QED
  BY <1>4, <1>5 DEF InStep, t

\* The handler goes on with an answer that is still true.
LEMMA ContinueInStep ==
    ASSUME NEW p \in Page, NEW sv, NEW kind, NEW listed \in BOOLEAN,
           NEW todo \in Seq(Item), todo # <<>>, Tidy(todo),
           NEW item \in Item, item = todo[1], item.do # "enable", NEW answer \in Answer,
           item.do = "list" => answer.convs = ListOf(sv, p.user),
           item.do = "turns" => answer.shown = Recent(sv.turns[item.conv]),
           IF item.do = "query" /\ answer.conv # None THEN kind # "choose" /\ Turned(p, sv, todo)
                                                      ELSE InStep(p, sv, kind, listed, todo),
           NEW n, n = Continue(p, item, answer)
    PROVE  InStep(n.page, sv, kind, listed \/ item.do = "list", n.first \o Tail(todo))
<1> DEFINE t == Tail(todo)  all == n.first \o t  q == n.page  now == listed \/ item.do = "list"
<1>1. /\ t \in Seq(Item) /\ Tidy(t) /\ Len(t) = Len(todo) - 1
      /\ \A i \in 1..Len(t) : t[i] = todo[i + 1]
      /\ \A what : Does(todo, what) => todo[1].do = what \/ Does(t, what)
      /\ \A what : Does(t, what) => Does(todo, what)
  BY TailTidy
<1>2. Len(todo) \in Nat /\ Len(todo) >= 1 /\ \A i \in 1..Len(t) : i + 1 \in 1..Len(todo)
  BY <1>1
<1>3. <<>> \o t = t
  BY <1>1, ConcatEmptySeq
<1> HIDE DEF t
<1>4. ASSUME item.do # "list", all = t,
             q.user = p.user, q.selected = p.selected, q.value = p.value,
             q.conversations = p.conversations,
             item.do # "turns" => q.turns = p.turns /\ q.shown = p.shown,
             item.do = "turns" => q.turns = item.conv /\ q.shown = answer.shown,
             ~(item.do = "query" /\ answer.conv # None)
      PROVE  InStep(q, sv, kind, now, all)
  <2>1. InStep(p, sv, kind, listed, todo)
    BY <1>4
  <2>2. now = listed
    BY <1>4
  <2> HIDE DEF q, all, now
  <2>3. InStep(q, sv, kind, listed, Tail(todo))
    BY <1>4, <2>1, InStepTail
  <2> QED
    BY <1>4, <2>2, <2>3 DEF t
<1>5. ASSUME item.do = "exchange" PROVE InStep(q, sv, kind, now, all)
  <2> DEFINE r == [p EXCEPT !.token = "current"]
  <2>1. q = SetQueryEnabled(r, FALSE) /\ all = t
    BY <1>3, <1>5 DEF Continue
  <2>2. /\ q.user = p.user /\ q.selected = p.selected /\ q.value = p.value
        /\ q.conversations = p.conversations /\ q.turns = p.turns /\ q.shown = p.shown
    BY <2>1 DEF SetQueryEnabled, SetConversationControlsEnabled, Page
  <2> QED
    BY <1>4, <1>5, <2>1, <2>2
<1>6. ASSUME item.do = "catalog" PROVE InStep(q, sv, kind, now, all)
  <2>1. q = [p EXCEPT !.capabilities = p.user \in Capable] /\ all = t
    BY <1>3, <1>6 DEF Continue
  <2>2. /\ q.user = p.user /\ q.selected = p.selected /\ q.value = p.value
        /\ q.conversations = p.conversations /\ q.turns = p.turns /\ q.shown = p.shown
    BY <2>1 DEF Page
  <2> QED
    BY <1>4, <1>6, <2>1, <2>2
<1>7. ASSUME item.do = "turns" PROVE InStep(q, sv, kind, now, all)
  <2>1. q = RenderTurns(p, item.conv, answer.shown) /\ all = t
    BY <1>3, <1>7 DEF Continue
  <2>2. /\ q.user = p.user /\ q.selected = p.selected /\ q.value = p.value
        /\ q.conversations = p.conversations /\ q.turns = item.conv /\ q.shown = answer.shown
    BY <2>1 DEF RenderTurns, Page
  <2> QED
    BY <1>4, <1>7, <2>1, <2>2
<1>8. ASSUME item.do = "rename" \/ (item.do = "query" /\ answer.conv = None) PROVE InStep(q, sv, kind, now, all)
  <2>1. q = p /\ all = t
    BY <1>3, <1>8 DEF Continue
  <2> QED
    BY <1>4, <1>8, <2>1
\* Where the conversations have changed, the list is still to come.
<1>9. ASSUME item.do \notin Reading, kind # "choose", Turned(p, sv, todo),
             NEW a, ~Does(a, "turns"), Does(a, "list")
      PROVE  InStep(q, sv, kind, now, a)
  BY <1>9, NoTurns DEF InStep
<1>10. ASSUME item.do \notin Reading, kind # "choose", Turned(p, sv, todo)
       PROVE  ~Does(t, "turns")
  <2>1. ~Does(todo, "turns")
    BY <1>2, <1>10, NoTurns
  <2> QED
    BY <1>1, <2>1
<1>11. ASSUME item.do \in {"create", "delete"} PROVE InStep(q, sv, kind, now, all)
  <2>1. InStep(p, sv, kind, listed, todo) /\ item.do \notin Reading
    BY <1>11 DEF Reading
  <2>2. kind # "choose" /\ Turned(p, sv, todo)
    BY <1>2, <2>1 DEF InStep
  <2>3. all = t
    BY <1>3, <1>11 DEF Continue
  <2>4. Does(t, "list")
    <3>1. Later(todo, 1, "list")
      BY <1>2, <1>11 DEF Tidy
    <3>2. Does(todo, "list")
      BY <1>2, <3>1 DEF Later, Does
    <3> QED
      BY <1>1, <1>11, <3>2
  <2> HIDE DEF q, all, now
  <2> QED
    BY <1>9, <1>10, <2>1, <2>2, <2>3, <2>4
<1>12. ASSUME item.do = "query" /\ answer.conv # None PROVE InStep(q, sv, kind, now, all)
  <2>1. kind # "choose" /\ Turned(p, sv, todo) /\ item.do \notin Reading
    BY <1>12 DEF Reading
  <2>2. all = <<Do("list")>> \o t
    BY <1>12 DEF Continue
  <2>3. Do("list") \in Item /\ Do("list").do = "list"
    BY DEF Do, Item
  <2> HIDE DEF q, all, now
  <2>4. /\ Len(all) = Len(t) + 1 /\ all[1] = Do("list") /\ Does(all, "list")
        /\ \A i \in 2..Len(all) : all[i] = t[i - 1] /\ i - 1 \in 1..Len(t)
    BY <1>1, <2>2, <2>3, ConsTidy
  <2>5. ~Does(all, "turns")
    <3>1. ~Does(t, "turns")
      BY <1>10, <2>1
    <3>2. \A i \in 1..Len(all) : i = 1 \/ i \in 2..Len(all)
      OBVIOUS
    <3> QED
      BY <2>3, <2>4, <3>1, <3>2 DEF Does
  <2> QED
    BY <1>9, <2>1, <2>4, <2>5
<1>13. ASSUME item.do = "list" PROVE InStep(q, sv, kind, now, all)
  <2> DEFINE convs == answer.convs  r == RenderConversations(Select(p, convs))
  <2>1. convs \in Listing /\ convs = ListOf(sv, p.user)
    BY <1>13 DEF Answer
  <2>2. /\ r \in Page /\ r.user = p.user
        /\ r.conversations = convs /\ r.value = r.selected
        /\ r.selected = None <=> convs = <<>>
        /\ r.selected # None => Contains(convs, r.selected)
        /\ Contains(convs, p.selected) => r.selected = p.selected
    BY <2>1, Rendered
  <2>3. /\ r.selected # None => q = r /\ n.first = <<DoWith("turns", r.selected)>>
        /\ r.selected = None => q = RenderTurns(r, None, {}) /\ n.first = <<>>
    BY <1>13 DEF Continue
  <2>4. InStep(p, sv, kind, listed, todo) /\ now
    BY <1>13
  <2> HIDE DEF r, convs
  <2>5. CASE r.selected # None
    <3> DEFINE it == DoWith("turns", r.selected)
    <3>1. it \in Item /\ it.do = "turns" /\ it.conv = r.selected
      BY <2>2 DEF DoWith, Item, Page
    <3>2. all = <<it>> \o t /\ q = r
      BY <2>3, <2>5
    <3> HIDE DEF it, all, q, now
    <3>3. /\ Len(all) = Len(t) + 1 /\ all[1] = it /\ Does(all, "turns")
          /\ \A i \in 2..Len(all) : all[i] = t[i - 1] /\ i - 1 \in 1..Len(t)
      <4>1. /\ Len(all) = Len(t) + 1 /\ all[1] = it /\ Does(all, it.do)
            /\ \A i \in 2..Len(all) : all[i] = t[i - 1] /\ i - 1 \in 1..Len(t)
        BY <1>1, <3>1, <3>2, ConsTidy
      <4> QED
        BY <3>1, <4>1
    <3>4. \A i \in 2..Len(all) : all[i] = todo[i] /\ i \in 1..Len(todo)
      <4> SUFFICES ASSUME NEW i \in 2..Len(all) PROVE all[i] = todo[i] /\ i \in 1..Len(todo)
        OBVIOUS
      <4>1. (i - 1) + 1 = i /\ i \in 1..Len(todo)
        BY <1>1, <1>2, <3>3
      <4> QED
        BY <1>1, <3>3, <4>1
    <3>5. \A i \in 1..Len(all) : i = 1 \/ i \in 2..Len(all)
      BY <1>1, <3>3
    <3>6. ASSUME Turned(p, sv, todo) PROVE Turned(r, sv, all)
      <4> SUFFICES ASSUME NEW i \in 1..Len(all), all[i].do = "turns"
                   PROVE  /\ all[i].conv = r.selected /\ Contains(ListOf(sv, r.user), r.selected)
                          /\ \A j \in 1..i : all[j].do \in Reading
        BY DEF Turned
      <4>1. Contains(ListOf(sv, r.user), r.selected)
        BY <2>1, <2>2, <2>5
      <4>2. CASE i = 1
        BY <3>1, <3>3, <4>1, <4>2 DEF Reading
      <4>3. CASE i \in 2..Len(all)
        <5>1. /\ todo[i].conv = p.selected /\ Contains(ListOf(sv, p.user), p.selected)
              /\ \A j \in 1..i : todo[j].do \in Reading
          BY <3>4, <3>6, <4>3 DEF Turned
        <5>2. r.selected = p.selected
          BY <2>1, <2>2, <5>1
        <5>3. \A j \in 1..i : all[j].do \in Reading
          <6>1. \A j \in 1..i : j = 1 \/ j \in 2..Len(all)
            BY <4>3
          <6> QED
            BY <3>1, <3>3, <3>4, <5>1, <6>1 DEF Reading
        <5> QED
          BY <3>4, <4>1, <4>3, <5>1, <5>2, <5>3
      <4> QED
        BY <3>5, <4>2, <4>3
    <3>7. Synced(r, sv)
      BY <2>1, <2>2, <2>5 DEF Synced
    <3>8. kind = "choose" => \A i \in 1..Len(all) : all[i].do \in Reading
      BY <2>4, <3>1, <3>3, <3>4, <3>5 DEF InStep, Reading
    <3> QED
      BY <2>4, <3>2, <3>3, <3>6, <3>7, <3>8 DEF InStep
  <2>6. CASE r.selected = None
    <3>1. all = t /\ q = [r EXCEPT !.turns = None, !.shown = {}]
      BY <1>3, <2>3, <2>6 DEF RenderTurns
    <3> HIDE DEF all, q, now
    <3>2. /\ q.user = r.user /\ q.conversations = r.conversations /\ q.value = r.value
          /\ q.selected = r.selected /\ q.turns = None
      BY <2>2, <3>1 DEF Page
    <3>3. ~Contains(ListOf(sv, p.user), p.selected)
      BY <2>1, <2>2, <2>6 DEF Contains
    <3>4. Turned(p, sv, todo) => Turned(q, sv, t)
      <4>1. Turned(p, sv, todo) => ~Does(todo, "turns")
        BY <3>3 DEF Turned, Does
      <4> QED
        BY <1>1, <4>1, NoTurns
    <3>5. Synced(q, sv) /\ TurnsShown(q, sv)
      BY <2>1, <2>2, <2>6, <3>2 DEF Synced, TurnsShown
    <3>6. kind = "choose" => \A i \in 1..Len(t) : t[i].do \in Reading
      BY <1>1, <1>2, <2>4 DEF InStep
    <3> QED
      BY <2>4, <3>1, <3>4, <3>5, <3>6 DEF InStep
  <2> QED
    BY <2>5, <2>6
<1>14. InStep(q, sv, kind, now, all)
  <2> HIDE DEF q, now, all
  <2> QED
    BY <1>5, <1>6, <1>7, <1>8, <1>11, <1>12, <1>13 DEF Item
<1> QED
  BY <1>14 DEF t

\* What is sent is in step as what was to do.
LEMMA SentInStep ==
    ASSUME NEW p \in Page, NEW sv, NEW kind, NEW listed,
           NEW todo \in Seq(Item), todo # <<>>, Tidy(todo), todo[1].do # "enable",
           InStep(p, sv, kind, listed, todo), NEW sent,
           Resent(p, todo, sent) \/ Refreshed(todo, sent)
    PROVE  InStep(p, sv, kind, listed, sent)
<1>0. Len(todo) \in Nat \ {0} /\ todo[1] \in Item
  OBVIOUS
<1>1. \A what : Does(todo, what) => Does(sent, what)
  BY SentTidy
<1>2. CASE Resent(p, todo, sent)
  <2>1. sent[1].do = todo[1].do /\ (todo[1].do = "turns" => sent[1].conv = todo[1].conv)
    BY <1>0, <1>2 DEF Resent, Named, Item
  <2>2. /\ Len(sent) = Len(todo)
        /\ \A i \in 1..Len(todo) : /\ sent[i].do = todo[i].do
                                   /\ todo[i].do = "turns" => sent[i].conv = todo[i].conv
    BY <1>0, <1>2, <2>1 DEF Resent
  <2>3. Turned(p, sv, todo) => Turned(p, sv, sent)
    <3> SUFFICES ASSUME Turned(p, sv, todo), NEW i \in 1..Len(sent), sent[i].do = "turns"
                 PROVE  /\ sent[i].conv = p.selected /\ Contains(ListOf(sv, p.user), p.selected)
                        /\ \A j \in 1..i : sent[j].do \in Reading
      BY DEF Turned
    <3>1. \A j \in 1..i : j \in 1..Len(todo)
      BY <1>0, <2>2
    <3> QED
      BY <2>2, <3>1 DEF Turned
  <2>4. \A what : Does(sent, what) <=> Does(todo, what)
    BY <2>2 DEF Does
  <2> QED
    BY <2>2, <2>3, <2>4 DEF InStep
<1>3. CASE Refreshed(todo, sent)
  <2>1. /\ Len(sent) = Len(todo) + 4
        /\ sent[1].do = "exchange" /\ sent[2].do = "catalog" /\ sent[3].do = "list"
        /\ sent[4].do = "enable" /\ sent[5].do = todo[1].do /\ sent[5].conv = todo[1].conv
    BY <1>0, <1>3 DEF Refreshed, Do, Item
  <2>2. \A i \in 2..Len(todo) : sent[i + 4] = todo[i]
    BY <1>3 DEF Refreshed
  <2>3. \A i \in 5..Len(sent) : /\ i - 4 \in 1..Len(todo)
                                /\ sent[i].do = todo[i - 4].do /\ sent[i].conv = todo[i - 4].conv
    <3> SUFFICES ASSUME NEW i \in 5..Len(sent)
                 PROVE  /\ i - 4 \in 1..Len(todo)
                        /\ sent[i].do = todo[i - 4].do /\ sent[i].conv = todo[i - 4].conv
      OBVIOUS
    <3>1. i - 4 \in 1..Len(todo) /\ (i - 4) + 4 = i /\ (i = 5 \/ i - 4 \in 2..Len(todo))
      BY <1>0, <2>1
    <3>2. CASE i = 5
      <4>1. 5 - 4 = 1
        OBVIOUS
      <4> QED
        BY <2>1, <3>1, <3>2, <4>1
    <3>3. CASE i - 4 \in 2..Len(todo)
      BY <2>2, <3>1, <3>3
    <3> QED
      BY <3>1, <3>2, <3>3
  <2>4. \A i \in 1..Len(sent) : i \in 5..Len(sent)
                                \/ sent[i].do \in {"exchange", "catalog", "list", "enable"}
    <3>1. \A i \in 1..Len(sent) : i \in 5..Len(sent) \/ i = 1 \/ i = 2 \/ i = 3 \/ i = 4
      BY <1>0, <2>1
    <3> QED
      BY <2>1, <3>1
  <2>5. Does(sent, "list")
    BY <1>0, <2>1 DEF Does
  <2>6. Turned(p, sv, todo) => Turned(p, sv, sent)
    <3> SUFFICES ASSUME Turned(p, sv, todo), NEW i \in 1..Len(sent), sent[i].do = "turns"
                 PROVE  /\ sent[i].conv = p.selected /\ Contains(ListOf(sv, p.user), p.selected)
                        /\ \A j \in 1..i : sent[j].do \in Reading
      BY DEF Turned
    <3>1. i \in 5..Len(sent)
      BY <2>4
    <3>2. /\ todo[i - 4].conv = p.selected /\ Contains(ListOf(sv, p.user), p.selected)
          /\ \A j \in 1..(i - 4) : todo[j].do \in Reading
      BY <2>3, <3>1 DEF Turned
    <3>3. ASSUME NEW j \in 1..i PROVE sent[j].do \in Reading
      <4>1. j \in 1..Len(sent)
        BY <3>1
      <4>2. CASE j \in 5..Len(sent)
        <5>1. j - 4 \in 1..(i - 4)
          BY <3>1, <4>2
        <5> QED
          BY <2>3, <3>2, <4>2, <5>1
      <4> QED
        BY <2>4, <4>1, <4>2 DEF Reading
    <3> QED
      BY <2>3, <3>1, <3>2, <3>3
  <2>7. (\A i \in 1..Len(todo) : todo[i].do \in Reading) => \A i \in 1..Len(sent) : sent[i].do \in Reading
    BY <2>3, <2>4 DEF Reading
  <2>8. (\A i \in 1..Len(todo) : todo[i].do = "turns" => todo[i].conv = p.selected)
        => \A i \in 1..Len(sent) : sent[i].do = "turns" => sent[i].conv = p.selected
    BY <2>3, <2>4
  <2> QED
    BY <1>1, <2>5, <2>6, <2>7, <2>8 DEF InStep
<1> QED
  BY <1>2, <1>3

\* What a handler that runs alone leaves: another request in step, or a page that is.
Left(sv, call, r) ==
    /\ r.call # None => AloneCall(r.page, sv, r.call)
    /\ r.call = None /\ ~r.threw => Consistent(r.page, sv, SettledBy(call.kind, call.listed))

LEMMA RequestLeft ==
    ASSUME NEW p \in Page, NEW sv, NEW call \in Call, NEW todo \in Seq(Item), todo # <<>>, Tidy(todo),
           todo[1].do # "enable", InStep(p, sv, call.kind, call.listed, todo),
           NEW r, Requested(p, call, todo, r)
    PROVE  Left(sv, call, r)
<1>1. CASE r.threw /\ r.call = None
  BY <1>1 DEF Left
<1>2. CASE ~r.threw
  <2>1. r.page = p
    BY <1>2 DEF Requested
  <2>2. PICK sent : /\ Resent(p, todo, sent) \/ Refreshed(todo, sent)
                    /\ r.call = Asks(call, sent)
    BY <1>2 DEF Requested
  <2>3. sent \in Seq(Item)
    BY <2>2 DEF Resent, Refreshed
  <2>4. /\ r.call # None /\ r.call.todo = sent /\ r.call.kind = call.kind
        /\ r.call.answer = NoAnswer /\ r.call.state = "asked" /\ r.call.listed = call.listed
    BY <2>2, <2>3, Unanswered
  <2>5. InStep(p, sv, call.kind, call.listed, sent)
    BY <2>2, SentInStep
  <2>6. NoAnswer.conv = None
    BY DEF NoAnswer
  <2>7. AloneCall(p, sv, r.call)
    BY <2>4, <2>5, <2>6 DEF AloneCall, Changing
  <2> QED
    BY <2>1, <2>4, <2>7 DEF Left
<1> QED
  BY <1>1, <1>2 DEF Requested

LEMMA EndedLeft ==
    ASSUME NEW p \in Page, NEW sv, NEW call \in Call, InStep(p, sv, call.kind, call.listed, <<>>),
           NEW r, r.call = None, r.page = Conclude(p, call.kind)
    PROVE  Left(sv, call, r)
<1> DEFINE q == Conclude(p, call.kind)
<1>1. PICK b \in BOOLEAN : q = [p EXCEPT !.submit = b]
  BY Concluded
<1> HIDE DEF q
<1>2. /\ q.user = p.user /\ q.turns = p.turns /\ q.shown = p.shown /\ q.selected = p.selected
      /\ q.value = p.value /\ q.conversations = p.conversations
  BY <1>1 DEF Page
<1>3. ~Does(<<>>, "list") /\ ~Does(<<>>, "turns")
  BY DEF Does
<1>4. Consistent(q, sv, SettledBy(call.kind, call.listed))
  <2>1. CASE call.kind = "choose" /\ ~call.listed
    <3>1. SettledBy(call.kind, call.listed) = "turns"
      BY <2>1 DEF SettledBy
    <3> QED
      BY <1>2, <1>3, <2>1, <3>1 DEF InStep, Consistent
  <2>2. CASE call.kind # "choose" /\ call.listed
    <3>1. Synced(p, sv) /\ TurnsShown(p, sv)
      BY <1>3, <2>2 DEF InStep
    <3> QED
      BY <1>2, <3>1 DEF Consistent, Synced, TurnsShown
  <2>3. CASE ~(call.kind = "choose" /\ ~call.listed) /\ ~(call.kind # "choose" /\ call.listed)
    <3>1. SettledBy(call.kind, call.listed) = "no"
      BY <2>3 DEF SettledBy
    <3> QED
      BY <3>1 DEF Consistent
  <2> QED
    BY <2>1, <2>2, <2>3
<1> QED
  BY <1>4 DEF Left, q

LEMMA ProceedLeft ==
    ASSUME NEW p \in Page, NEW sv, NEW call \in Call, NEW todo \in Seq(Item), Tidy(todo),
           InStep(p, sv, call.kind, call.listed, todo), NEW r, r = Proceed(p, call, todo)
    PROVE  Left(sv, call, r)
<1>1. Proceeded(p, call, todo, r)
  BY ProceedResult
<1>2. CASE todo = <<>>
  <2>1. ~(Len(todo) > 1) /\ todo # <<Do("enable")>>
    BY <1>2
  <2>2. r.call = None /\ r.page = Conclude(p, call.kind)
    BY <1>1, <1>2, <2>1 DEF Proceeded
  <2> QED
    BY <1>2, <2>2, EndedLeft
<1>3. CASE todo # <<>> /\ todo[1].do # "enable"
  <2>1. todo # <<Do("enable")>>
    BY <1>3 DEF Do
  <2>2. Requested(p, call, todo, r)
    BY <1>1, <1>3, <2>1 DEF Proceeded
  <2> QED
    BY <1>3, <2>2, RequestLeft
<1>4. CASE todo # <<>> /\ todo[1].do = "enable"
  <2> DEFINE q == Enabled(p)  t == Tail(todo)
  <2>1. /\ t \in Seq(Item) /\ Len(t) = Len(todo) - 1 /\ \A i \in 1..Len(t) : t[i] = todo[i + 1]
        /\ Tidy(t)
    BY <1>4, TailTidy
  <2>2. /\ q \in Page /\ q.user = p.user /\ q.selected = p.selected /\ q.value = p.value
        /\ q.conversations = p.conversations /\ q.turns = p.turns /\ q.shown = p.shown
    BY Controls, EnabledRuns
  <2> HIDE DEF q
  <2>3. InStep(q, sv, call.kind, call.listed, t)
    BY <1>4, <2>2, InStepTail
  <2> HIDE DEF t
  <2>4. CASE Len(todo) > 1 /\ Requested(q, call, t, r)
    <3>1. t # <<>>
      BY <2>1, <2>4
    <3>2. t[1].do # "enable"
      <4>1. 1 \in 1..Len(todo) /\ 2 \in 1..Len(todo) /\ 1 \in 1..Len(t) /\ 1 + 1 = 2
        BY <2>1, <2>4
      <4>2. todo[2].do # "enable"
        BY <1>4, <4>1 DEF Tidy
      <4> QED
        BY <2>1, <4>1, <4>2
    <3> QED
      BY <2>1, <2>2, <2>3, <2>4, <3>1, <3>2, RequestLeft
  <2>5. CASE todo = <<Do("enable")>> /\ r.call = None /\ r.page = Conclude(q, call.kind)
    <3>1. t = <<>>
      BY <2>5 DEF t
    <3> QED
      BY <2>2, <2>3, <2>5, <3>1, EndedLeft
  <2> QED
    BY <1>1, <1>4, <2>4, <2>5 DEF Proceeded, q, t
<1> QED
  BY <1>2, <1>3, <1>4

-----------------------------------------------------------------------------
(* The steps of a handler that runs alone *)

UndisturbedNow == Undisturbed(page, calls, server, settled)
UndisturbedNext == Undisturbed(page', calls', server', settled')

\* At most one call is in flight, and it is in step.
LEMMA OneAlone ==
    ASSUME NEW p, NEW cs, NEW sv,
           \A t \in Pending(cs) : cs[t].alone => Pending(cs) = {t} /\ AloneCall(p, sv, cs[t])
    PROVE  Undisturbed(p, cs, sv, "no")
BY DEF Undisturbed, Consistent

LEMMA ReceiveUndisturbed ==
    ASSUME Sound, UndisturbedNow, NEW s \in Slot, Receive(s)
    PROVE  UndisturbedNext
<1> DEFINE call == calls[s]  todo == call.todo  item == Head(todo)
           n == Continue(page, item, call.answer)
           listed == call.listed \/ item.do = "list"
           after == [call EXCEPT !.listed = listed]
           all == n.first \o Tail(todo)
           r == Proceed(n.page, after, all)
<1>1. /\ call # None /\ (call.state = "answered" \/ item.do \in {"exchange", "catalog"})
      /\ page' = r.page /\ calls' = [calls EXCEPT ![s] = r.call] /\ server' = server
      /\ settled' = IF r.call = None /\ ~r.threw /\ call.alone
                    THEN SettledBy(call.kind, after.listed) ELSE "no"
  BY DEF Receive
<1>2. /\ page \in Page /\ calls \in [Slot -> Call \cup {None}]
      /\ Good(page, calls, server)
  BY DEF Sound, TypeOK
<1>3. s \in Pending(calls)
  BY <1>1 DEF Pending
<1>4. /\ call \in Call /\ todo \in Seq(Item) /\ call.answer \in Answer
      /\ todo # <<>> /\ item = todo[1] /\ item \in Item /\ item.do # "enable"
      /\ Running(page, calls, server, s, call.kind, todo)
      /\ Mine(page, server, item.conv) /\ MineAnswer(page, server, call.answer)
  BY <1>2, <1>3, Answered
<1>5. listed \in BOOLEAN /\ call.listed \in BOOLEAN /\ call.alone \in BOOLEAN
  BY <1>4 DEF Call
<1>6. after \in Call /\ after.kind = call.kind /\ after.listed = listed /\ after.alone = call.alone
  <2> HIDE DEF listed, call
  <2> QED
    BY <1>4, <1>5 DEF Call
<1> HIDE DEF call, todo, item, after
<1>7. n.page \in Page /\ all \in Seq(Item) /\ Tidy(all)
  <2>1. n.page \in Page /\ all \in Seq(Item) /\ Running(n.page, calls, server, s, call.kind, all)
    BY <1>2, <1>4, ContinueGood
  <2> QED
    BY <2>1 DEF Running
<1>8. r.call = None \/ (r.call # None /\ r.call.alone = call.alone)
  <2> DEFINE rr == r
  <2>1. rr = Proceed(n.page, after, all)
    OBVIOUS
  <2> HIDE DEF rr, n, all, listed
  <2>2. Proceeded(n.page, after, all, rr)
    BY <1>6, <1>7, <2>1, ProceedResult
  <2>3. ASSUME NEW p, NEW t \in Seq(Item), Requested(p, after, t, rr)
        PROVE  rr.call = None \/ (rr.call # None /\ rr.call.alone = after.alone)
    <3>1. CASE rr.call = None
      BY <3>1
    <3>2. CASE \E sent : (Resent(p, t, sent) \/ Refreshed(t, sent)) /\ rr.call = Asks(after, sent)
      BY <1>6, <3>2, Unanswered DEF Resent, Refreshed
    <3> QED
      BY <2>3, <3>1, <3>2 DEF Requested
  <2>4. rr.call = None \/ (rr.call # None /\ rr.call.alone = after.alone)
    <3>1. Len(all) > 1 => Tail(all) \in Seq(Item)
      BY <1>7
    <3> QED
      BY <1>7, <2>2, <2>3, <3>1 DEF Proceeded
  <2> QED
    BY <1>6, <2>1, <2>4
<1>9. CASE ~call.alone
  <2>1. \A t \in Pending(calls) : ~calls[t].alone
    <3> SUFFICES ASSUME NEW t \in Pending(calls), calls[t].alone PROVE FALSE
      OBVIOUS
    <3>1. t = s
      BY <1>3 DEF UndisturbedNow, Undisturbed
    <3> QED
      BY <1>9, <3>1 DEF call
  <2>2. settled' = "no"
    BY <1>1, <1>9
  <2>3. \A t \in Pending(calls') : ~calls'[t].alone
    <3> HIDE DEF r
    <3> QED
      BY <1>1, <1>2, <1>5, <1>8, <1>9, <2>1 DEF Pending
  <2>4. Undisturbed(page', calls', server', "no")
    BY <2>3, OneAlone
  <2> QED
    BY <2>2, <2>4 DEF UndisturbedNext
<1>10. CASE call.alone
  <2>1. Pending(calls) = {s} /\ AloneCall(page, server, call)
    BY <1>3, <1>10 DEF UndisturbedNow, Undisturbed, call
  <2>2. call.state \in {"asked", "answered"}
    BY <1>4 DEF Call
  <2>3. /\ item.do = "list" => call.answer.convs = ListOf(server, page.user)
        /\ item.do = "turns" => call.answer.shown = Recent(server.turns[item.conv])
    BY <1>1, <1>4, <2>1 DEF AloneCall, todo
  <2>4. IF item.do = "query" /\ call.answer.conv # None
        THEN call.kind # "choose" /\ Turned(page, server, todo)
        ELSE InStep(page, server, call.kind, call.listed, todo)
    BY <1>4, <2>1 DEF AloneCall, Changing, todo
  <2>5. InStep(n.page, server, call.kind, listed, all)
    <3>1. Tidy(todo)
      BY <1>4 DEF Running
    <3> QED
      BY <1>2, <1>4, <1>5, <2>3, <2>4, <3>1, ContinueInStep
  <2> DEFINE rr == r
  <2>6. Left(server, after, rr)
    <3> HIDE DEF n, all, listed
    <3> QED
      BY <1>6, <1>7, <2>5, ProceedLeft
  <2>7. /\ page' = rr.page /\ calls' = [calls EXCEPT ![s] = rr.call]
        /\ settled' = IF rr.call = None /\ ~rr.threw
                      THEN SettledBy(after.kind, after.listed) ELSE "no"
        /\ rr.call = None \/ (rr.call # None /\ rr.call.alone = call.alone)
    BY <1>1, <1>6, <1>8, <1>10
  <2> HIDE DEF r, rr
  <2>8. /\ rr.call = None => Pending(calls') = {}
        /\ rr.call # None => Pending(calls') = {s} /\ calls'[s] = rr.call
    BY <1>2, <2>1, <2>7 DEF Pending
  <2>9. CASE rr.call # None
    <3>1. settled' = "no" /\ AloneCall(page', server, rr.call)
      BY <2>6, <2>7, <2>9 DEF Left
    <3>2. Undisturbed(page', calls', server', "no")
      BY <1>1, <2>8, <2>9, <3>1, OneAlone
    <3> QED
      BY <3>1, <3>2 DEF UndisturbedNext
  <2>10. CASE rr.call = None
    <3>1. Consistent(page', server, settled')
      <4>1. CASE rr.threw
        BY <2>7, <4>1 DEF Consistent
      <4>2. CASE ~rr.threw
        BY <2>6, <2>7, <2>10, <4>2 DEF Left
      <4> QED
        BY <4>1, <4>2
    <3> QED
      BY <1>1, <2>8, <2>10, <3>1 DEF UndisturbedNext, Undisturbed
  <2> QED
    BY <2>9, <2>10
<1> QED
  BY <1>5, <1>9, <1>10

LEMMA RaiseUndisturbed ==
    ASSUME Sound, UndisturbedNow, NEW s \in Slot, Raise(s)
    PROVE  UndisturbedNext
<1>1. /\ calls[s] # None /\ calls' = [calls EXCEPT ![s] = None] /\ settled' = "no"
      /\ calls \in [Slot -> Call \cup {None}]
  BY DEF Raise, Sound, TypeOK
<1>2. Pending(calls') = Pending(calls) \ {s} /\ \A t \in Pending(calls') : calls'[t] = calls[t]
  BY <1>1 DEF Pending
<1>3. \A t \in Pending(calls') : ~calls'[t].alone
  <2> SUFFICES ASSUME NEW t \in Pending(calls'), calls'[t].alone PROVE FALSE
    OBVIOUS
  <2>1. Pending(calls) = {t} /\ s \in Pending(calls) /\ t # s
    BY <1>1, <1>2 DEF UndisturbedNow, Undisturbed, Pending
  <2> QED
    BY <2>1
<1>4. Undisturbed(page', calls', server', "no")
  BY <1>3, OneAlone
<1> QED
  BY <1>1, <1>4 DEF UndisturbedNext

LEMMA ElsewhereUndisturbed ==
    ASSUME Sound, NEW u \in User, Elsewhere(u)
    PROVE  UndisturbedNext
<1>1. /\ calls' = [s \in Slot |-> IF calls[s] = None THEN None ELSE [calls[s] EXCEPT !.alone = FALSE]]
      /\ settled' = "no" /\ calls \in [Slot -> Call \cup {None}]
  BY DEF Elsewhere, Sound, TypeOK
<1>2. \A c \in Call : [c EXCEPT !.alone = FALSE].alone = FALSE
  BY DEF Call
<1>3. \A t \in Pending(calls') : ~calls'[t].alone
  BY <1>1, <1>2 DEF Pending
<1>4. Undisturbed(page', calls', server', "no")
  BY <1>3, OneAlone
<1> QED
  BY <1>1, <1>4 DEF UndisturbedNext

LEMMA ExpireUndisturbed ==
    ASSUME Sound, UndisturbedNow, Expire
    PROVE  UndisturbedNext
<1> DEFINE q == [page EXCEPT !.token = "expired"]
<1>1. page' = q /\ calls' = calls /\ server' = server /\ settled' = settled /\ page \in Page
  BY DEF Expire, Sound, TypeOK
<1>2. /\ q.user = page.user /\ q.selected = page.selected /\ q.value = page.value
      /\ q.conversations = page.conversations /\ q.turns = page.turns /\ q.shown = page.shown
  BY <1>1 DEF Page
<1> HIDE DEF q
<1>3. \A call : AloneCall(page, server, call) => AloneCall(q, server, call)
  BY <1>2 DEF AloneCall, InStep, Turned, Synced, TurnsShown
<1>4. Consistent(page, server, settled) => Consistent(q, server, settled)
  BY <1>2 DEF Consistent
<1> QED
  BY <1>1, <1>3, <1>4 DEF UndisturbedNow, UndisturbedNext, Undisturbed

\* An event starts a handler: it runs alone if no other is in flight.
LEMMA StartUndisturbed ==
    ASSUME Sound, NEW kind, kind \in {"load", "query", "create", "rename", "delete", "choose"},
           NEW p \in Page, NEW todo \in Seq(Item), Tidy(todo), Start(kind, p, todo),
           InStep(p, server, kind, FALSE, todo)
    PROVE  UndisturbedNext
<1> DEFINE alone == InFlight = {}  call == NewCall(kind, <<>>, alone)  r == Proceed(p, call, todo)
<1>1. PICK s \in Slot :
         /\ calls[s] = None /\ page' = r.page
         /\ calls' = [t \in Slot |->
               CASE t = s -> r.call
                 [] t # s /\ calls[t] # None -> [calls[t] EXCEPT !.alone = FALSE]
                 [] OTHER -> None]
         /\ settled' = "no" /\ server' = server
  BY DEF Start
<1>2. alone \in BOOLEAN /\ (alone <=> Pending(calls) = {}) /\ calls \in [Slot -> Call \cup {None}]
  BY DEF InFlight, Pending, Sound, TypeOK
<1> HIDE DEF alone
<1>3. call \in Call /\ call.kind = kind /\ call.listed = FALSE /\ call.alone = alone
  <2>1. NoAnswer \in Answer /\ <<>> \in Seq(Item)
    BY WebAssumption DEF NoAnswer, Answer, Listing, IsInjective
  <2> QED
    BY <1>2, <2>1 DEF NewCall, Call
<1> HIDE DEF call
<1> DEFINE rr == r  ds == calls'
<1>4. Left(server, call, rr)
  <2>1. InStep(p, server, call.kind, call.listed, todo)
    BY <1>3
  <2> QED
    BY <1>3, <2>1, ProceedLeft
<1>5. page' = rr.page /\ ds[s] = rr.call /\ \A t \in Slot \ {s} :
         ds[t] = IF calls[t] # None THEN [calls[t] EXCEPT !.alone = FALSE] ELSE None
  BY <1>1
<1>6. ASSUME ds[s] # None PROVE ds[s].alone = alone
  <2>1. Proceeded(p, call, todo, rr)
    BY <1>3, ProceedResult
  <2> HIDE DEF r, rr
  <2>2. ASSUME NEW q, NEW t \in Seq(Item), Requested(q, call, t, rr), rr.call # None
        PROVE  rr.call.alone = alone
    <3>1. PICK sent : (Resent(q, t, sent) \/ Refreshed(t, sent)) /\ rr.call = Asks(call, sent)
      BY <2>2 DEF Requested
    <3> QED
      BY <1>3, <3>1, Unanswered DEF Resent, Refreshed
  <2>3. Len(todo) > 1 => Tail(todo) \in Seq(Item)
    OBVIOUS
  <2> QED
    BY <1>5, <1>6, <2>1, <2>2, <2>3 DEF Proceeded
<1> HIDE DEF r, rr, ds
<1>7. ASSUME NEW t \in Pending(ds), ds[t].alone
      PROVE  Pending(ds) = {t} /\ AloneCall(page', server, ds[t])
  <2>1. \A c \in Call : [c EXCEPT !.alone = FALSE].alone = FALSE
    BY DEF Call
  <2>2. t = s
    BY <1>2, <1>5, <1>7, <2>1 DEF Pending
  <2>3. Pending(calls) = {}
    BY <1>2, <1>6, <1>7, <2>2 DEF Pending
  <2>4. Pending(ds) = {s}
    BY <1>5, <1>7, <2>2, <2>3 DEF Pending
  <2>5. AloneCall(rr.page, server, rr.call)
    BY <1>4, <1>5, <1>7, <2>2 DEF Left, Pending
  <2> QED
    BY <1>5, <2>2, <2>4, <2>5
<1>8. Undisturbed(page', ds, server, "no")
  BY <1>7, OneAlone
<1> QED
  BY <1>1, <1>8 DEF UndisturbedNext, ds

LEMMA RepliedUndisturbed ==
    ASSUME UndisturbedNow, calls \in [Slot -> Call \cup {None}], NEW s \in Pending(calls),
           NEW a, Reply(s, a), page' = page, settled' = settled,
           calls[s].alone =>
              AloneCall(page, server', [calls[s] EXCEPT !.state = "answered", !.answer = a])
    PROVE  UndisturbedNext
<1> DEFINE call == [calls[s] EXCEPT !.state = "answered", !.answer = a]
<1>1. s \in Slot /\ calls[s] \in Call /\ calls[s] # None
  BY DEF Pending
<1>2. calls' = [calls EXCEPT ![s] = call]
  BY <1>1 DEF Reply
<1>3. call.alone = calls[s].alone
  BY <1>1 DEF Call
<1> HIDE DEF call
<1> DEFINE ds == calls'
<1>4. ds[s] = call /\ \A t \in Slot \ {s} : ds[t] = calls[t]
  BY <1>1, <1>2
<1> HIDE DEF ds
<1>5. settled = "no"
  BY DEF UndisturbedNow, Undisturbed
<1>6. ASSUME NEW t \in Pending(ds), ds[t].alone
      PROVE  Pending(ds) = {t} /\ AloneCall(page, server', ds[t])
  <2>1. t = s
    <3> SUFFICES ASSUME t # s PROVE FALSE
      OBVIOUS
    <3>1. t \in Pending(calls) /\ calls[t].alone
      BY <1>4, <1>6 DEF Pending
    <3> QED
      BY <3>1 DEF UndisturbedNow, Undisturbed
  <2>2. calls[s].alone
    BY <1>3, <1>4, <1>6, <2>1
  <2>3. Pending(calls) = {s}
    BY <2>2 DEF UndisturbedNow, Undisturbed
  <2>4. Pending(ds) = {s}
    BY <1>4, <1>6, <2>1, <2>3 DEF Pending
  <2>5. AloneCall(page, server', call)
    BY <2>2 DEF call
  <2> QED
    BY <1>4, <2>1, <2>4, <2>5
<1>7. Undisturbed(page, ds, server', "no")
  BY <1>6, OneAlone
<1> QED
  BY <1>5, <1>7 DEF UndisturbedNext, ds

LEMMA HandleUndisturbed ==
    ASSUME Sound, UndisturbedNow, NEW s \in Slot, Handle(s)
    PROVE  UndisturbedNext
<1> DEFINE call == calls[s]  todo == call.todo
           Now(a) == [call EXCEPT !.state = "answered", !.answer = a]
<1>1. /\ page \in Page /\ calls \in [Slot -> Call \cup {None}] /\ Good(page, calls, server)
      /\ server \in Server
  BY DEF Sound, TypeOK
<1>2. /\ call # None /\ page' = page /\ settled' = settled /\ call.state = "asked"
  BY DEF Handle, HandleRead, HandleCreate, HandleRename, HandleDelete, HandleQuery, Asked
<1>3. s \in Pending(calls)
  BY <1>2 DEF Pending
<1>4. /\ call \in Call /\ todo \in Seq(Item) /\ todo # <<>> /\ Head(todo) = todo[1]
      /\ Running(page, calls, server, s, call.kind, todo)
  BY <1>1, <1>3, Answered
<1>5. Len(todo) \in Nat /\ Len(todo) > 0 /\ 1 \in 1..Len(todo) /\ Tidy(todo)
  BY <1>4 DEF Running
<1>6. \A a : /\ Now(a).state = "answered" /\ Now(a).answer = a /\ Now(a).todo = todo
             /\ Now(a).kind = call.kind /\ Now(a).listed = call.listed
  BY <1>4 DEF Call
<1>7. call.alone => InStep(page, server, call.kind, call.listed, todo)
  <2>1. call.alone => AloneCall(page, server, call)
    BY <1>3 DEF UndisturbedNow, Undisturbed
  <2>2. AloneCall(page, server, call) => call.answer.conv = None
    BY <1>2 DEF AloneCall, NoAnswer
  <2> QED
    BY <2>1, <2>2 DEF AloneCall, Changing
<1>8. ASSUME NEW a, Reply(s, a), call.alone => AloneCall(page, server', Now(a)) PROVE UndisturbedNext
  BY <1>1, <1>2, <1>3, <1>8, RepliedUndisturbed
<1> HIDE DEF Now, call, todo
\* Nothing has changed.
<1>9. ASSUME NEW a, Reply(s, a), server' = server, a.conv = None,
             todo[1].do = "list" => a.convs = ListOf(server, page.user),
             todo[1].do = "turns" => a.shown = Recent(server.turns[todo[1].conv])
      PROVE  UndisturbedNext
  <2>1. call.alone => AloneCall(page, server', Now(a))
    BY <1>6, <1>7, <1>9 DEF AloneCall, Changing
  <2> QED
    BY <1>8, <1>9, <2>1
\* A conversation has changed: no turns are to be shown before the list is loaded.
<1>10. ASSUME NEW a, Reply(s, a), todo[1].do \notin Reading,
              Does(todo, "list") \/ (todo[1].do = "query" /\ a.conv # None)
       PROVE  UndisturbedNext
  <2>1. ASSUME call.alone PROVE AloneCall(page, server', Now(a))
    <3>1. call.kind # "choose" /\ Turned(page, server, todo)
      BY <1>5, <1>7, <1>10, <2>1 DEF InStep
    <3>2. Turned(page, server', todo)
      BY <1>5, <1>10, <3>1, NoTurns
    <3>3. todo[1].do # "list" /\ todo[1].do # "turns"
      BY <1>10 DEF Reading
    <3>4. ~Changing(Now(a)) => InStep(page, server', call.kind, call.listed, todo)
      BY <1>6, <1>10, <3>1, <3>2 DEF InStep, Changing
    <3> QED
      BY <1>6, <3>1, <3>2, <3>3, <3>4 DEF AloneCall
  <2> QED
    BY <1>8, <1>10, <2>1
<1>11. ConvOf(s) = todo[1].conv /\ \A what : Asked(s, what) => todo[1].do = what
  BY <1>4 DEF ConvOf, Asked, call, todo
<1>12. CASE HandleRead(s)
  <2>0. server' = server
    BY <1>12 DEF HandleRead
  <2>1. CASE Asked(s, "list") /\ Reply(s, [NoAnswer EXCEPT !.convs = ListFor(page.user)])
    <3> DEFINE a == [NoAnswer EXCEPT !.convs = ListFor(page.user)]
    <3>1. a.conv = None /\ a.convs = ListFor(page.user)
      BY DEF NoAnswer
    <3>2. ListFor(page.user) = ListOf(server, page.user)
      BY DEF ListFor, ListOf, Own
    <3> HIDE DEF a
    <3>3. todo[1].do = "list"
      BY <1>11, <2>1
    <3> QED
      BY <1>9, <2>0, <2>1, <3>1, <3>2, <3>3 DEF a
  <2>2. CASE /\ Asked(s, "turns")
             /\ Reply(s, [NoAnswer EXCEPT !.shown = Recent(server.turns[ConvOf(s)])])
    <3> DEFINE a == [NoAnswer EXCEPT !.shown = Recent(server.turns[ConvOf(s)])]
    <3>1. a.conv = None /\ a.shown = Recent(server.turns[ConvOf(s)])
      BY DEF NoAnswer
    <3> HIDE DEF a
    <3>2. todo[1].do = "turns"
      BY <1>11, <2>2
    <3> QED
      BY <1>9, <1>11, <2>0, <2>2, <3>1, <3>2 DEF a
  <2> QED
    BY <1>12, <2>1, <2>2 DEF HandleRead
<1>13. CASE HandleCreate(s) \/ HandleRename(s) \/ HandleDelete(s)
  <2>1. todo[1].do \in {"create", "rename", "delete"}
    BY <1>11, <1>13 DEF HandleCreate, HandleRename, HandleDelete
  <2>2. \E a : Reply(s, a)
    BY <1>13 DEF HandleCreate, HandleRename, HandleDelete, Replied
  <2>3. Does(todo, "list")
    BY <1>5, <2>1 DEF Tidy, Later, Does
  <2> QED
    BY <1>10, <2>1, <2>2, <2>3 DEF Reading
<1>14. CASE HandleQuery(s)
  <2>1. todo[1].do = "query"
    BY <1>11, <1>14 DEF HandleQuery
  <2>2. \A c : [NoAnswer EXCEPT !.conv = c].conv = c
    BY DEF NoAnswer
  <2>3. ASSUME NEW c, c # None, Replied(s, c) PROVE UndisturbedNext
    <3> DEFINE a == [NoAnswer EXCEPT !.conv = c]
    <3>1. Reply(s, a) /\ a.conv # None
      BY <2>2, <2>3 DEF Replied
    <3> HIDE DEF a
    <3> QED
      BY <1>10, <2>1, <3>1 DEF Reading
  <2>4. CASE Has(page.user, ConvOf(s)) /\ Replied(s, ConvOf(s))
    BY <2>3, <2>4 DEF Has
  <2>5. CASE \E c \in Conv : Replied(s, c)
    BY <2>3, <2>5, WebAssumption
  <2>6. CASE Replied(s, None) /\ server' = server
    <3> DEFINE a == [NoAnswer EXCEPT !.conv = None]
    <3>1. Reply(s, a) /\ a.conv = None
      BY <2>2, <2>6 DEF Replied
    <3> HIDE DEF a
    <3> QED
      BY <1>9, <2>1, <2>6, <3>1
  <2> QED
    BY <1>14, <2>4, <2>5, <2>6 DEF HandleQuery
<1> QED
  BY <1>12, <1>13, <1>14 DEF Handle

LEMMA EventsUndisturbed ==
    ASSUME Sound,
           RunQuery \/ CreateConversation \/ RenameConversation \/ DeleteConversation \/ Choose
    PROVE  UndisturbedNext
<1>1. /\ page \in Page /\ Good(page, calls, server) /\ page.selected \in Conv \cup {None}
  BY DEF Sound, TypeOK, Page
<1>2. ASSUME NEW kind, kind \in {"query", "create", "rename", "delete"}, NEW p \in Page,
             NEW todo \in Seq(Item), Tidy(todo), Start(kind, p, todo), ~Does(todo, "turns")
      PROVE  UndisturbedNext
  <2>1. InStep(p, server, kind, FALSE, todo)
    BY <1>2, NoTurns DEF InStep
  <2> QED
    BY <1>2, <2>1, StartUndisturbed
<1>3. ASSUME NEW a \in Item, NEW b \in Item, NEW d \in Item
      PROVE  <<a, b>> \o <<d>> = <<a, b, d>>
  <2> DEFINE l == <<a, b>> \o <<d>>  r == <<a, b, d>>
  <2>1. l \in Seq(Item) /\ Len(l) = 3 /\ l[1] = a /\ l[2] = b /\ l[3] = d
    OBVIOUS
  <2>2. r \in Seq(Item) /\ Len(r) = 3 /\ r[1] = a /\ r[2] = b /\ r[3] = d
    OBVIOUS
  <2> HIDE DEF l, r
  <2>3. \A i \in 1..Len(l) : l[i] = r[i]
    BY <2>1, <2>2
  <2>4. l = r
    BY <2>1, <2>2, <2>3, SeqEqual
  <2> QED
    BY <2>4 DEF l, r
<1>4. /\ ~Does(<<Do("query")>>, "turns")
      /\ ~Does(<<Do("create"), Do("list"), Do("query")>>, "turns")
      /\ ~Does(<<Do("create"), Do("list")>>, "turns")
      /\ \A c : ~Does(<<DoWith("rename", c), Do("list")>>, "turns")
      /\ \A c : ~Does(<<DoWith("delete", c), Do("list")>>, "turns")
  <2>1. ASSUME NEW a, NEW b, NEW d, a.do # "turns", b.do # "turns", d.do # "turns"
        PROVE  ~Does(<<a>>, "turns") /\ ~Does(<<a, b>>, "turns") /\ ~Does(<<a, b, d>>, "turns")
    BY <2>1 DEF Does
  <2>2. /\ Do("query").do # "turns" /\ Do("create").do # "turns" /\ Do("list").do # "turns"
        /\ \A c : DoWith("rename", c).do # "turns" /\ DoWith("delete", c).do # "turns"
    BY DEF Do, DoWith
  <2> QED
    BY <2>1, <2>2, Zenon
<1>6. CASE RunQuery
  <2> DEFINE p == [page EXCEPT !.submit = FALSE]
             todo == (IF page.selected = None THEN <<Do("create"), Do("list")>> ELSE <<>>)
                     \o <<Do("query")>>
  <2>1. todo = <<Do("query")>> \/ todo = <<Do("create"), Do("list"), Do("query")>>
    <3>1. <<>> \o <<Do("query")>> = <<Do("query")>>
      OBVIOUS
    <3>2. <<Do("create"), Do("list")>> \o <<Do("query")>> = <<Do("create"), Do("list"), Do("query")>>
      BY <1>3, Items
    <3> QED
      BY <3>1, <3>2, Zenon
  <2>2. Start("query", p, todo) /\ p \in Page
    BY <1>1, <1>6 DEF RunQuery, Page
  <2> HIDE DEF todo, p
  <2>3. todo \in Seq(Item) /\ Tidy(todo)
    BY <2>1, Todos
  <2>4. ~Does(todo, "turns")
    BY <1>4, <2>1, Zenon
  <2> QED
    BY <1>2, <2>2, <2>3, <2>4
<1>7. CASE CreateConversation
  <2> DEFINE todo == <<Do("create"), Do("list")>>
  <2>1. todo \in Seq(Item) /\ Tidy(todo) /\ ~Does(todo, "turns")
    BY <1>4, Todos
  <2>2. Start("create", page, todo)
    BY <1>7 DEF CreateConversation
  <2> HIDE DEF todo
  <2> QED
    BY <1>1, <1>2, <2>1, <2>2
<1>8. CASE RenameConversation
  <2> DEFINE todo == <<DoWith("rename", page.selected), Do("list")>>
  <2>1. todo \in Seq(Item) /\ Tidy(todo) /\ ~Does(todo, "turns")
    BY <1>1, <1>4, Todos
  <2>2. Start("rename", page, todo)
    BY <1>8 DEF RenameConversation
  <2> HIDE DEF todo
  <2> QED
    BY <1>1, <1>2, <2>1, <2>2
<1>9. CASE DeleteConversation
  <2> DEFINE todo == <<DoWith("delete", page.selected), Do("list")>>
  <2>1. todo \in Seq(Item) /\ Tidy(todo) /\ ~Does(todo, "turns")
    BY <1>1, <1>4, Todos
  <2>2. Start("delete", page, todo)
    BY <1>9 DEF DeleteConversation
  <2> HIDE DEF todo
  <2> QED
    BY <1>1, <1>2, <2>1, <2>2
<1>10. CASE Choose
  <2>1. PICK c \in ToSet(page.options) \ {page.value} :
           /\ page.list
           /\ Start("choose", RenderConversations([page EXCEPT !.selected = c]), <<DoWith("turns", c)>>)
    BY <1>10 DEF Choose
  <2> DEFINE p0 == [page EXCEPT !.selected = c]  p == RenderConversations(p0)
             todo == <<DoWith("turns", c)>>
  <2>2. page.options = page.conversations /\ page.conversations \in Listing
        /\ page.conversations \in Seq(Conv)
    BY <1>1, <2>1 DEF Shown, Page, Listing, Good
  <2>3. c \in Conv /\ Contains(page.conversations, c)
    BY <2>2 DEF ToSet, Contains
  <2>4. p0 \in Page /\ p0.selected = c /\ p0.conversations = page.conversations
    BY <1>1, <2>3 DEF Page
  <2>5. Select(p0, page.conversations) = p0
    <3>1. Select(p0, page.conversations) =
             [p0 EXCEPT !.conversations = page.conversations, !.selected = c]
      BY <2>3, <2>4 DEF Select
    <3>2. p0 = [p0 EXCEPT !.conversations = page.conversations, !.selected = c]
      BY <2>4 DEF Page
    <3> QED
      BY <3>1, <3>2
  <2> HIDE DEF p0
  <2>6. p \in Page /\ p.value = p.selected /\ p.selected = c
    BY <2>2, <2>3, <2>4, <2>5, Rendered
  <2>7. todo \in Seq(Item) /\ Tidy(todo)
    BY <2>3, Todos
  <2>8. Len(todo) = 1 /\ todo[1].do = "turns" /\ todo[1].conv = c
    BY DEF DoWith
  <2>9. Start("choose", p, todo)
    BY <2>1 DEF p0
  <2> HIDE DEF p, todo
  <2>10. InStep(p, server, "choose", FALSE, todo)
    BY <2>6, <2>8 DEF InStep, Does, Reading
  <2> QED
    BY <2>6, <2>7, <2>9, <2>10, StartUndisturbed
<1> QED
  BY <1>6, <1>7, <1>8, <1>9, <1>10

\* The page is loaded, and renders the session.
LEMMA SessionInStep ==
    ASSUME NEW p, NEW sv
    PROVE  InStep(p, sv, "load", FALSE, RenderSession)
<1>1. ~Does(RenderSession, "turns")
  <2>1. /\ Len(RenderSession) = 3 /\ RenderSession[1].do = "catalog"
        /\ RenderSession[2].do = "list" /\ RenderSession[3].do = "enable"
    BY DEF RenderSession, Do
  <2> HIDE DEF RenderSession
  <2>2. \A i \in 1..Len(RenderSession) : i = 1 \/ i = 2 \/ i = 3
    BY <2>1
  <2> QED
    BY <2>1, <2>2 DEF Does
<1> QED
  BY <1>1, NoTurns DEF InStep

LEMMA LoadUndisturbed ==
    ASSUME Sound, NEW u \in User \cup {None}, NEW token \in {None, "current", "expired"},
           NEW c \in Conv \cup {None}, Load(u, token, c)
    PROVE  UndisturbedNext
<1> DEFINE p == Loaded(u, token, c)
           call == NewCall("load", <<>>, TRUE)
           r == Proceed(p, call, RenderSession)
<1>1. PICK s \in Slot :
         /\ page' = IF token = None THEN p ELSE r.page
         /\ calls' = [t \in Slot |-> IF t = s /\ token # None THEN r.call ELSE None]
         /\ settled' = "no" /\ server' = server
  BY DEF Load
<1>2. p \in Page
  BY LoadedPage
<1>3. call \in Call /\ call.kind = "load" /\ call.listed = FALSE
  <2>1. NoAnswer \in Answer /\ <<>> \in Seq(Item)
    BY WebAssumption DEF NoAnswer, Answer, Listing, IsInjective
  <2> QED
    BY <2>1 DEF NewCall, Call
<1> HIDE DEF p, call
<1> DEFINE rr == r  ds == calls'
<1>4. Left(server, call, rr)
  <2>1. RenderSession \in Seq(Item) /\ Tidy(RenderSession)
    BY Todos
  <2>2. InStep(p, server, call.kind, call.listed, RenderSession)
    BY <1>3, SessionInStep
  <2> QED
    BY <1>2, <1>3, <2>1, <2>2, ProceedLeft
<1>5. /\ token # None => page' = rr.page /\ ds[s] = rr.call
      /\ token = None => ds[s] = None
      /\ \A t \in Slot \ {s} : ds[t] = None
  BY <1>1
<1> HIDE DEF r, rr, ds
<1>6. ASSUME NEW t \in Pending(ds) PROVE Pending(ds) = {t} /\ AloneCall(page', server, ds[t])
  BY <1>4, <1>5 DEF Pending, Left
<1>7. Undisturbed(page', ds, server, "no")
  BY <1>6, OneAlone
<1> QED
  BY <1>1, <1>7 DEF UndisturbedNext, ds

LEMMA InitUndisturbed == Init => UndisturbedNow
<1> SUFFICES ASSUME Init PROVE UndisturbedNow
  OBVIOUS
<1> DEFINE call == NewCall("load", RenderSession, TRUE)
<1>1. PICK u \in User \cup {None}, first \in Slot : calls =
         [s \in Slot |-> IF u # None /\ s = first THEN call ELSE None]
  BY DEF Init
<1>2. /\ call.kind = "load" /\ call.listed = FALSE /\ call.todo = RenderSession
      /\ call.answer = NoAnswer /\ call.state = "asked"
  BY DEF NewCall
<1>3. AloneCall(page, server, call)
  <2>1. NoAnswer.conv = None
    BY DEF NoAnswer
  <2> HIDE DEF call
  <2> QED
    BY <1>2, <2>1, SessionInStep DEF AloneCall, Changing
<1> HIDE DEF call
<1>4. \A t \in Pending(calls) : t = first /\ calls[t] = call
  BY <1>1 DEF Pending
<1>5. \A t \in Pending(calls) : Pending(calls) = {t} /\ AloneCall(page, server, calls[t])
  BY <1>3, <1>4
<1>6. Undisturbed(page, calls, server, "no")
  BY <1>5, OneAlone
<1> QED
  BY <1>6 DEF Init, UndisturbedNow

LEMMA NextUndisturbed ==
    ASSUME Sound, UndisturbedNow, [Next]_webVars
    PROVE  UndisturbedNow'
<1>0. /\ page.user \in User \cup {None} /\ page.token \in {None, "current", "expired"}
      /\ page.selected \in Conv \cup {None}
  BY DEF Sound, TypeOK, Page
<1>1. ASSUME UndisturbedNext PROVE UndisturbedNow'
  BY <1>1 DEF UndisturbedNext, UndisturbedNow, Undisturbed, Consistent, AloneCall, Changing, InStep,
              Synced, TurnsShown, Turned, ListOf, Does, Pending, NoAnswer, Reading, Keep
<1>2. CASE \E s \in Slot : Handle(s) \/ Receive(s) \/ Raise(s)
  BY <1>1, <1>2, HandleUndisturbed, ReceiveUndisturbed, RaiseUndisturbed
<1>3. CASE RunQuery \/ CreateConversation \/ RenameConversation \/ DeleteConversation \/ Choose
  BY <1>1, <1>3, EventsUndisturbed
<1>4. CASE Reload \/ SignOut
  BY <1>0, <1>1, <1>4, LoadUndisturbed DEF Reload, SignOut
<1>5. CASE Expire
  BY <1>1, <1>5, ExpireUndisturbed
<1>6. ASSUME NEW u \in User, SignIn(u) PROVE UndisturbedNow'
  BY <1>0, <1>1, <1>6, LoadUndisturbed DEF SignIn
<1>7. ASSUME NEW u \in User, Elsewhere(u) PROVE UndisturbedNow'
  BY <1>1, <1>7, ElsewhereUndisturbed
<1>8. CASE UNCHANGED webVars
  <2>1. UndisturbedNext
    BY <1>8 DEF webVars, UndisturbedNow, UndisturbedNext
  <2> QED
    BY <1>1, <2>1
<1> QED
  BY <1>2, <1>3, <1>4, <1>5, <1>6, <1>7, <1>8 DEF Next, Quiet

\* Whatever several handlers left behind, one that then runs alone and without failure
\* brings the page up to date with the server: nothing before the turns it shows changes a
\* conversation, and after anything that does the list is loaded again.
THEOREM AloneBringsUpToDate == Spec => []AloneIsConsistent
<1>1. UndisturbedNow => AloneIsConsistent
  <2>1. ListFor(page.user) = ListOf(server, page.user)
    BY DEF ListFor, ListOf, Own
  <2> QED
    BY <2>1 DEF UndisturbedNow, Undisturbed, Consistent, AloneIsConsistent
<1> QED
  BY InitSound, NextSound, InitUndisturbed, NextUndisturbed, <1>1, PTL DEF Spec
=============================================================================
