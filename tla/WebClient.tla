------------------------------ MODULE WebClient ------------------------------
(***************************************************************************)
(* app.js, the page of the interactive console, over the conversation API. *)
(* An event handler runs without interruption from one await of a request  *)
(* to the next, so a call is what its handler has still to do, the request *)
(* it awaits first.  The handlers of other events run in between; answers  *)
(* arrive in any order.  A navigation drops every call and keeps what is   *)
(* in the session storage.  Conversations also change elsewhere.           *)
(***************************************************************************)
EXTENDS Lists, SequencesExt

CONSTANTS
    User, Conv, Slot,   \* Slot bounds the calls in flight
    Capable,            \* users with a capability in the catalog
    Refreshable,        \* users whose sessions come with a refresh token
    Limit,              \* of the list of conversations; 50 in the code
    Existing, OwnerOf,  \* the conversations there are at first, and whose they are
    TurnLimit,          \* of the turns a request for turns answers with; 50 in the code
    MaxTurns,           \* bound: turns of a conversation
    MaxEvents,          \* bound: what users and the clock do
    None

ASSUME WebAssumption ==
    /\ Capable \cup Refreshable \subseteq User /\ {Limit, TurnLimit} \subseteq Nat \ {0}
    /\ {MaxTurns, MaxEvents} \subseteq Nat
    /\ Existing \in Seq(Conv) /\ IsInjective(Existing)
    /\ OwnerOf \in [Conv -> User \cup {None}]
    /\ \A c \in Conv : OwnerOf[c] # None <=> Contains(Existing, c)
    /\ None \notin User \cup Conv \cup {"current", "expired"}

VARIABLES
    page,        \* the globals of app.js and the parts of the document they show
    calls,       \* slot -> the call of an event handler in flight, or None
    server,      \* what the API answers from
    failed,      \* a request of this page was refused
    events,      \* how many events there were
    settled      \* what the call that ended last, alone and without failure, brought up

webVars == <<page, calls, server, failed, events, settled>>

-----------------------------------------------------------------------------
(* State *)

Listing == {s \in Seq(Conv) : IsInjective(s)}

\* The turns of a conversation, by their sequence numbers.
Turn == 1..MaxTurns

\* options and value are the list element, turns the conversation whose turns are shown.
Page == [user : User \cup {None}, token : {None, "current", "expired"}, selected : Conv \cup {None},
         conversations : Listing, options : Listing, value : Conv \cup {None},
         capabilities : BOOLEAN, submit : BOOLEAN, new : BOOLEAN, list : BOOLEAN,
         change : BOOLEAN, turns : Conv \cup {None}, shown : SUBSET Turn]

\* conv is what the request names; renewed: currentAccessToken has already refreshed.
Item == [do : {"exchange", "catalog", "list", "turns", "create", "rename", "delete",
               "query", "enable"},
         conv : Conv \cup {None}, renewed : BOOLEAN]

Answer == [conv : Conv \cup {None}, convs : Listing, shown : SUBSET Turn]
Call == [kind : {"load", "query", "create", "rename", "delete", "choose"},
         todo : Seq(Item), state : {"asked", "answered"}, answer : Answer,
         alone : BOOLEAN, listed : BOOLEAN]

ASSUME NoneAssumption == None \notin Call

\* recent: the active conversations, the one updated last first.
Server == [recent : Listing, owner : [Conv -> User \cup {None}], turns : [Conv -> 0..MaxTurns]]

TypeOK ==
    /\ page \in Page
    /\ calls \in [Slot -> Call \cup {None}]
    /\ server \in Server
    /\ failed \in BOOLEAN
    /\ events \in 0..MaxEvents
    /\ settled \in {"no", "turns", "all"}

Do(what) == [do |-> what, conv |-> None, renewed |-> FALSE]
DoWith(what, c) == [do |-> what, conv |-> c, renewed |-> FALSE]
NoAnswer == [conv |-> None, convs |-> <<>>, shown |-> {}]

RenderSession == <<Do("catalog"), Do("list"), Do("enable")>>

\* A handler that starts.
NewCall(kind, todo, alone) ==
    [kind |-> kind, todo |-> todo, state |-> "asked", answer |-> NoAnswer,
     alone |-> alone, listed |-> FALSE]

\* A page as it is loaded.
Loaded(u, token, selected) ==
    [user |-> u, token |-> token, selected |-> selected, conversations |-> <<>>,
     options |-> <<>>, value |-> None, capabilities |-> FALSE, submit |-> FALSE,
     new |-> FALSE, list |-> FALSE, change |-> FALSE, turns |-> None, shown |-> {}]

\* Nobody is signed in, or somebody just has: the page asks for the catalog.
Init ==
    /\ \E u \in User \cup {None} :
          /\ page = Loaded(u, IF u = None THEN None ELSE "current", None)
          /\ \E first \in Slot : calls =
                [s \in Slot |-> IF u # None /\ s = first
                                THEN NewCall("load", RenderSession, TRUE) ELSE None]
    /\ server = [recent |-> Existing, owner |-> OwnerOf, turns |-> [c \in Conv |-> 0]]
    /\ failed = FALSE
    /\ events = 0
    /\ settled = "no"

Event == events < MaxEvents /\ events' = events + 1

InFlight == {s \in Slot : calls[s] # None}

-----------------------------------------------------------------------------
(* The functions that do not await *)

SetConversationControlsEnabled(p, on) ==
    [p EXCEPT !.new = on, !.list = on /\ p.conversations # <<>>,
              !.change = on /\ p.selected # None]

SetQueryEnabled(p, on) ==
    [SetConversationControlsEnabled(p, on) EXCEPT !.submit = on]

ClearSession(p) ==
    [p EXCEPT !.token = None, !.conversations = <<>>, !.selected = None]

RenderConversations(p) ==
    SetConversationControlsEnabled(
        [p EXCEPT !.options = p.conversations,
                  !.value = IF Contains(p.conversations, p.selected) THEN p.selected ELSE None],
        p.token # None /\ p.capabilities)

RenderTurns(p, c, turns) == [p EXCEPT !.turns = c, !.shown = turns]

\* Mutant: what was selected before stays selected.
SelectKept(p, convs) ==
    [p EXCEPT !.conversations = convs,
              !.selected = IF p.selected = None /\ convs # <<>> THEN convs[1] ELSE p.selected]

\* The selection of loadConversations.
Select(p, convs) ==
    [p EXCEPT !.conversations = convs,
              !.selected = CASE Contains(convs, p.selected) -> p.selected
                             [] ~Contains(convs, p.selected) /\ convs # <<>> -> convs[1]
                             [] OTHER -> None]

-----------------------------------------------------------------------------
(* Calls *)

\* Mutant: the submit button stays as it is when the query has ended.
ConcludeOnly(p, kind) == p

\* The finally block of runQuery.
Conclude(p, kind) ==
    IF kind = "query" THEN [p EXCEPT !.submit = p.token # None /\ p.capabilities] ELSE p

Ended(p, call) == [page |-> Conclude(p, call.kind), call |-> None, threw |-> FALSE]

\* The catch blocks: initialize clears the session, the others show a message.
Thrown(p, call) ==
    [page |-> IF call.kind = "load" THEN SetQueryEnabled(ClearSession(p), FALSE)
              ELSE Conclude(p, call.kind),
     call |-> None, threw |-> TRUE]

Sent(p, call, todo) ==
    [page |-> p, call |-> [call EXCEPT !.todo = todo, !.state = "asked", !.answer = NoAnswer],
     threw |-> FALSE]

\* The query names the conversation that is selected when it is sent.
Named(p, item) == IF item.do = "query" THEN [item EXCEPT !.conv = p.selected] ELSE item

\* currentAccessToken, and the request.  A refresh renders the session again before the
\* request is sent; a session that cannot be refreshed ends.
Request(p, call, todo) ==
    LET item == Head(todo) IN
    CASE p.token = None -> Thrown(p, call)
      [] p.token = "current" \/ (p.token = "expired" /\ item.renewed) ->
           Sent(p, call, <<Named(p, item)>> \o Tail(todo))
      [] p.token = "expired" /\ ~item.renewed /\ p.user \in Refreshable ->
           Sent(p, call, <<Do("exchange")>> \o RenderSession
                         \o <<[item EXCEPT !.renewed = TRUE]>> \o Tail(todo))
      [] OTHER -> Thrown(SetQueryEnabled(ClearSession(p), FALSE), call)

Enabled(p) == SetQueryEnabled(p, p.capabilities)

\* Up to the next await, or to the end of the handler.
Proceed(p, call, todo) ==
    CASE todo = <<>> -> Ended(p, call)
      [] todo = <<Do("enable")>> -> Ended(Enabled(p), call)
      [] Len(todo) > 1 /\ Head(todo).do = "enable" -> Request(Enabled(p), call, Tail(todo))
      [] OTHER -> Request(p, call, todo)

\* Mutant: loadConversations leaves the turns as they are.
ContinueWithoutTurns(p, item, answer) ==
    CASE item.do = "list" ->
           [page |-> RenderConversations(Select(p, answer.convs)), first |-> <<>>]
      [] item.do = "turns" ->
           [page |-> RenderTurns(p, item.conv, answer.shown), first |-> <<>>]
      [] item.do \in {"create", "delete"} \/ (item.do = "query" /\ answer.conv # None) ->
           [page |-> [p EXCEPT !.selected = answer.conv],
            first |-> IF item.do = "query" THEN <<Do("list")>> ELSE <<>>]
      [] item.do = "exchange" ->
           [page |-> SetQueryEnabled([p EXCEPT !.token = "current"], FALSE), first |-> <<>>]
      [] item.do = "catalog" ->
           [page |-> [p EXCEPT !.capabilities = p.user \in Capable], first |-> <<>>]
      [] OTHER -> [page |-> p, first |-> <<>>]

\* What the handler does with the answer it awaited: the page, and what it has to do
\* before the rest.
Continue(p, item, answer) ==
    CASE item.do = "exchange" ->
           [page |-> SetQueryEnabled([p EXCEPT !.token = "current"], FALSE), first |-> <<>>]
      [] item.do = "catalog" ->
           [page |-> [p EXCEPT !.capabilities = p.user \in Capable], first |-> <<>>]
      [] item.do = "list" ->
           LET q == RenderConversations(Select(p, answer.convs)) IN
           IF q.selected # None THEN [page |-> q, first |-> <<DoWith("turns", q.selected)>>]
                                ELSE [page |-> RenderTurns(q, None, {}), first |-> <<>>]
      [] item.do = "turns" ->
           [page |-> RenderTurns(p, item.conv, answer.shown), first |-> <<>>]
      [] item.do = "create" -> [page |-> [p EXCEPT !.selected = answer.conv], first |-> <<>>]
      [] item.do = "delete" -> [page |-> [p EXCEPT !.selected = None], first |-> <<>>]
      [] item.do = "query" /\ answer.conv # None ->
           [page |-> [p EXCEPT !.selected = answer.conv], first |-> <<Do("list")>>]
      [] OTHER -> [page |-> p, first |-> <<>>]

-----------------------------------------------------------------------------
(* The server *)

Own(u) == Keep(server.recent, {c \in Conv : server.owner[c] = u})
ListFor(u) == SubSeq(Own(u), 1, IF Len(Own(u)) < Limit THEN Len(Own(u)) ELSE Limit)
Has(u, c) == c # None /\ Contains(Own(u), c)

Without(c) == Keep(server.recent, Conv \ {c})

\* Mutant: the conversation appears a second time.
TouchTwice(c) == <<c>> \o server.recent

\* A creation or a renaming sets updated_at, by which conversations are listed.
Touch(c) == <<c>> \o Without(c)

CreateFor(u, c) == /\ server.owner[c] = None
                   /\ server' = [server EXCEPT !.recent = Touch(c), !.owner[c] = u]
RenameOf(c) == server' = [server EXCEPT !.recent = Touch(c)]
DeleteOf(c) == server' = [server EXCEPT !.recent = Without(c)]
\* A turn leaves updated_at as it is.
AddTurn(c) == server.turns[c] < MaxTurns /\ server' = [server EXCEPT !.turns[c] = @ + 1]

Reply(s, answer) ==
    calls' = [calls EXCEPT ![s].state = "answered", ![s].answer = answer]
Replied(s, c) == Reply(s, [NoAnswer EXCEPT !.conv = c])

Asked(s, what) == /\ calls[s] # None /\ calls[s].state = "asked"
                  /\ Head(calls[s].todo).do = what
ConvOf(s) == Head(calls[s].todo).conv

\* Of n turns, the latest TurnLimit.
Recent(n) == {t \in 1..n : n - t < TurnLimit}

HandleRead(s) ==
    /\ \/ Asked(s, "list") /\ Reply(s, [NoAnswer EXCEPT !.convs = ListFor(page.user)])
       \/ /\ Asked(s, "turns") /\ Has(page.user, ConvOf(s))
          /\ Reply(s, [NoAnswer EXCEPT !.shown = Recent(server.turns[ConvOf(s)])])
    /\ UNCHANGED <<page, server, failed, events, settled>>

HandleCreate(s) ==
    /\ Asked(s, "create")
    /\ \E c \in Conv : CreateFor(page.user, c) /\ Replied(s, c)
    /\ UNCHANGED <<page, failed, events, settled>>

HandleRename(s) ==
    /\ Asked(s, "rename") /\ Has(page.user, ConvOf(s))
    /\ RenameOf(ConvOf(s))
    /\ Replied(s, ConvOf(s))
    /\ UNCHANGED <<page, failed, events, settled>>

HandleDelete(s) ==
    /\ Asked(s, "delete") /\ Has(page.user, ConvOf(s))
    /\ DeleteOf(ConvOf(s))
    /\ Replied(s, None)
    /\ UNCHANGED <<page, failed, events, settled>>

\* A pipeline with a conversation adds a turn to the one that is named, or to a new
\* one; a pipeline without answers without one.
HandleQuery(s) ==
    /\ Asked(s, "query")
    /\ \/ Has(page.user, ConvOf(s)) /\ AddTurn(ConvOf(s)) /\ Replied(s, ConvOf(s))
       \/ /\ ConvOf(s) = None
          /\ \E c \in Conv : CreateFor(page.user, c) /\ Replied(s, c)
       \/ Replied(s, None) /\ UNCHANGED server
    /\ UNCHANGED <<page, failed, events, settled>>

Handle(s) == HandleRead(s) \/ HandleCreate(s) \/ HandleRename(s)
             \/ HandleDelete(s) \/ HandleQuery(s)

-----------------------------------------------------------------------------
(* The page *)

\* A change of the list shows turns only.  If its request refreshed the token, the list
\* may have changed and with it the selection: the turns are those of the one chosen.
SettledBy(kind, listed) == CASE kind = "choose" /\ ~listed -> "turns"
                             [] kind # "choose" /\ listed -> "all"
                             [] OTHER -> "no"

\* The answer of the awaited request arrives, and the handler goes on.
Receive(s) == LET call == calls[s]
                  item == Head(call.todo)
                  next == Continue(page, item, call.answer)
                  after == [call EXCEPT !.listed = @ \/ item.do = "list"]
                  result == Proceed(next.page, after, next.first \o Tail(call.todo))
              IN
    /\ call # None
    /\ call.state = "answered" \/ item.do \in {"exchange", "catalog"}
    /\ page' = result.page
    /\ calls' = [calls EXCEPT ![s] = result.call]
    /\ failed' = (failed \/ result.threw)
    /\ settled' = IF result.call = None /\ ~result.threw /\ call.alone
                  THEN SettledBy(call.kind, after.listed) ELSE "no"
    /\ UNCHANGED <<server, events>>

\* The request fails, before the server took it or after, and the await raises.
Raise(s) ==
    /\ calls[s] # None
    /\ page' = Thrown(page, calls[s]).page
    /\ calls' = [calls EXCEPT ![s] = None]
    /\ failed' = TRUE /\ settled' = "no"
    /\ UNCHANGED <<server, events>>

\* An event starts its handler on p.
Start(kind, p, todo) ==
    \E s \in Slot : LET call == NewCall(kind, <<>>, InFlight = {})
                        result == Proceed(p, call, todo) IN
        /\ Event /\ calls[s] = None
        /\ page' = result.page
        /\ calls' = [t \in Slot |->
              CASE t = s -> result.call
                [] t # s /\ calls[t] # None -> [calls[t] EXCEPT !.alone = FALSE]
                [] OTHER -> None]
        /\ failed' = (failed \/ result.threw) /\ settled' = "no"
        /\ UNCHANGED server

RunQuery ==
    /\ page.submit
    /\ Start("query", [page EXCEPT !.submit = FALSE],
             (IF page.selected = None THEN <<Do("create"), Do("list")>> ELSE <<>>)
             \o <<Do("query")>>)

CreateConversation ==
    /\ page.new
    /\ Start("create", page, <<Do("create"), Do("list")>>)

RenameConversation ==
    /\ page.change /\ page.selected # None
    /\ Start("rename", page, <<DoWith("rename", page.selected), Do("list")>>)

DeleteConversation ==
    /\ page.change /\ page.selected # None
    /\ Start("delete", page, <<DoWith("delete", page.selected), Do("list")>>)

\* The change event of the list.
Choose == \E c \in ToSet(page.options) \ {page.value} :
    /\ page.list
    /\ Start("choose", RenderConversations([page EXCEPT !.selected = c]), <<DoWith("turns", c)>>)

\* The page is loaded: again, or from the identity provider.  The calls are gone.
Load(u, token, selected) ==
    LET p == Loaded(u, token, selected)
        result == Proceed(p, NewCall("load", <<>>, TRUE), RenderSession)
    IN \E s \in Slot :
        /\ Event
        /\ page' = IF token = None THEN p ELSE result.page
        /\ calls' = [t \in Slot |-> IF t = s /\ token # None THEN result.call ELSE None]
        /\ failed' = (token # None /\ result.threw) /\ settled' = "no"
        /\ UNCHANGED server

Reload == page.user # None /\ Load(page.user, page.token, page.selected)

SignOut == page.token # None /\ Load(None, None, None)

SignIn(u) ==
    /\ page.token = None
    /\ Load(u, "current", page.selected)

Expire ==
    /\ Event /\ page.token = "current"
    /\ page' = [page EXCEPT !.token = "expired"]
    /\ UNCHANGED <<calls, server, failed, settled>>

\* The same user, or another one, at another page; or what the server still does for
\* a call that a navigation dropped.
Elsewhere(u) ==
    /\ Event
    /\ \E c \in Conv : \/ CreateFor(u, c)
                       \/ Has(u, c) /\ (RenameOf(c) \/ DeleteOf(c) \/ AddTurn(c))
    /\ calls' = [s \in Slot |-> IF calls[s] = None THEN None
                                ELSE [calls[s] EXCEPT !.alone = FALSE]]
    /\ settled' = "no"
    /\ UNCHANGED <<page, failed>>

\* Nothing is awaited and the users have stopped.
Quiet == InFlight = {} /\ events = MaxEvents /\ UNCHANGED webVars

Next ==
    \/ \E s \in Slot : Handle(s) \/ Receive(s) \/ Raise(s)
    \/ RunQuery \/ CreateConversation \/ RenameConversation \/ DeleteConversation \/ Choose
    \/ Reload \/ SignOut \/ Expire
    \/ \E u \in User : SignIn(u) \/ Elsewhere(u)
    \/ Quiet

Spec == Init /\ [][Next]_webVars

-----------------------------------------------------------------------------
(* Properties *)

\* A request never names a conversation of somebody else, whatever the session storage
\* kept from an earlier session and whatever answers arrive late.
NamedAreOwn == \A s \in InFlight :
    ConvOf(s) # None => server.owner[ConvOf(s)] = page.user

\* Whatever several handlers left behind, one that then runs alone and without failure
\* brings the page up to date: the listed conversations are the user's, one of them is
\* selected, and its latest turns are shown, as many as one answer holds.
AloneIsConsistent ==
    /\ settled # "no" => page.turns = page.selected /\ page.value = page.selected
    /\ settled = "all" =>
          /\ page.conversations = ListFor(page.user)
          /\ IF page.selected = None THEN page.conversations = <<>>
             ELSE /\ Contains(page.conversations, page.selected)
                  /\ page.shown = Recent(server.turns[page.selected])

\* When nothing is awaited and nothing has failed, however the handlers overlapped, the
\* page is usable and its controls act on what they show: the list shows what is
\* loaded and what is selected, and everything is enabled that has an object.
QuietIsUsable == InFlight = {} /\ ~failed /\ page.token # None =>
    /\ page.options = page.conversations /\ page.value = page.selected
    /\ page.submit = page.capabilities /\ page.new = page.capabilities
    /\ page.list = (page.capabilities /\ page.conversations # <<>>)
    /\ page.change = (page.capabilities /\ page.selected # None)
=============================================================================
