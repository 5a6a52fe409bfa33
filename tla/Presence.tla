------------------------------ MODULE Presence ------------------------------
(***************************************************************************)
(* What reaches a player and comes back: voice channels, game events,      *)
(* callbacks, messages and focus of the user interface, runtime textures   *)
(* and key bindings.  The machines voice, events, callbacks, focus,        *)
(* textures and input share no state.                                      *)
(***************************************************************************)
EXTENDS Integers, SequencesExt

CONSTANTS
    Talkers,        \* players on voice
    Channels,       \* ids that pass valid_id
    MaxMembers,     \* bound: max_members of a channel
    SeqSpace,       \* 2^32: sequence numbers of a producer
    MaxProduced,    \* bound: envelopes of the producer
    Pages,          \* resources with a user interface
    NoPage,
    Callbacks,      \* callback names
    MaxRequests,    \* bound: callback requests
    QueueCap,       \* capacity of the message queue
    MaxMessages,    \* bound: messages sent
    MaxDim,         \* MAX_DIMENSION
    PlainKeys,      \* keys of the catalog but the console key
    MaxBindings     \* bound: bindings made

ASSUME PresenceAssumption ==
    /\ {MaxMembers, MaxProduced, MaxRequests, MaxMessages, MaxBindings} \subseteq Nat
    /\ {QueueCap, MaxDim} \subseteq Nat \ {0} /\ NoPage \notin Pages
    /\ SeqSpace \in Nat \ {0} /\ SeqSpace % 2 = 0

With(f, k, v) == [x \in DOMAIN f \cup {k} |-> IF x = k THEN v ELSE f[x]]

Without(f, k) == [x \in DOMAIN f \ {k} |-> f[x]]

-----------------------------------------------------------------------------
(* Voice. *)

VARIABLES
    channels,       \* id -> capacity and members; a partial function
    muted, deafened

voiceVars == <<channels, muted, deafened>>

VoiceInit == channels = <<>> /\ muted = {} /\ deafened = {}

(* create: ids and frequencies are tokens; no duplicate; room for one. *)
create_channel(c, maxMembers) ==
    /\ c \notin DOMAIN channels
    /\ channels' = With(channels, c, [max |-> Max({maxMembers, 1}), members |-> {}])
    /\ UNCHANGED <<muted, deafened>>

drop_channel(c) ==
    /\ c \in DOMAIN channels
    /\ channels' = Without(channels, c)
    /\ UNCHANGED <<muted, deafened>>

(* Mutant: the capacity is compared with one member too many. *)
Room_off_by_one(c, p) == Cardinality(channels[c].members) <= channels[c].max \/ p \in channels[c].members

Room(c, p) == Cardinality(channels[c].members) < channels[c].max \/ p \in channels[c].members

join_channel(c, p) ==
    /\ c \in DOMAIN channels /\ Room(c, p)
    /\ channels' = [channels EXCEPT ![c].members = @ \cup {p}]
    /\ UNCHANGED <<muted, deafened>>

leave_channel(c, p) ==
    /\ c \in DOMAIN channels
    /\ channels' = [channels EXCEPT ![c].members = @ \ {p}]
    /\ UNCHANGED <<muted, deafened>>

mute(p, on) == muted' = (IF on THEN muted \cup {p} ELSE muted \ {p}) /\ UNCHANGED <<channels, deafened>>

deafen(p, on) == deafened' = (IF on THEN deafened \cup {p} ELSE deafened \ {p}) /\ UNCHANGED <<channels, muted>>

may_transmit(speaker, talking) == talking /\ speaker \notin muted

(* The speaker need not be a member. *)
recipients(speaker, c) ==
    IF c \in DOMAIN channels THEN channels[c].members \ ({speaker} \cup deafened) ELSE {}

VoiceNext ==
    \E p \in Talkers, c \in Channels :
        \/ \E m \in 0..MaxMembers : create_channel(c, m)
        \/ drop_channel(c) \/ join_channel(c, p) \/ leave_channel(c, p)
        \/ \E on \in BOOLEAN : mute(p, on) \/ deafen(p, on)

(* A channel never holds or fans out to more than its capacity, a speaker  *)
(* who is a member not counted, across joins, drops and re-creations with  *)
(* another capacity. *)
VoiceConfined ==
    \A c \in DOMAIN channels :
        /\ Cardinality(channels[c].members) <= channels[c].max
        /\ \A p \in Talkers : may_transmit(p, TRUE) =>
             Cardinality(recipients(p, c)) <= channels[c].max - (IF p \in channels[c].members THEN 1 ELSE 0)

-----------------------------------------------------------------------------
(* Game events.  Envelopes of one producer are numbered from 1; on the     *)
(* wire the number is taken modulo SeqSpace.  They can be repeated, lost   *)
(* and overtaken, by less than half the space. *)

VARIABLES
    produced,       \* envelopes the producer made
    transit,        \* numbers of those still on their way
    last_seq,       \* sequence number delivered last, or -1
    lastSent,       \* which envelope that was (history)
    subs,           \* ids of subscriptions
    next_sub,
    decoders        \* exact builds and editions with a decoder

eventVars == <<produced, transit, last_seq, lastSent, subs, next_sub, decoders>>

EventsInit ==
    /\ produced = 0 /\ transit = {} /\ last_seq = -1 /\ lastSent = 0
    /\ subs = {} /\ next_sub = 0 /\ decoders = {}

Envelope_new ==
    /\ produced < MaxProduced /\ produced + 1 - lastSent < SeqSpace \div 2
    /\ produced' = produced + 1
    /\ transit' = {n \in transit : produced + 1 - n < SeqSpace \div 2} \cup {produced + 1}
    /\ UNCHANGED <<last_seq, lastSent, subs, next_sub, decoders>>

(* Mutant: numbers are compared without the wrap. *)
seq_is_newer_plain(a, b) == a > b

(* Ahead by less than half the space. *)
seq_is_newer(a, b) == a # b /\ (a - b) % SeqSpace < SeqSpace \div 2

Fresh(n) == last_seq = -1 \/ seq_is_newer(n % SeqSpace, last_seq)

(* publish: a replay is dropped, anything else goes to the subscribers. *)
publish(n) ==
    /\ n \in transit /\ Fresh(n)
    /\ last_seq' = n % SeqSpace /\ lastSent' = n
    /\ UNCHANGED <<produced, transit, subs, next_sub, decoders>>

lose_envelope(n) ==
    /\ n \in transit
    /\ transit' = transit \ {n}
    /\ UNCHANGED <<produced, last_seq, lastSent, subs, next_sub, decoders>>

subscribe ==
    /\ next_sub < 1
    /\ subs' = subs \cup {next_sub} /\ next_sub' = next_sub + 1
    /\ UNCHANGED <<produced, transit, last_seq, lastSent, decoders>>

unsubscribe(id) ==
    /\ id \in subs
    /\ subs' = subs \ {id}
    /\ UNCHANGED <<produced, transit, last_seq, lastSent, next_sub, decoders>>

(* A second exact decoder of a build is refused; an edition's is replaced. *)
register_exact == "exact" \notin decoders /\ decoders' = decoders \cup {"exact"}
                  /\ UNCHANGED <<produced, transit, last_seq, lastSent, subs, next_sub>>

register_edition_default == decoders' = decoders \cup {"edition"}
                            /\ UNCHANGED <<produced, transit, last_seq, lastSent, subs, next_sub>>

resolve == IF "exact" \in decoders THEN "Exact"
           ELSE IF "edition" \in decoders THEN "EditionDefault" ELSE "Unregistered"

EventsNext ==
    \/ Envelope_new \/ subscribe \/ register_exact \/ register_edition_default
    \/ \E n \in transit : publish(n) \/ lose_envelope(n)
    \/ \E id \in subs : unsubscribe(id)

(* Across the wrap of the sequence space, an envelope is taken exactly if  *)
(* it was made after the one delivered last: no replay is delivered, none  *)
(* overtaken comes late, and nothing new is mistaken for a replay. *)
EventsOnce == \A n \in transit : Fresh(n) <=> n > lastSent

-----------------------------------------------------------------------------
(* Callbacks of the user interface. *)

VARIABLES
    handlers,       \* callback -> the resource that registered it
    asking,         \* id -> callback and resource of a pending request
    answers,        \* ids answered and not yet taken
    next_request,
    takenIds        \* ids whose answer was taken, one entry per time (history)

callbackVars == <<handlers, asking, answers, next_request, takenIds>>

CallbackInit == handlers = <<>> /\ asking = <<>> /\ answers = {} /\ next_request = 0 /\ takenIds = <<>>

register_callback(page, cb) ==
    /\ cb \notin DOMAIN handlers
    /\ handlers' = With(handlers, cb, page)
    /\ UNCHANGED <<asking, answers, next_request, takenIds>>

(* Requests of the callback stay pending. *)
unregister_callback(cb) ==
    /\ cb \in DOMAIN handlers
    /\ handlers' = Without(handlers, cb)
    /\ UNCHANGED <<asking, answers, next_request, takenIds>>

invoke(page, cb) ==
    /\ cb \in DOMAIN handlers /\ handlers[cb] = page /\ next_request < MaxRequests
    /\ asking' = With(asking, next_request, [callback |-> cb, page |-> page])
    /\ next_request' = next_request + 1
    /\ UNCHANGED <<handlers, answers, takenIds>>

(* Mutant: the answered request stays pending. *)
respond_keeps_pending(id) ==
    /\ id \notin answers /\ id \in DOMAIN asking
    /\ answers' = answers \cup {id}
    /\ UNCHANGED <<handlers, asking, next_request, takenIds>>

respond(id) ==
    /\ id \notin answers /\ id \in DOMAIN asking
    /\ asking' = Without(asking, id)
    /\ answers' = answers \cup {id}
    /\ UNCHANGED <<handlers, next_request, takenIds>>

take_response(id) ==
    /\ id \in answers /\ Len(takenIds) < MaxRequests + 1
    /\ answers' = answers \ {id}
    /\ takenIds' = Append(takenIds, id)
    /\ UNCHANGED <<handlers, asking, next_request>>

CallbackNext ==
    \/ \E page \in Pages, cb \in Callbacks :
         register_callback(page, cb) \/ unregister_callback(cb) \/ invoke(page, cb)
    \/ \E id \in 0..MaxRequests : respond(id) \/ take_response(id)

(* "Exactly-once responses": every request made is pending, or answered,   *)
(* or was taken, exactly one of the three and the last at most once, also  *)
(* when its callback was unregistered or changed hands meanwhile. *)
AnsweredOnce ==
    /\ IsInjective(takenIds)
    /\ \A id \in 0..(next_request - 1) :
         Cardinality({x \in {"asking", "answered", "taken"} :
             \/ x = "asking" /\ id \in DOMAIN asking
             \/ x = "answered" /\ id \in answers
             \/ x = "taken" /\ id \in ToSet(takenIds)}) = 1

-----------------------------------------------------------------------------
(* Messages to the interface, and its focus. *)

VARIABLES
    ui_open,        \* resources whose page is loaded
    focused,        \* the one with the focus, or NoPage
    grabbed,        \* cursor or keep_input
    messages,       \* queue of messages, numbered as they were sent
    messageCount, dropped, drained  \* sent, dropped and drained so far (the last: history)

focusVars == <<ui_open, focused, grabbed, messages, messageCount, dropped, drained>>

FocusInit ==
    /\ ui_open = {} /\ focused = NoPage /\ grabbed = FALSE
    /\ messages = <<>> /\ messageCount = 0 /\ dropped = 0 /\ drained = 0

(* Mutant: closing a page leaves the focus where it is. *)
Closed_keeps_focus(page) == UNCHANGED <<focused, grabbed>>

(* The focus of a page that closes goes, its grabs with it. *)
Closed(page) ==
    IF focused = page THEN focused' = NoPage /\ grabbed' = FALSE ELSE UNCHANGED <<focused, grabbed>>

set_ui_open(page, open) ==
    /\ ui_open' = IF open THEN ui_open \cup {page} ELSE ui_open \ {page}
    /\ IF open THEN UNCHANGED <<focused, grabbed>> ELSE Closed(page)
    /\ UNCHANGED <<messages, messageCount, dropped, drained>>

(* The focus on a page that is not open is refused. *)
set_focus(page, grab) ==
    /\ page = NoPage \/ page \in ui_open
    /\ focused' = page /\ grabbed' = (grab /\ page # NoPage)
    /\ UNCHANGED <<ui_open, messages, messageCount, dropped, drained>>

(* When the queue is full the oldest message is dropped. *)
send_message ==
    /\ messageCount < MaxMessages
    /\ messageCount' = messageCount + 1
    /\ messages' = Append(IF Len(messages) >= QueueCap THEN Tail(messages) ELSE messages, messageCount + 1)
    /\ dropped' = IF Len(messages) >= QueueCap THEN dropped + 1 ELSE dropped
    /\ UNCHANGED <<ui_open, focused, grabbed, drained>>

drain ==
    /\ drained' = drained + Len(messages)
    /\ messages' = <<>>
    /\ UNCHANGED <<ui_open, focused, grabbed, messageCount, dropped>>

FocusNext ==
    \/ \E page \in Pages, on \in BOOLEAN : set_ui_open(page, on) \/ set_focus(page, on)
    \/ set_focus(NoPage, FALSE) \/ send_message \/ drain

(* Input is never captured by a page that is gone, whatever opens, closes  *)
(* and changes of focus come in whatever order; and every message is       *)
(* queued, drained or counted as dropped, the newest ones being queued. *)
InputNeverStuck ==
    /\ focused # NoPage => focused \in ui_open
    /\ grabbed => focused # NoPage
    /\ messageCount = Len(messages) + drained + dropped
    /\ Len(messages) <= QueueCap
    /\ \A i \in DOMAIN messages : messages[i] = messageCount - Len(messages) + i

-----------------------------------------------------------------------------
(* Runtime textures and key bindings. *)

VARIABLES
    textures,       \* name -> width and url; a partial function
    bindings,       \* id -> key and press type of a binding; a partial function
    next_id,
    allow_console,
    everAllowed     \* was the console key ever allowed (history)

deviceVars == <<textures, bindings, next_id, allow_console, everAllowed>>

DeviceInit == textures = <<>> /\ bindings = <<>> /\ next_id = 0 /\ allow_console = FALSE /\ everAllowed = FALSE

bindingVars == <<bindings, next_id, allow_console, everAllowed>>

create_texture(t, width) ==
    /\ width \in 1..MaxDim /\ t \notin DOMAIN textures
    /\ textures' = With(textures, t, [width |-> width, url |-> ""])
    /\ UNCHANGED bindingVars

destroy_texture(t) == t \in DOMAIN textures /\ textures' = Without(textures, t) /\ UNCHANGED bindingVars

(* DuiUrlPolicy::check: what stands before "://", which is the whole of a  *)
(* url that has none. *)
url_allowed(url) == url \in {"http://page", "http"}

navigate(t, url) ==
    /\ url_allowed(url) /\ t \in DOMAIN textures
    /\ textures' = [textures EXCEPT ![t].url = url]
    /\ UNCHANGED bindingVars

(* forward_mouse on one axis: clamped into the texture. *)
forward_mouse(t, x) == Max({0, Min({x, textures[t].width - 1})})

ConsoleKey == "F8"

PressType == {"JustPressed", "Pressed", "JustReleased"}

Claims == [key : PlainKeys \cup {ConsoleKey}, press : PressType]

set_allow_console_key(on) ==
    /\ allow_console' = on /\ everAllowed' = (everAllowed \/ on)
    /\ UNCHANGED <<textures, bindings, next_id>>

(* Mutant: the console key is nobody's. *)
Bindable_any(key) == TRUE

Bindable(key) == key # ConsoleKey \/ allow_console

bind(claim) ==
    /\ Bindable(claim.key) /\ next_id < MaxBindings
    /\ bindings' = With(bindings, next_id, claim)
    /\ next_id' = next_id + 1
    /\ UNCHANGED <<textures, allow_console, everAllowed>>

unbind(id) ==
    /\ id \in DOMAIN bindings
    /\ bindings' = Without(bindings, id)
    /\ UNCHANGED <<textures, next_id, allow_console, everAllowed>>

(* Those that claim the key with the same press type. *)
resolve_for(claim) == {id \in DOMAIN bindings : bindings[id] = claim}

(* Mutant: bindings are grouped by key alone. *)
conflicts_by_key ==
    {[key |-> c.key, claimants |-> {id \in DOMAIN bindings : bindings[id].key = c.key}] : c \in
        {d \in Claims : Cardinality({id \in DOMAIN bindings : bindings[id].key = d.key}) > 1}}

(* The report names the key and the claimants, not the press type. *)
conflicts ==
    {[key |-> c.key, claimants |-> resolve_for(c)] : c \in {d \in Claims : Cardinality(resolve_for(d)) > 1}}

DeviceNext ==
    \/ \E t \in {"screen"} :
         \/ destroy_texture(t)
         \/ \E w \in 0..(MaxDim + 1) : create_texture(t, w)
         \/ \E url \in {"http://page", "http", "file://page", ""} : navigate(t, url)
    \/ \E on \in BOOLEAN : set_allow_console_key(on)
    \/ \E claim \in Claims : bind(claim)
    \/ \E id \in 0..MaxBindings : unbind(id)

(* Mouse input lands inside the texture as it is now, after any            *)
(* re-creation at another size; the console key is bound only by those who *)
(* came while it was allowed; and two bindings are reported as a conflict  *)
(* exactly if they claim one key with one press type. *)
DevicesSafe ==
    /\ \A t \in DOMAIN textures, x \in -1..(MaxDim + 1) : forward_mouse(t, x) \in 0..(textures[t].width - 1)
    /\ \A c \in Claims : c.key = ConsoleKey /\ resolve_for(c) # {} => everAllowed
    /\ \A i, j \in DOMAIN bindings : i # j =>
         ((\E e \in conflicts : {i, j} \subseteq e.claimants) <=>
             bindings[i].key = bindings[j].key /\ bindings[i].press = bindings[j].press)

(* What reaches a player and comes back: a voice channel keeps to its      *)
(* capacity, a game event is never replayed across the wrap of its number, *)
(* a page's request is answered once, no page that is gone keeps the       *)
(* input, the mouse stays in the texture, the console key is bound only by *)
(* leave, and conflicts of key bindings are reported exactly.              *)
PresenceSound == VoiceConfined /\ EventsOnce /\ AnsweredOnce /\ InputNeverStuck /\ DevicesSafe
=============================================================================
