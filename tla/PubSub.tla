------------------------------- MODULE PubSub -------------------------------
(* Publish/Subscribe (pubsub.c). A subscription is held twice: a client has  *)
(* the channels and the patterns it listens to, and the server has, for each *)
(* channel, the list of its clients, and one list of patterns with their     *)
(* clients. Commands run one at a time; told is what the last one sent.      *)
EXTENDS Integers, Sequences, FiniteSets, SequencesExt

CONSTANTS
  Subscriber, \* the connections
  Channel,    \* the names of channels
  Pattern,    \* the patterns
  MatchedBy,  \* pattern -> the channels that it matches (stringmatchlen)
  Names,      \* client -> the channels and patterns that its commands name
  MaxArgs     \* bound: arguments of a command

VARIABLES
  sub,        \* client -> [channels: set, patterns: list, pubsub: its flag]
  channels,   \* server.pubsub_channels: channel -> list of clients
  patterns,   \* server.pubsub_patterns: list of [client, pattern]
  told,       \* what the last command sent, in order
  last        \* the last command: its name, client and answer

psVars == <<sub, channels, patterns, told, last>>

Fresh == [channels |-> {}, patterns |-> <<>>, pubsub |-> FALSE]
NoArg == "none"

PsInit ==
  /\ sub = [c \in Subscriber |-> Fresh]
  /\ channels = <<>> /\ patterns = <<>>
  /\ told = <<>> /\ last = [op |-> NoArg, client |-> NoArg, arg |-> NoArg, n |-> 0]

-----------------------------------------------------------------------------
(* The loops of the commands go over the whole state, held in a record.      *)
Tables == [sub |-> sub, channels |-> channels, patterns |-> patterns, told |-> <<>>]

ClientSubscriptionsCount(s, c) ==
  Cardinality(s.sub[c].channels) + Len(s.sub[c].patterns)

Notify(s, c, kind, what) ==
  [s EXCEPT !.told = Append(@, [to |-> c, kind |-> kind, what |-> what,
                                n |-> ClientSubscriptionsCount(s, c)])]

ClientsOf(s, ch) == IF ch \in DOMAIN s.channels THEN s.channels[ch] ELSE <<>>

SetList(f, ch, list) ==
  [x \in (DOMAIN f \cup {ch}) \ {y \in {ch} : list = <<>>} |-> IF x = ch THEN list ELSE f[x]]

PubsubSubscribeChannel(s, c, ch) ==
  Notify(IF ch \in s.sub[c].channels THEN s
         ELSE [s EXCEPT !.sub[c].channels = @ \cup {ch},
                        !.channels = SetList(@, ch, Append(ClientsOf(s, ch), c))],
         c, "subscribe", ch)

(* A list that has become empty leaves the table.                            *)
PubsubUnsubscribeChannel(s, c, ch, notify) ==
  LET gone == IF ch \notin s.sub[c].channels THEN s
              ELSE [s EXCEPT !.sub[c].channels = @ \ {ch},
                             !.channels = SetList(@, ch, RemoveFirst(ClientsOf(s, ch), c))]
  IN  IF notify THEN Notify(gone, c, "unsubscribe", ch) ELSE gone

PubsubSubscribePattern(s, c, p) ==
  Notify(IF Contains(s.sub[c].patterns, p) THEN s
         ELSE [s EXCEPT !.sub[c].patterns = Append(@, p),
                        !.patterns = Append(@, [client |-> c, pattern |-> p])],
         c, "psubscribe", p)

PubsubUnsubscribePattern(s, c, p, notify) ==
  LET gone == IF ~Contains(s.sub[c].patterns, p) THEN s
              ELSE [s EXCEPT !.sub[c].patterns = RemoveFirst(@, p),
                             !.patterns = RemoveFirst(@, [client |-> c, pattern |-> p])]
  IN  IF notify THEN Notify(gone, c, "punsubscribe", p) ELSE gone

(* The iterators are safe: each entry is seen, in an order of no matter for  *)
(* the tables. Nothing to leave is answered too.                             *)
PubsubUnsubscribeAllChannels(s, c, notify) ==
  IF notify /\ s.sub[c].channels = {}
  THEN Notify(s, c, "unsubscribe", NoArg)
  ELSE FoldLeft(LAMBDA t, ch : PubsubUnsubscribeChannel(t, c, ch, notify),
                s, SetToSeq(s.sub[c].channels))

PubsubUnsubscribeAllPatterns(s, c, notify) ==
  IF notify /\ s.sub[c].patterns = <<>>
  THEN Notify(s, c, "punsubscribe", NoArg)
  ELSE FoldLeft(LAMBDA t, p : PubsubUnsubscribePattern(t, c, p, notify),
                s, s.sub[c].patterns)

(* pubsubPublishMessage: the clients of the channel, then the patterns.      *)
PubsubPublishMessage(s, ch) ==
  LET direct == ClientsOf(s, ch)
      matching == SelectSeq(s.patterns, LAMBDA e : ch \in MatchedBy[e.pattern])
  IN  [i \in DOMAIN direct |->
         [to |-> direct[i], kind |-> "message", what |-> ch, n |-> 0]]
      \o [i \in DOMAIN matching |->
         [to |-> matching[i].client, kind |-> "pmessage", what |-> matching[i].pattern, n |-> 0]]

-----------------------------------------------------------------------------
(* The commands                                                              *)
Args(S) == UNION {[1..n -> S] : n \in 0..MaxArgs}

CommandDone(s, op, c, arg) ==
  /\ sub' = s.sub /\ channels' = s.channels /\ patterns' = s.patterns /\ told' = s.told
  /\ last' = [op |-> op, client |-> c, arg |-> arg, n |-> Len(s.told)]

Enter(s, c) == [s EXCEPT !.sub[c].pubsub = TRUE]
Leave(s, c) == IF ClientSubscriptionsCount(s, c) = 0 THEN [s EXCEPT !.sub[c].pubsub = FALSE] ELSE s

SubscribeCommand(c, args) ==
  /\ args # <<>>
  /\ CommandDone(Enter(FoldLeft(LAMBDA t, ch : PubsubSubscribeChannel(t, c, ch), Tables, args), c),
             "subscribe", c, NoArg)

UnsubscribeCommand(c, args) ==
  CommandDone(Leave(IF args = <<>> THEN PubsubUnsubscribeAllChannels(Tables, c, TRUE)
                ELSE FoldLeft(LAMBDA t, ch : PubsubUnsubscribeChannel(t, c, ch, TRUE),
                              Tables, args), c),
          "unsubscribe", c, NoArg)

PsubscribeCommand(c, args) ==
  /\ args # <<>>
  /\ CommandDone(Enter(FoldLeft(LAMBDA t, p : PubsubSubscribePattern(t, c, p), Tables, args), c),
             "psubscribe", c, NoArg)

PunsubscribeCommand(c, args) ==
  CommandDone(Leave(IF args = <<>> THEN PubsubUnsubscribeAllPatterns(Tables, c, TRUE)
                ELSE FoldLeft(LAMBDA t, p : PubsubUnsubscribePattern(t, c, p, TRUE),
                              Tables, args), c),
          "punsubscribe", c, NoArg)

(* Of a client that listens, processCommand takes no other command.          *)
PublishCommand(c, ch) ==
  /\ ~sub[c].pubsub
  /\ CommandDone([Tables EXCEPT !.told = PubsubPublishMessage(Tables, ch)], "publish", c, ch)

(* PUBSUB NUMSUB ch; CHANNELS and NUMPAT read the same tables.               *)
PubsubCommand(c, ch) ==
  /\ ~sub[c].pubsub
  /\ told' = <<>>
  /\ last' = [op |-> "numsub", client |-> c, arg |-> ch, n |-> Len(ClientsOf(Tables, ch))]
  /\ UNCHANGED <<sub, channels, patterns>>

(* freeClient: the connection ends; a new one may take its place.            *)
FreeSubscriber(c) ==
  LET s == PubsubUnsubscribeAllPatterns(PubsubUnsubscribeAllChannels(Tables, c, FALSE), c, FALSE)
  IN  CommandDone([s EXCEPT !.sub[c].pubsub = FALSE], "free", c, NoArg)

PsNext ==
  \E c \in Subscriber :
    \/ \E args \in Args(Names[c].channels) : SubscribeCommand(c, args) \/ UnsubscribeCommand(c, args)
    \/ \E args \in Args(Names[c].patterns) : PsubscribeCommand(c, args) \/ PunsubscribeCommand(c, args)
    \/ \E ch \in Channel : PublishCommand(c, ch) \/ PubsubCommand(c, ch)
    \/ FreeSubscriber(c)

-----------------------------------------------------------------------------
Distinct(s) == \A i, j \in DOMAIN s : s[i] = s[j] => i = j

\* The tables of the clients and of the server hold the same subscriptions, each
\* once, with no list left empty; the assertions of pubsubUnsubscribeChannel
\* hold. A client is in Pub/Sub mode exactly while it listens to something.
SubscriptionsAgree ==
  /\ \A ch \in Channel :
       /\ ToSet(ClientsOf(Tables, ch)) = {c \in Subscriber : ch \in sub[c].channels}
       /\ Distinct(ClientsOf(Tables, ch))
  /\ \A ch \in DOMAIN channels : channels[ch] # <<>>
  /\ \A c \in Subscriber :
       /\ SelectSeq(patterns, LAMBDA e : e.client = c) =
            [i \in DOMAIN sub[c].patterns |-> [client |-> c, pattern |-> sub[c].patterns[i]]]
       /\ Distinct(sub[c].patterns)
       /\ sub[c].pubsub = (ClientSubscriptionsCount(Tables, c) > 0)

\* A message reaches each client once for its channel and once for each of its
\* patterns that match, PUBLISH answers how many times it was sent, and PUBSUB
\* NUMSUB how many clients the channel has (pubsubPublishMessage, pubsubCommand).
\* The last confirmation of a command tells the count that holds from then on.
PublishedExactly ==
  /\ last.op = "publish" =>
       /\ \A c \in Subscriber :
            Cardinality({i \in DOMAIN told : told[i].to = c}) =
              Cardinality({x \in {last.arg} : x \in sub[c].channels})
              + Cardinality({p \in ToSet(sub[c].patterns) : last.arg \in MatchedBy[p]})
       /\ last.n = Len(told)
  /\ last.op = "numsub" =>
       last.n = Cardinality({c \in Subscriber : last.arg \in sub[c].channels})
  /\ last.op \in {"subscribe", "unsubscribe", "psubscribe", "punsubscribe"} =>
       /\ told # <<>>
       /\ told[Len(told)].n = ClientSubscriptionsCount(Tables, last.client)
=============================================================================
