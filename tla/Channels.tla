------------------------------ MODULE Channels ------------------------------
(***************************************************************************)
(* The content of one community: the MySQL tables channel_groups,         *)
(* channels and messages, the selected_channel_id column of              *)
(* communities_users, the Redis message-reactions keys, and the POSTs     *)
(* that hand a new message to the hub (src/handlers/create_message.go,    *)
(* edit_message.go, react_to_message.go, create_channel.go,               *)
(* edit_channel.go, delete_channel.go, create_group.go, delete_group.go,  *)
(* channel_select.go).                                                    *)
(*                                                                         *)
(* A handler that reads rows before its transaction is split at that      *)
(* point: its first step reads (the request keeps what it saw), its       *)
(* second runs the writes and the commit, which MySQL serialises on the   *)
(* row locks.  CreateMessage keeps its InnoDB snapshot (REPEATABLE READ:  *)
(* taken at the first read of the transaction) between the two steps.     *)
(* Each line of text is one CreateMessage request; every other request    *)
(* is made by a user that waits for the answer to its previous one.       *)
(* Permission checks are the PermissionCache model's and always pass here.*)
(***************************************************************************)
EXTENDS Naturals, Sequences, SequencesExt, FiniteSets

CONSTANTS
    Users,      \* user ids
    Owner,      \* community.OwnerID
    Groups,     \* channel_groups ids
    Chans,      \* channels ids
    Lines,      \* the text of each CreateMessage request
    EditLine,   \* the text an EditMessage request sets
    FirstGroup, \* "Text channels", created with the community
    FirstChan,  \* "chit chat", created with the community
    NoGroup,    \* group_id 0: a top-level channel
    NoChan,     \* selected_channel_id 0
    Ops         \* the handlers that run in a given model

VARIABLES
    groups,     \* live channel_groups rows
    channels,   \* live channels rows
    groupOf,    \* channels.group_id
    made,       \* ids AUTO_INCREMENT has handed out (never reused)
    selected,   \* communities_users.selected_channel_id
    msgs,       \* messages rows by id (1..Len), deleted ones not live
    creates,    \* each CreateMessage request
    pend,       \* the request a user waits on, between its two steps
    reacted,    \* Redis message-reactions-<id>: pairs <<id, user>>
    setters,    \* Redis Set goroutines spawned by ReactToMessage
    shown,      \* per message id, the text of the last broadcast the hub
                \* took for it: what a subscriber shows
    toggled     \* history: <<id, user>> pairs the user asked an odd
                \* number of times to react to

vars == <<groups, channels, groupOf, made, selected, msgs, creates, pend,
          reacted, setters, shown, toggled>>

Msg == [chan: Chans, user: Users, lines: Seq(Lines \cup {EditLine}),
        files: BOOLEAN, parent: Nat, live: BOOLEAN, edited: BOOLEAN]

NoMsg == [chan |-> NoChan, user |-> NoChan, lines |-> <<>>, files |-> FALSE,
          parent |-> 0, live |-> FALSE, edited |-> FALSE]

Idle == [op |-> "none"]

(* Message ids AUTO_INCREMENT can hand out: one per line at most.         *)
MsgIds == 1..Cardinality(Lines)

Ids == 1..Len(msgs)

LiveIds == {i \in Ids : msgs[i].live}

(* SELECT * FROM messages WHERE channel_id = ? ORDER BY id DESC LIMIT 1.  *)
LastIn(c) == SelectLastInSeq(msgs, LAMBDA m : m.chan = c /\ m.live)

Init ==
    /\ groups = {FirstGroup}
    /\ channels = {FirstChan}
    /\ groupOf = [c \in Chans |-> IF c = FirstChan THEN FirstGroup ELSE NoGroup]
    /\ made = {FirstGroup, FirstChan}
    /\ selected = [u \in Users |-> IF u = Owner THEN FirstChan ELSE NoChan]
    /\ msgs = <<>>
    /\ creates = [l \in Lines |-> [stage |-> "idle"]]
    /\ pend = [u \in Users |-> Idle]
    /\ reacted = {}
    /\ setters = {}
    /\ shown = [i \in MsgIds |-> <<>>]
    /\ toggled = {}

(***************************************************************************)
(* CreateMessage                                                           *)
(***************************************************************************)

(* Mutant: the parent id is not looked up in the community.              *)
CreateOpenNoParentCheck(l, u, c, p, f) ==
    /\ "create" \in Ops
    /\ creates[l].stage = "idle"
    /\ c \in channels
    /\ LET last == LastIn(c)
       IN  creates' = [creates EXCEPT ![l] =
               [stage |-> "open", user |-> u, chan |-> c, parent |-> p,
                files |-> f, baseId |-> last,
                base |-> IF last = 0 THEN NoMsg ELSE msgs[last], id |-> 0]]
    /\ UNCHANGED <<groups, channels, groupOf, made, selected, msgs, pend,
                   reacted, setters, shown, toggled>>

(* The channel row is read, the transaction begins, the parent (any live  *)
(* message of the community) is read, and the snapshot read finds the    *)
(* channel's last message; the request keeps that row as base.            *)
CreateOpen(l, u, c, p, f) ==
    /\ "create" \in Ops
    /\ creates[l].stage = "idle"
    /\ c \in channels
    /\ p \in {0} \cup LiveIds
    /\ LET last == LastIn(c)
       IN  creates' = [creates EXCEPT ![l] =
               [stage |-> "open", user |-> u, chan |-> c, parent |-> p,
                files |-> f, baseId |-> last,
                base |-> IF last = 0 THEN NoMsg ELSE msgs[last], id |-> 0]]
    /\ UNCHANGED <<groups, channels, groupOf, made, selected, msgs, pend,
                   reacted, setters, shown, toggled>>

(* The merge condition: the last message is the sender's, the new one is  *)
(* no reply, has no files, and the sender has no files on the last one.   *)
MergesInto(r) ==
    r.baseId # 0 /\ r.base.user = r.user /\ r.parent = 0 /\ ~r.files
    /\ ~r.base.files

(* The UPDATE of the base row with the text of the snapshot and the new   *)
(* line (a no-op if the row is gone), or the INSERT of a new message; the *)
(* file uploads, which may fail and roll everything back; the commit.    *)
CreateWrite(l) ==
    /\ creates[l].stage = "open"
    /\ LET r   == creates[l]
           new == [chan |-> r.chan, user |-> r.user, lines |-> <<l>>,
                   files |-> r.files, parent |-> r.parent, live |-> TRUE,
                   edited |-> FALSE]
       IN  \E ok \in IF r.files THEN BOOLEAN ELSE {TRUE} :
           IF ~ok
           THEN /\ creates' = [creates EXCEPT ![l].stage = "failed"]
                /\ UNCHANGED msgs
           ELSE /\ IF MergesInto(r)
                   THEN /\ msgs' = IF msgs[r.baseId].live
                                   THEN [msgs EXCEPT ![r.baseId].lines =
                                             r.base.lines \o <<l>>]
                                   ELSE msgs
                        /\ creates' = [creates EXCEPT ![l].stage = "committed",
                                                      ![l].id = r.baseId]
                   ELSE /\ msgs' = Append(msgs, new)
                        /\ creates' = [creates EXCEPT ![l].stage = "committed",
                                                      ![l].id = Len(msgs) + 1]
    /\ UNCHANGED <<groups, channels, groupOf, made, selected, pend, reacted,
                   setters, shown, toggled>>

(* After the commit the message (and its parent, for a reply) is read     *)
(* again to build the answer; a missing row ends the request with "Not    *)
(* found" and nothing is broadcast.                                       *)
Reread(l) ==
    /\ creates[l].stage = "committed"
    /\ LET m == msgs[creates[l].id]
       IN  creates' = [creates EXCEPT ![l] =
               IF m.live /\ m.parent \in {0} \cup LiveIds
               THEN [@ EXCEPT !.stage = "posting", !.base = m]
               ELSE [@ EXCEPT !.stage = "failed"]]
    /\ UNCHANGED <<groups, channels, groupOf, made, selected, msgs, pend,
                   reacted, setters, shown, toggled>>

(* The goroutine that POSTs the message to /broadcast-message; the hub    *)
(* takes the POSTs in the order they arrive and a subscriber shows the    *)
(* last text it got for a message.                                        *)
Post(l) ==
    /\ creates[l].stage = "posting"
    /\ shown' = [shown EXCEPT ![creates[l].id] = creates[l].base.lines]
    /\ creates' = [creates EXCEPT ![l].stage = "done"]
    /\ UNCHANGED <<groups, channels, groupOf, made, selected, msgs, pend,
                   reacted, setters, toggled>>

(***************************************************************************)
(* EditMessage, ReactToMessage, SelectChannel                              *)
(***************************************************************************)

Wait(u, req) ==
    /\ pend[u] = Idle
    /\ pend' = [pend EXCEPT ![u] = req]

Answer(u) == pend' = [pend EXCEPT ![u] = Idle]

(* The message is read with user_id = the sender, then UPDATE messages   *)
(* SET text, edited = true WHERE id = ? commits.  A row deleted or merged *)
(* into between the read and the UPDATE ends as if the UPDATE came first *)
(* or last, so the handler is one step.                                   *)
EditMessage(u, m) ==
    /\ "edit" \in Ops
    /\ pend[u] = Idle
    /\ m \in LiveIds /\ msgs[m].user = u
    /\ msgs' = [msgs EXCEPT ![m].lines = <<EditLine>>, ![m].edited = TRUE]
    /\ UNCHANGED <<groups, channels, groupOf, made, selected, creates, pend,
                   reacted, setters, shown, toggled>>

(* The message row is read, the reactions JSON is read from Redis and the *)
(* sender toggled in it, and a goroutine is spawned to Set it back; the   *)
(* answer does not wait for the Set.  The Get goes to the read replica:  *)
(* the model lets it see the primary's current value, its best case.      *)
React(u, m) ==
    /\ "react" \in Ops
    /\ pend[u] = Idle
    /\ m \in LiveIds
    /\ LET now == {v \in Users : <<m, v>> \in reacted}
       IN  setters' = setters \cup
               {[msg |-> m, val |-> IF u \in now THEN now \ {u} ELSE now \cup {u}]}
    /\ toggled' = (toggled \ {<<m, u>>}) \cup ({<<m, u>>} \ toggled)
    /\ UNCHANGED <<groups, channels, groupOf, made, selected, msgs, creates,
                   pend, reacted, shown>>

(* The goroutine's Set of message-reactions-<id>.                         *)
ReactSet(s) ==
    /\ reacted' = {p \in reacted : p[1] # s.msg} \cup {<<s.msg, v>> : v \in s.val}
    /\ setters' = setters \ {s}
    /\ UNCHANGED <<groups, channels, groupOf, made, selected, msgs, creates,
                   pend, shown, toggled>>

(* The channel is read by handle, then UPDATE communities_users SET       *)
(* selected_channel_id (no transaction); a channel deleted in between     *)
(* ends as if deleted just after, so the handler is one step.             *)
SelectChannel(u, c) ==
    /\ "select" \in Ops
    /\ pend[u] = Idle
    /\ c \in channels
    /\ selected' = [selected EXCEPT ![u] = c]
    /\ UNCHANGED <<groups, channels, groupOf, made, msgs, creates, pend,
                   reacted, setters, shown, toggled>>

(***************************************************************************)
(* Channels and groups                                                     *)
(***************************************************************************)

(* The group, if one is given, is read in the community; an id must be    *)
(* left for the INSERT (the bound on AUTO_INCREMENT in a model).          *)
CreateChannelRead(u, g) ==
    /\ "createChannel" \in Ops
    /\ g \in groups \cup {NoGroup}
    /\ Chans \ made # {}
    /\ Wait(u, [op |-> "createChannel", group |-> g])
    /\ UNCHANGED <<groups, channels, groupOf, made, selected, msgs, creates,
                   reacted, setters, shown, toggled>>

(* INSERT INTO channels (..., group_id) and commit.                       *)
CreateChannelInsert(u) ==
    /\ pend[u].op = "createChannel"
    /\ \E c \in Chans \ made :
         /\ channels' = channels \cup {c}
         /\ groupOf' = [groupOf EXCEPT ![c] = pend[u].group]
         /\ made' = made \cup {c}
    /\ Answer(u)
    /\ UNCHANGED <<groups, selected, msgs, creates, reacted, setters, shown,
                   toggled>>

(* The channel is read by id, then the group, if one is given.            *)
EditChannelRead(u, c, g) ==
    /\ "editChannel" \in Ops
    /\ c \in channels
    /\ g \in groups \cup {NoGroup}
    /\ Wait(u, [op |-> "editChannel", chan |-> c, group |-> g])
    /\ UNCHANGED <<groups, channels, groupOf, made, selected, msgs, creates,
                   reacted, setters, shown, toggled>>

(* UPDATE channels SET ..., group_id WHERE id = ? (no-op if gone).        *)
EditChannelWrite(u) ==
    /\ pend[u].op = "editChannel"
    /\ groupOf' = IF pend[u].chan \in channels
                  THEN [groupOf EXCEPT ![pend[u].chan] = pend[u].group]
                  ELSE groupOf
    /\ Answer(u)
    /\ UNCHANGED <<groups, channels, made, selected, msgs, creates, reacted,
                   setters, shown, toggled>>

(* DELETE the channel, DELETE its messages, commit.                       *)
DeleteChannel(c) ==
    /\ "deleteChannel" \in Ops
    /\ c \in channels
    /\ channels' = channels \ {c}
    /\ msgs' = [i \in Ids |-> IF msgs[i].chan = c
                             THEN [msgs[i] EXCEPT !.live = FALSE] ELSE msgs[i]]
    /\ UNCHANGED <<groups, groupOf, made, selected, creates, pend, reacted,
                   setters, shown, toggled>>

(* INSERT INTO channel_groups and commit.                                 *)
CreateGroup ==
    /\ "createGroup" \in Ops
    /\ \E g \in Groups \ made :
         /\ groups' = groups \cup {g}
         /\ made' = made \cup {g}
    /\ UNCHANGED <<channels, groupOf, selected, msgs, creates, pend, reacted,
                   setters, shown, toggled>>

(* The group is read, then DELETE FROM channels WHERE group_id = ?,       *)
(* DELETE the group, commit; the channels' messages are left.             *)
DeleteGroup(g) ==
    /\ "deleteGroup" \in Ops
    /\ g \in groups
    /\ channels' = {c \in channels : groupOf[c] # g}
    /\ groups' = groups \ {g}
    /\ UNCHANGED <<groupOf, made, selected, msgs, creates, pend, reacted,
                   setters, shown, toggled>>

(* Every request has been answered and every goroutine has returned.      *)
Quiet ==
    /\ \A l \in Lines : creates[l].stage \in {"idle", "done", "failed"}
    /\ \A u \in Users : pend[u] = Idle
    /\ setters = {}

(* Nothing is left to run once the lines are used up and all is quiet.    *)
Done == Quiet /\ UNCHANGED vars

Next ==
    \/ \E l \in Lines, u \in Users, c \in Chans, p \in 0..Cardinality(Lines),
          f \in BOOLEAN : CreateOpen(l, u, c, p, f)
    \/ \E l \in Lines : CreateWrite(l) \/ Reread(l) \/ Post(l)
    \/ \E u \in Users :
         \/ \E m \in Ids : EditMessage(u, m)
         \/ \E m \in Ids : React(u, m)
         \/ \E c \in Chans : SelectChannel(u, c)
         \/ \E g \in Groups \cup {NoGroup} :
              CreateChannelRead(u, g) \/ \E c \in Chans : EditChannelRead(u, c, g)
         \/ CreateChannelInsert(u) \/ EditChannelWrite(u)
    \/ \E s \in setters : ReactSet(s)
    \/ \E c \in Chans : DeleteChannel(c)
    \/ CreateGroup
    \/ \E g \in Groups : DeleteGroup(g)
    \/ Done

(* The server runs every request it has started to its answer, and every  *)
(* goroutine it spawned; the users, who start requests, are not fair.     *)
Fairness ==
    /\ \A l \in Lines : WF_vars(CreateWrite(l)) /\ WF_vars(Reread(l))
                        /\ WF_vars(Post(l))
    /\ \A u \in Users : WF_vars(CreateChannelInsert(u))
                        /\ WF_vars(EditChannelWrite(u))
    /\ WF_vars(\E s \in setters : ReactSet(s))

Spec == Init /\ [][Next]_vars /\ Fairness

(***************************************************************************)
(* Properties                                                              *)
(***************************************************************************)

TypeOK ==
    /\ groups \subseteq Groups /\ channels \subseteq Chans
    /\ groupOf \in [Chans -> Groups \cup {NoGroup}]
    /\ selected \in [Users -> Chans \cup {NoChan}]
    /\ msgs \in Seq(Msg)
    /\ \A i \in Ids : msgs[i].parent \in 0..(i - 1)
    /\ \A l \in Lines : creates[l].stage \in
           {"idle", "open", "committed", "posting", "done", "failed"}
    /\ reacted \subseteq Ids \X Users
    /\ \A s \in setters : s.msg \in Ids /\ s.val \subseteq Users
    /\ shown \in [MsgIds -> Seq(Lines \cup {EditLine})]
    /\ toggled \subseteq Ids \X Users

(* Once every Set goroutine has run, a user has reacted to a message     *)
(* exactly when they asked an odd number of times: each ReactToMessage    *)
(* toggles the sender in the reactions it read (a second request removes  *)
(* what the first added), and the goroutines Set whole JSON values.       *)
ReactionsFollowToggles ==
    setters = {} => \A m \in Ids, u \in Users :
                        (<<m, u>> \in reacted) = (<<m, u>> \in toggled)

(* A line whose CreateMessage committed stays in the text of the message *)
(* it was committed to, unless that message was edited or deleted: the   *)
(* merge UPDATE writes the text of the last message read in the          *)
(* request's snapshot with the new line appended.                         *)
CommittedLinesKept ==
    \A l \in Lines :
        LET i == creates[l].id
        IN  /\ creates[l].stage \in {"committed", "posting", "done"}
            /\ msgs[i].live /\ ~msgs[i].edited
            => Contains(msgs[i].lines, l)
====
