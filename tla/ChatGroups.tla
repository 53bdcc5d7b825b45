------------------------------ MODULE ChatGroups ------------------------------
(***************************************************************************)
(* The chat groups of one store: who belongs to them, who may do what, and *)
(* the picture of a group (chat-groups.service.ts and                      *)
(* chat-authorization.service.ts).  A group is made by the owner of the    *)
(* store and administered by him alone; a direct chat is made by either of *)
(* its two people and is never altered.  Who may write is in ChatMessages. *)
(*                                                                         *)
(* Adding members, opening a direct chat and changing the picture lock the *)
(* group's row; leaving, removing, disbanding and the settings do not.     *)
(***************************************************************************)
EXTENDS FiniteSets, Integers

CONSTANTS GroupIds,                  \* numbered in their order
          Folk, Owner,               \* Owner is one of Folk
          ChatDesks, Pictures, MaxMembers, MaxChatOps, NoChat, NoPicture
VARIABLES groups,        \* chat_groups
          memberOf,      \* chat_group_members: the latest row of each person
          employed,      \* people with an employed profile in the store
          disk,          \* picture files
          chatDesk,
          chatOps,
          named,         \* history: pictures whose random name got out
          overwritten    \* history: groups whose picture was written back
chatVars == <<groups, memberOf, employed, disk, chatDesk, chatOps, named, overwritten>>

ChatGroup ==
  [direct : SUBSET Folk, createdBy : Folk, avatar : Pictures \cup {NoPicture},
   live : BOOLEAN]
ChatGroupMember == [status : {"none", "active", "left", "removed"}, notified : BOOLEAN]
ASSUME ChatGroupsAssumption ==
  /\ Owner \in Folk /\ IsFiniteSet(Folk) /\ MaxMembers \in Nat
  /\ NoChat \notin ChatGroup
  /\ NoPicture \notin Pictures /\ "keep" \notin Pictures \cup {NoPicture}

NoMember == [status |-> "none", notified |-> TRUE]
IdleChatDesk == [at |-> "idle"]
NewId(g) == {h \in GroupIds : groups[h] = NoChat /\ h <= g} = {g}
LiveGroups == {g \in GroupIds : groups[g] # NoChat /\ groups[g].live}
ActiveIn(g) == {a \in Folk : memberOf[g][a].status = "active"}

-----------------------------------------------------------------------------
(* Authorization                                                           *)

IsEmployed(a) == a = Owner \/ a \in employed

\* requireGroupAccess, requireGroupAdmin, requireEligibleParticipants.
GroupAccess(g, a) == g \in LiveGroups /\ a \in ActiveIn(g) /\ IsEmployed(a)
GroupAdmin(g, a) == GroupAccess(g, a) /\ a = Owner /\ groups[g].createdBy = a
EligibleParticipants(people) == /\ Cardinality(people) <= MaxMembers
                                /\ \A a \in people : IsEmployed(a)

\* getEligibleRecipientAccountIds: who is told of an event of the group.
EligibleRecipients(g) ==
  {a \in ActiveIn(g) : g \in LiveGroups /\ (a = Owner \/ a \in employed)}

\* getEligiblePushDevices: whose devices are pushed to.
EligiblePushAccounts(g, sender) ==
  {a \in ActiveIn(g) \ {sender} :
     g \in LiveGroups /\ memberOf[g][a].notified /\ (a = Owner \/ a \in employed)}

-----------------------------------------------------------------------------
ChatDeskGoes(d, state) == chatDesk' = [chatDesk EXCEPT ![d] = state]
ChatOp == chatOps < MaxChatOps /\ chatOps' = chatOps + 1
Begins(d, state) == /\ chatDesk[d] = IdleChatDesk /\ ChatOp
                    /\ ChatDeskGoes(d, state)
                    /\ UNCHANGED <<groups, memberOf, employed, overwritten>>

\* The row of the group, locked by the transactions that do so.
AnyGroupRow(g) == TRUE
GroupRowFree(g) ==
  \A d \in ChatDesks : chatDesk[d].at = "adding" => chatDesk[d].group # g

Joined(g, people, row) == [a \in Folk |-> IF a \in people THEN row ELSE memberOf[g][a]]
NewRow == [status |-> "active", notified |-> TRUE]

\* createGroup, in one transaction.
CreateGroup(g, people) ==
  LET all == people \cup {Owner} IN
  /\ NewId(g) /\ EligibleParticipants(all)
  /\ groups' = [groups EXCEPT ![g] =
       [direct |-> {}, createdBy |-> Owner, avatar |-> NoPicture, live |-> TRUE]]
  /\ memberOf' = [memberOf EXCEPT ![g] = Joined(g, all, NewRow)]
  /\ ChatOp
  /\ UNCHANGED <<employed, disk, chatDesk, named, overwritten>>

\* openDirectChat: the transaction looks for the chat of the two ...
DirectOf(pair) == {g \in LiveGroups : groups[g].direct = pair}
OpenDirectChat(d, a, b) ==
  /\ a # b /\ EligibleParticipants({a, b})
  /\ Begins(d, [at |-> "direct", pair |-> {a, b}, by |-> a, seen |-> DirectOf({a, b})])
  /\ UNCHANGED <<disk, named>>

\* ... makes it when there was none, unless the unique index finds one by
\* now, which starts the transaction again ...
InsertDirectChat(d, g) ==
  LET pair == chatDesk[d].pair IN
  /\ chatDesk[d].at = "direct" /\ chatDesk[d].seen = {} /\ NewId(g)
  /\ IF DirectOf(pair) = {}
     THEN /\ groups' = [groups EXCEPT ![g] =
               [direct |-> pair, createdBy |-> chatDesk[d].by, avatar |-> NoPicture,
                live |-> TRUE]]
          /\ memberOf' = [memberOf EXCEPT ![g] = Joined(g, pair, NewRow)]
          /\ ChatDeskGoes(d, IdleChatDesk)
     ELSE /\ ChatDeskGoes(d, IF EligibleParticipants(pair)
                             THEN [chatDesk[d] EXCEPT !.seen = DirectOf(pair)]
                             ELSE IdleChatDesk)
          /\ UNCHANGED <<groups, memberOf>>
  /\ UNCHANGED <<employed, disk, chatOps, named, overwritten>>

\* ... and otherwise makes both members active again.
ReactivateDirectMembers(d) ==
  /\ chatDesk[d].at = "direct"
  /\ \E g \in chatDesk[d].seen :
       memberOf' = [memberOf EXCEPT ![g] = [a \in Folk |->
         IF a \in chatDesk[d].pair THEN [memberOf[g][a] EXCEPT !.status = "active"]
         ELSE memberOf[g][a]]]
  /\ ChatDeskGoes(d, IdleChatDesk)
  /\ UNCHANGED <<groups, employed, disk, chatOps, named, overwritten>>

\* addMembers: with the group's row locked, counts ...
AddMembers(d, g, people) ==
  LET new == people \ ActiveIn(g) IN
  /\ GroupAdmin(g, Owner) /\ groups[g].direct = {} /\ GroupRowFree(g)
  /\ people # {} /\ EligibleParticipants(people)
  /\ Cardinality(ActiveIn(g)) + Cardinality(new) <= MaxMembers
  /\ Begins(d, [at |-> "adding", group |-> g, new |-> new])
  /\ UNCHANGED <<disk, named>>

\* ... and inserts a row for each; the index refuses a second active one.
InsertMembers(d) ==
  LET g == chatDesk[d].group IN
  /\ chatDesk[d].at = "adding"
  /\ memberOf' = IF chatDesk[d].new \cap ActiveIn(g) # {} THEN memberOf
                 ELSE [memberOf EXCEPT ![g] = Joined(g, chatDesk[d].new, NewRow)]
  /\ ChatDeskGoes(d, IdleChatDesk)
  /\ UNCHANGED <<groups, employed, disk, chatOps, named, overwritten>>

\* removeMember and leaveGroup: every row of the person, unlocked.
MemberGoes(g, a, status) ==
  /\ memberOf[g][a].status # "none"
  /\ memberOf' = [memberOf EXCEPT ![g][a].status = status]
  /\ ChatOp
  /\ UNCHANGED <<groups, employed, disk, chatDesk, named, overwritten>>
RemoveMember(g, a) == /\ GroupAdmin(g, Owner) /\ groups[g].direct = {}
                      /\ a # groups[g].createdBy
                      /\ MemberGoes(g, a, "removed")
LeaveGroup(g, a) == /\ GroupAccess(g, a) /\ groups[g].direct = {}
                    /\ a # groups[g].createdBy
                    /\ MemberGoes(g, a, "left")

\* updateMemberSettings: conditional on the membership.
UpdateMemberSettings(g, a) ==
  /\ GroupAccess(g, a)
  /\ memberOf' = [memberOf EXCEPT ![g][a].notified = ~@]
  /\ ChatOp
  /\ UNCHANGED <<groups, employed, disk, chatDesk, named, overwritten>>

\* disbandGroup: a soft delete.
DisbandGroup(g) ==
  /\ GroupAdmin(g, Owner) /\ groups[g].direct = {}
  /\ groups' = [groups EXCEPT ![g].live = FALSE]
  /\ ChatOp
  /\ UNCHANGED <<memberOf, employed, disk, chatDesk, named, overwritten>>

-----------------------------------------------------------------------------
(* Settings and picture                                                    *)

\* updateGroupSettings reads the group ("keep" stands for a picture that is
\* not in the request, which names any picture but a new one nobody has seen)
\* ...
UpdateGroupSettings(d, g, avatar) ==
  /\ GroupAdmin(g, Owner) /\ groups[g].direct = {}
  /\ avatar \notin disk \ named
  /\ named' = named \cup ({avatar} \cap Pictures)
  /\ Begins(d, [at |-> "settings", group |-> g, avatar |-> avatar, read |-> groups[g].avatar])
  /\ UNCHANGED disk

\* ... and saves it, the picture too as it was read or asked for.
SaveGroupSettings(d) ==
  LET o == chatDesk[d] IN
  /\ o.at = "settings"
  /\ groups' = [groups EXCEPT ![o.group].avatar =
                               IF o.avatar = "keep" THEN o.read ELSE o.avatar]
  /\ overwritten' = IF o.avatar # "keep" \/ groups[o.group].avatar # o.read
                    THEN overwritten \cup {o.group} ELSE overwritten
  /\ ChatDeskGoes(d, IF o.avatar # "keep" /\ o.read # o.avatar
                     THEN [at |-> "tidy", file |-> o.read] ELSE IdleChatDesk)
  /\ UNCHANGED <<memberOf, employed, disk, chatOps, named>>

\* updateGroupAvatar writes the file, under a random name that was never
\* drawn or sent before, then swaps the picture of the locked row; a file
\* whose group is gone is deleted again.
UpdateGroupAvatar(d, g, file) ==
  /\ GroupAdmin(g, Owner) /\ groups[g].direct = {}
  /\ file \notin disk \cup named
  /\ disk' = disk \cup {file}
  /\ Begins(d, [at |-> "picture", group |-> g, file |-> file])
  /\ UNCHANGED named
SaveGroupAvatar(d) ==
  LET o == chatDesk[d] IN
  /\ o.at = "picture" /\ GroupRowFree(o.group)
  /\ IF o.group \in LiveGroups
     THEN /\ groups' = [groups EXCEPT ![o.group].avatar = o.file]
          /\ ChatDeskGoes(d, [at |-> "tidy", file |-> groups[o.group].avatar])
          /\ named' = named \cup {o.file}
          /\ UNCHANGED disk
     ELSE /\ disk' = disk \ {o.file} /\ ChatDeskGoes(d, IdleChatDesk)
          /\ UNCHANGED <<groups, named>>
  /\ UNCHANGED <<memberOf, employed, chatOps, overwritten>>

\* removeUnusedGroupAvatar: unless some group, disbanded ones included,
\* still shows it.
UsedPicture(file) == \E g \in GroupIds : groups[g] # NoChat /\ groups[g].avatar = file
RemoveUnusedGroupAvatar(d) ==
  /\ chatDesk[d].at = "tidy"
  /\ disk' = IF UsedPicture(chatDesk[d].file) THEN disk ELSE disk \ {chatDesk[d].file}
  /\ ChatDeskGoes(d, IdleChatDesk)
  /\ UNCHANGED <<groups, memberOf, employed, chatOps, named, overwritten>>

\* Employment, which leaves memberships alone.
EmploymentChanges(a) ==
  /\ a # Owner
  /\ employed' = IF a \in employed THEN employed \ {a} ELSE employed \cup {a}
  /\ ChatOp
  /\ UNCHANGED <<groups, memberOf, disk, chatDesk, named, overwritten>>

ChatGroupsInit ==
  /\ groups = [g \in GroupIds |-> NoChat]
  /\ memberOf = [g \in GroupIds |-> [a \in Folk |-> NoMember]]
  /\ employed = Folk \ {Owner}
  /\ disk = {}
  /\ chatDesk = [d \in ChatDesks |-> IdleChatDesk]
  /\ chatOps = 0
  /\ named = {}
  /\ overwritten = {}

ChatGroupsNext ==
  \/ \E g \in GroupIds, people \in SUBSET Folk : CreateGroup(g, people)
  \/ \E d \in ChatDesks, a, b \in Folk : OpenDirectChat(d, a, b)
  \/ \E d \in ChatDesks, g \in GroupIds :
       \/ InsertDirectChat(d, g)
       \/ \E people \in SUBSET Folk : AddMembers(d, g, people)
       \/ \E avatar \in {"keep", NoPicture} \cup Pictures : UpdateGroupSettings(d, g, avatar)
       \/ \E file \in Pictures : UpdateGroupAvatar(d, g, file)
  \/ \E g \in GroupIds : DisbandGroup(g)
  \/ \E g \in GroupIds, a \in Folk :
       RemoveMember(g, a) \/ LeaveGroup(g, a) \/ UpdateMemberSettings(g, a)
  \/ \E d \in ChatDesks :
       \/ ReactivateDirectMembers(d) \/ InsertMembers(d) \/ SaveGroupSettings(d)
       \/ SaveGroupAvatar(d) \/ RemoveUnusedGroupAvatar(d)
  \/ \E a \in Folk : EmploymentChanges(a)

ChatGroupsSpec == ChatGroupsInit /\ [][ChatGroupsNext]_chatVars

(***************************************************************************)
(* What a request under way holds at each of its steps.                    *)
(***************************************************************************)
DirectDesk == [at : {"direct"}, pair : SUBSET Folk, by : Folk, seen : SUBSET GroupIds]
AddingDesk == [at : {"adding"}, group : GroupIds, new : SUBSET Folk]
SettingsDesk == [at : {"settings"}, group : GroupIds,
                 avatar : Pictures \cup {NoPicture, "keep"}, read : Pictures \cup {NoPicture}]
PictureDesk == [at : {"picture"}, group : GroupIds, file : Pictures]
TidyDesk == [at : {"tidy"}, file : Pictures \cup {NoPicture}]
ChatDesk == {IdleChatDesk} \cup DirectDesk \cup AddingDesk \cup SettingsDesk
              \cup PictureDesk \cup TidyDesk

ChatGroupsTypeOK ==
  /\ groups \in [GroupIds -> ChatGroup \cup {NoChat}]
  /\ memberOf \in [GroupIds -> [Folk -> ChatGroupMember]]
  /\ disk \subseteq Pictures /\ named \subseteq Pictures
  /\ chatDesk \in [ChatDesks -> ChatDesk]

(***************************************************************************)
(* The two people of a direct chat, and the maker of a group, never lose   *)
(* their membership; a pair has one direct chat; no group grows beyond its *)
(* limit, though two requests add members at once.                         *)
(***************************************************************************)
MembershipHolds ==
  \A g \in GroupIds : groups[g] # NoChat =>
    /\ groups[g].direct # {} =>
         ActiveIn(g) = groups[g].direct /\ DirectOf(groups[g].direct) = {g}
    /\ groups[g].createdBy \in ActiveIn(g)
    /\ Cardinality(ActiveIn(g)) <= MaxMembers

(***************************************************************************)
(* Whoever is told of an event of a group, or pushed to, could read it; and*)
(* whoever may read it is told.  A person who left the store, or the group,*)
(* is not, whatever becomes of the membership row.                         *)
(***************************************************************************)
ToldIsAllowed ==
  \A g \in GroupIds :
    /\ EligibleRecipients(g) = {a \in Folk : GroupAccess(g, a)}
    /\ \A s \in Folk : EligiblePushAccounts(g, s) \subseteq EligibleRecipients(g) \ {s}

(***************************************************************************)
(* The picture of a group is on the disk, also of a disbanded one, unless  *)
(* a save of the settings wrote a picture.                                 *)
(***************************************************************************)
PicturesExist ==
  \A g \in GroupIds \ overwritten :
    groups[g] # NoChat /\ groups[g].avatar # NoPicture => groups[g].avatar \in disk

(***************************************************************************)
(* What a request under way relies on.  The direct chats that it has seen  *)
(* are still the pair's; a group that is added to exists, is not a direct  *)
(* one, has room for those who are added and is locked by one request; and *)
(* a group that was not made has nobody in it.                             *)
(***************************************************************************)
Relies(o) ==
  /\ o.at = "direct" => /\ o.by \in o.pair /\ Cardinality(o.pair) <= MaxMembers
                        /\ o.seen \subseteq DirectOf(o.pair)
  /\ o.at = "adding" => /\ groups[o.group] # NoChat /\ groups[o.group].direct = {}
                        /\ Cardinality(ActiveIn(o.group) \cup o.new) <= MaxMembers
  /\ o.at \in {"settings", "picture"} => groups[o.group] # NoChat
RequestsRely ==
  /\ \A g \in GroupIds : groups[g] = NoChat => ActiveIn(g) = {}
  /\ \A d \in ChatDesks : Relies(chatDesk[d])
  /\ \A c, d \in ChatDesks :
       c # d /\ chatDesk[c].at = "adding" /\ chatDesk[d].at = "adding"
         => chatDesk[c].group # chatDesk[d].group

(***************************************************************************)
(* Where picture files are: one that waits to be shown is on the disk and  *)
(* nobody else knows its name; whatever a group shows, a request has read  *)
(* or is about to delete has been named.                                   *)
(***************************************************************************)
Known == named \cup {NoPicture}
Knows(o) ==
  /\ o.at = "picture" => o.file \in disk \ named
  /\ o.at = "tidy" => o.file \in Known
  /\ o.at = "settings" => o.read \in Known /\ o.avatar \in Known \cup {"keep"}
PicturesAreKnown ==
  /\ \A g \in GroupIds : groups[g] # NoChat => groups[g].avatar \in Known
  /\ \A d \in ChatDesks : Knows(chatDesk[d])
  /\ \A c, d \in ChatDesks :
       c # d /\ chatDesk[c].at = "picture" /\ chatDesk[d].at = "picture"
         => chatDesk[c].file # chatDesk[d].file

(***************************************************************************)
(* What the chat groups promise.                                           *)
(***************************************************************************)
ChatGroupsPromise ==
  /\ ChatGroupsTypeOK
  /\ RequestsRely /\ PicturesAreKnown
  /\ MembershipHolds /\ ToldIsAllowed /\ PicturesExist
=============================================================================
