--------------------------- MODULE RoomViewProofs ---------------------------
(***************************************************************************)
(* What the pages show, for any number of clients, joins and mode words.   *)
(***************************************************************************)
EXTENDS RoomView, TLAPS

-----------------------------------------------------------------------------
(* The inductive invariant.                                                *)

\* TypeOK, and what it leaves unsaid of the pages.
Types == TypeOK /\ entries \in [Clients -> [Clients -> Nat]]

\* A connection task takes out its own client, the health task one at a time,
\* and the dispatcher one that it parts, kicks or kills.
TasksShape ==
    /\ \A t \in Tasks \ {Dispatcher} : purging[t] = "off" <=> who[t] = NoClient
    /\ \A c \in Clients : who[c] \in {c, NoClient}
    /\ dpc = "idle" <=> who[Dispatcher] = NoClient
    /\ dpc = "kill" <=> purging[Dispatcher] # "off"

\* Whom the dispatcher parts or kicks has closed its page, and whom it parts
\* has left.
Departing ==
    dpc \in {"part", "kick"} => /\ who[Dispatcher] \notin tab
                                /\ dpc = "part" => who[Dispatcher] \notin members

\* A page without the room shows nobody, and nobody is in a channel that was
\* not made yet.
Closed ==
    /\ \A d \in Clients \ tab : entries[d] = Nobody
    /\ stage = "unborn" => members = {} /\ tab = {}

\* A page has the room open only for a member, or while a task sees its client off.
OpenForMembers == \A c \in tab : c \in members \/ \E t \in Tasks : who[t] = c

\* What the pages' past says of the options.
Past ==
    /\ Hides(options) => tab \subseteq hid
    /\ ~Has(options, "HiddenMemberList") => tab \subseteq opened

\* A departure of c was told, by the dispatcher or the health task, and c is
\* still to be removed.
Told(c) ==
    \/ Quitting(c)
    \/ who[Dispatcher] = c /\ (dpc = "kick" \/ purging[Dispatcher] = "remove")

\* How many lines of c there may be on a page that hears of everybody: one for a
\* member, until its departure is told, and one for each task that has removed c
\* and is still to tell.
Due(c) ==
    LET One(b) == IF b THEN 1 ELSE 0 IN
    One(c \in members /\ ~Told(c)) + One(purging[c] = "tell")
        + One(dpc = "part" /\ who[Dispatcher] = c)

LinesDue ==
    \A d, c \in Clients :
        (Reads(d) /\ d # c /\ d \notin hid /\ <<d, c>> \notin early) => entries[d][c] <= Due(c)

\* Only an authentication puts in whom none was accepted of.
Newcomers == fresh \cap members = {}

Shape ==
    Types /\ TasksShape /\ Departing /\ Closed /\ OpenForMembers /\ Past /\ Newcomers

\* Both ways to come in, and who is sent the list on either.
Comes(c) == Join(c) \/ Walk(c)
GetsNames(c) == IF c \in fresh THEN GetsLobbyList(c) ELSE GetsList(c)

Inv == Shape /\ MembersShown /\ HiddenFromGuests /\ LinesDue

-----------------------------------------------------------------------------
(* The option word.                                                        *)

\* The words made of options.
Words == 0 .. 4095

\* The twelve bits.
LEMMA Bits ==
    /\ ChannelOptions = {"ClientInvites", "AgentOnly", "InviteOnly", "SaveHistory", "Persist",
                         "WaitForAgent", "RejoinClients", "CanNotLeave", "HiddenMemberList",
                         "HiddenMessages", "Invisible", "Secret"}
    /\ Bit["ClientInvites"] = 1 /\ Bit["AgentOnly"] = 2 /\ Bit["InviteOnly"] = 4
    /\ Bit["SaveHistory"] = 8 /\ Bit["Persist"] = 16 /\ Bit["WaitForAgent"] = 32
    /\ Bit["RejoinClients"] = 64 /\ Bit["CanNotLeave"] = 128
    /\ Bit["HiddenMemberList"] = 256 /\ Bit["HiddenMessages"] = 512
    /\ Bit["Invisible"] = 1024 /\ Bit["Secret"] = 2048
  BY DEF ChannelOptions, Bit

\* What has_option tests, option by option.
LEMMA HasBit ==
    ASSUME NEW word
    PROVE  /\ Has(word, "ClientInvites") <=> (word \div 1) % 2 = 1
           /\ Has(word, "AgentOnly") <=> (word \div 2) % 2 = 1
           /\ Has(word, "InviteOnly") <=> (word \div 4) % 2 = 1
           /\ Has(word, "SaveHistory") <=> (word \div 8) % 2 = 1
           /\ Has(word, "Persist") <=> (word \div 16) % 2 = 1
           /\ Has(word, "WaitForAgent") <=> (word \div 32) % 2 = 1
           /\ Has(word, "RejoinClients") <=> (word \div 64) % 2 = 1
           /\ Has(word, "CanNotLeave") <=> (word \div 128) % 2 = 1
           /\ Has(word, "HiddenMemberList") <=> (word \div 256) % 2 = 1
           /\ Has(word, "HiddenMessages") <=> (word \div 512) % 2 = 1
           /\ Has(word, "Invisible") <=> (word \div 1024) % 2 = 1
           /\ Has(word, "Secret") <=> (word \div 2048) % 2 = 1
  BY Bits DEF Has

\* Only the low twelve bits of a word are options.
LEMMA HasLow ==
    ASSUME NEW word \in Nat, NEW o \in ChannelOptions
    PROVE  Has(word % 4096, o) <=> Has(word, o)
<1>1. ASSUME NEW b \in {1, 2, 4, 8, 16, 32, 64, 128, 256, 512, 1024, 2048}
      PROVE ((word % 4096) \div b) % 2 = (word \div b) % 2
  OBVIOUS
<1>2. Bit[o] \in {1, 2, 4, 8, 16, 32, 64, 128, 256, 512, 1024, 2048}
  BY Bits
<1>3. QED BY <1>1, <1>2 DEF Has

\* InviteOnly can be added to a word that lacks it.
LEMMA AddInviteOnly ==
    ASSUME NEW word \in Nat, word <= 4095, ~Has(word, "InviteOnly")
    PROVE  /\ word + 4 \in 0 .. 4095
           /\ Has(word + 4, "InviteOnly")
           /\ \A p \in ChannelOptions \ {"InviteOnly"} : Has(word + 4, p) <=> Has(word, p)
<1>1. (word \div 4) % 2 = 0
  <2>1. (word \div 4) % 2 # 1
    BY HasBit
  <2>2. QED BY <2>1
<1>2. PICK high \in Nat, low \in 0 .. 3 : word = 8 * high + low
  <2>1. word = 8 * (word \div 8) + (word % 8)
    OBVIOUS
  <2>2. word % 8 \in 0 .. 3 /\ word \div 8 \in Nat
    BY <1>1
  <2>3. QED BY <2>1, <2>2
<1>3. word + 4 = 8 * high + (low + 4)
  BY <1>2
<1>4. word + 4 \in 0 .. 4095
  BY <1>2
<1>5. ((word + 4) \div 4) % 2 = 1
  BY <1>1
<1>6. Has(word + 4, "ClientInvites") <=> Has(word, "ClientInvites")
  <2>1. ((word + 4) \div 1) % 2 = (word \div 1) % 2
    BY <1>2, <1>3
  <2>2. QED BY <2>1, HasBit
<1>7. Has(word + 4, "AgentOnly") <=> Has(word, "AgentOnly")
  <2>1. ((word + 4) \div 2) % 2 = (word \div 2) % 2
    BY <1>2, <1>3
  <2>2. QED BY <2>1, HasBit
<1>8. Has(word + 4, "SaveHistory") <=> Has(word, "SaveHistory")
  <2>1. ((word + 4) \div 8) % 2 = (word \div 8) % 2
    BY <1>2, <1>3
  <2>2. QED BY <2>1, HasBit
<1>9. Has(word + 4, "Persist") <=> Has(word, "Persist")
  <2>1. ((word + 4) \div 16) % 2 = (word \div 16) % 2
    BY <1>2, <1>3
  <2>2. QED BY <2>1, HasBit
<1>10. Has(word + 4, "WaitForAgent") <=> Has(word, "WaitForAgent")
  <2>1. ((word + 4) \div 32) % 2 = (word \div 32) % 2
    BY <1>2, <1>3
  <2>2. QED BY <2>1, HasBit
<1>11. Has(word + 4, "RejoinClients") <=> Has(word, "RejoinClients")
  <2>1. ((word + 4) \div 64) % 2 = (word \div 64) % 2
    BY <1>2, <1>3
  <2>2. QED BY <2>1, HasBit
<1>12. Has(word + 4, "CanNotLeave") <=> Has(word, "CanNotLeave")
  <2>1. ((word + 4) \div 128) % 2 = (word \div 128) % 2
    BY <1>2, <1>3
  <2>2. QED BY <2>1, HasBit
<1>13. Has(word + 4, "HiddenMemberList") <=> Has(word, "HiddenMemberList")
  <2>1. ((word + 4) \div 256) % 2 = (word \div 256) % 2
    BY <1>2, <1>3
  <2>2. QED BY <2>1, HasBit
<1>14. Has(word + 4, "HiddenMessages") <=> Has(word, "HiddenMessages")
  <2>1. ((word + 4) \div 512) % 2 = (word \div 512) % 2
    BY <1>2, <1>3
  <2>2. QED BY <2>1, HasBit
<1>15. Has(word + 4, "Invisible") <=> Has(word, "Invisible")
  <2>1. ((word + 4) \div 1024) % 2 = (word \div 1024) % 2
    BY <1>2, <1>3
  <2>2. QED BY <2>1, HasBit
<1>16. Has(word + 4, "Secret") <=> Has(word, "Secret")
  <2>1. ((word + 4) \div 2048) % 2 = (word \div 2048) % 2
    BY <1>2, <1>3
  <2>2. QED BY <2>1, HasBit
<1>17. QED
  BY <1>4, <1>5, HasBit, Bits,
     <1>6, <1>7, <1>8, <1>9, <1>10, <1>11, <1>12, <1>13, <1>14, <1>15, <1>16

\* And so can Secret, the highest bit.
LEMMA AddSecret ==
    ASSUME NEW word \in Nat, word <= 4095, ~Has(word, "Secret")
    PROVE  /\ word + 2048 \in 0 .. 4095
           /\ Has(word + 2048, "Secret")
           /\ \A p \in ChannelOptions \ {"Secret"} : Has(word + 2048, p) <=> Has(word, p)
<1>1. word < 2048
  <2>1. (word \div 2048) % 2 # 1
    BY HasBit
  <2>2. QED BY <2>1
<1>2. word + 2048 \in 0 .. 4095
  BY <1>1
<1>3. ((word + 2048) \div 2048) % 2 = 1
  BY <1>1
<1>4. Has(word + 2048, "ClientInvites") <=> Has(word, "ClientInvites")
  <2>1. ((word + 2048) \div 1) % 2 = (word \div 1) % 2
    OBVIOUS
  <2>2. QED BY <2>1, HasBit
<1>5. Has(word + 2048, "AgentOnly") <=> Has(word, "AgentOnly")
  <2>1. ((word + 2048) \div 2) % 2 = (word \div 2) % 2
    OBVIOUS
  <2>2. QED BY <2>1, HasBit
<1>6. Has(word + 2048, "InviteOnly") <=> Has(word, "InviteOnly")
  <2>1. ((word + 2048) \div 4) % 2 = (word \div 4) % 2
    OBVIOUS
  <2>2. QED BY <2>1, HasBit
<1>7. Has(word + 2048, "SaveHistory") <=> Has(word, "SaveHistory")
  <2>1. ((word + 2048) \div 8) % 2 = (word \div 8) % 2
    OBVIOUS
  <2>2. QED BY <2>1, HasBit
<1>8. Has(word + 2048, "Persist") <=> Has(word, "Persist")
  <2>1. ((word + 2048) \div 16) % 2 = (word \div 16) % 2
    OBVIOUS
  <2>2. QED BY <2>1, HasBit
<1>9. Has(word + 2048, "WaitForAgent") <=> Has(word, "WaitForAgent")
  <2>1. ((word + 2048) \div 32) % 2 = (word \div 32) % 2
    OBVIOUS
  <2>2. QED BY <2>1, HasBit
<1>10. Has(word + 2048, "RejoinClients") <=> Has(word, "RejoinClients")
  <2>1. ((word + 2048) \div 64) % 2 = (word \div 64) % 2
    OBVIOUS
  <2>2. QED BY <2>1, HasBit
<1>11. Has(word + 2048, "CanNotLeave") <=> Has(word, "CanNotLeave")
  <2>1. ((word + 2048) \div 128) % 2 = (word \div 128) % 2
    OBVIOUS
  <2>2. QED BY <2>1, HasBit
<1>12. Has(word + 2048, "HiddenMemberList") <=> Has(word, "HiddenMemberList")
  <2>1. ((word + 2048) \div 256) % 2 = (word \div 256) % 2
    OBVIOUS
  <2>2. QED BY <2>1, HasBit
<1>13. Has(word + 2048, "HiddenMessages") <=> Has(word, "HiddenMessages")
  <2>1. ((word + 2048) \div 512) % 2 = (word \div 512) % 2
    OBVIOUS
  <2>2. QED BY <2>1, HasBit
<1>14. Has(word + 2048, "Invisible") <=> Has(word, "Invisible")
  <2>1. ((word + 2048) \div 1024) % 2 = (word \div 1024) % 2
    OBVIOUS
  <2>2. QED BY <2>1, HasBit
<1>15. QED
  BY <1>2, <1>3, HasBit, Bits,
     <1>4, <1>5, <1>6, <1>7, <1>8, <1>9, <1>10, <1>11, <1>12, <1>13, <1>14

\* set_channel_modes makes InviteOnly what was asked, and changes nothing else.
LEMMA ToggleInviteOnly ==
    ASSUME NEW word \in Words, NEW asked
    PROVE  /\ Toggle(word, asked, "InviteOnly") \in Words
           /\ Has(Toggle(word, asked, "InviteOnly"), "InviteOnly") <=> Has(asked, "InviteOnly")
           /\ \A p \in ChannelOptions \ {"InviteOnly"} :
                 Has(Toggle(word, asked, "InviteOnly"), p) <=> Has(word, p)
<1>1. Has(asked, "InviteOnly") \in BOOLEAN /\ Has(word, "InviteOnly") \in BOOLEAN
  BY DEF Has
<1>2. word \in Nat /\ word <= 4095
  BY DEF Words
<1>3. CASE Has(asked, "InviteOnly") <=> Has(word, "InviteOnly")
  BY <1>1, <1>3 DEF Toggle
<1>4. CASE Has(asked, "InviteOnly") /\ ~Has(word, "InviteOnly")
  <2> DEFINE more == word + 4
  <2>1. Toggle(word, asked, "InviteOnly") = more
    BY <1>1, <1>4, Bits DEF Toggle, Or
  <2>2. /\ more \in Words
        /\ Has(more, "InviteOnly")
        /\ \A p \in ChannelOptions \ {"InviteOnly"} : Has(more, p) <=> Has(word, p)
    BY <1>2, <1>4, AddInviteOnly DEF Words
  <2> HIDE DEF more
  <2>3. Toggle(word, asked, "InviteOnly") \in Words
    BY <2>1, <2>2
  <2>4. QED BY <1>4, <2>1, <2>2, <2>3
<1>5. CASE ~Has(asked, "InviteOnly") /\ Has(word, "InviteOnly")
  <2> DEFINE less == word - 4
  <2>1. Toggle(word, asked, "InviteOnly") = less
    BY <1>1, <1>5, Bits DEF Toggle, Xor
  <2>2. (word \div 4) % 2 = 1
    BY <1>5, HasBit
  <2>3. less \in Nat /\ word = less + 4 /\ less <= 4095
    BY <1>2, <2>2
  <2> HIDE DEF less
  <2>4. ~Has(less, "InviteOnly")
    <3>1. ((less + 4) \div 4) % 2 = 1
      BY <2>2, <2>3
    <3>2. (less \div 4) % 2 # 1
      BY <2>3, <3>1
    <3>3. QED BY <3>2, HasBit
  <2>5. \A p \in ChannelOptions \ {"InviteOnly"} : Has(word, p) <=> Has(less, p)
    BY <2>3, <2>4, AddInviteOnly
  <2>6. less \in Words
    BY <2>3 DEF Words
  <2>7. Toggle(word, asked, "InviteOnly") \in Words
    BY <2>1, <2>6
  <2>8. QED BY <1>5, <2>1, <2>4, <2>5, <2>7
<1>6. QED BY <1>3, <1>4, <1>5

\* And the same of Secret.
LEMMA ToggleSecret ==
    ASSUME NEW word \in Words, NEW asked
    PROVE  /\ Toggle(word, asked, "Secret") \in Words
           /\ Has(Toggle(word, asked, "Secret"), "Secret") <=> Has(asked, "Secret")
           /\ \A p \in ChannelOptions \ {"Secret"} :
                 Has(Toggle(word, asked, "Secret"), p) <=> Has(word, p)
<1>1. Has(asked, "Secret") \in BOOLEAN /\ Has(word, "Secret") \in BOOLEAN
  BY DEF Has
<1>2. word \in Nat /\ word <= 4095
  BY DEF Words
<1>3. CASE Has(asked, "Secret") <=> Has(word, "Secret")
  BY <1>1, <1>3 DEF Toggle
<1>4. CASE Has(asked, "Secret") /\ ~Has(word, "Secret")
  <2> DEFINE more == word + 2048
  <2>1. Toggle(word, asked, "Secret") = more
    BY <1>1, <1>4, Bits DEF Toggle, Or
  <2>2. /\ more \in Words
        /\ Has(more, "Secret")
        /\ \A p \in ChannelOptions \ {"Secret"} : Has(more, p) <=> Has(word, p)
    BY <1>2, <1>4, AddSecret DEF Words
  <2> HIDE DEF more
  <2>3. Toggle(word, asked, "Secret") \in Words
    BY <2>1, <2>2
  <2>4. QED BY <1>4, <2>1, <2>2, <2>3
<1>5. CASE ~Has(asked, "Secret") /\ Has(word, "Secret")
  <2> DEFINE less == word - 2048
  <2>1. Toggle(word, asked, "Secret") = less
    BY <1>1, <1>5, Bits DEF Toggle, Xor
  <2>2. (word \div 2048) % 2 = 1
    BY <1>5, HasBit
  <2>3. less \in Nat /\ word = less + 2048 /\ less <= 4095
    BY <1>2, <2>2
  <2> HIDE DEF less
  <2>4. ~Has(less, "Secret")
    <3>1. ((less + 2048) \div 2048) % 2 = 1
      BY <2>2, <2>3
    <3>2. (less \div 2048) % 2 # 1
      BY <2>3, <3>1
    <3>3. QED BY <3>2, HasBit
  <2>5. \A p \in ChannelOptions \ {"Secret"} : Has(word, p) <=> Has(less, p)
    BY <2>3, <2>4, AddSecret
  <2>6. less \in Words
    BY <2>3 DEF Words
  <2>7. Toggle(word, asked, "Secret") \in Words
    BY <2>1, <2>6
  <2>8. QED BY <1>5, <2>1, <2>4, <2>5, <2>7
<1>6. QED BY <1>3, <1>4, <1>5

\* get_options_from_u64 keeps the options of a request and drops the rest.
LEMMA FromU64Modes ==
    ASSUME NEW modes \in Requests
    PROVE  FromU64[modes] \in Words /\ Decode(FromU64[modes]) = Decode(modes)
<1>1. modes \in Nat
  BY ConstantsAssumption
<1>2. ASSUME NEW b \in {1, 2, 4, 8, 16, 32, 64, 128, 256, 512, 1024, 2048}
      PROVE  modes % (2 * b) = (modes % b) + (IF (modes \div b) % 2 = 1 THEN b ELSE 0)
  BY <1>1
<1>3. FromU64[modes] = modes % 4096
  BY <1>1, <1>2, Bits DEF FromU64, Has
<1>4. modes % 4096 \in Words
  BY <1>1 DEF Words
<1>5. QED BY <1>1, <1>3, <1>4, HasLow DEF Decode

\* A request of an agent replaces the modes, one of another owner changes the
\* public ones.
LEMMA SetModesWord ==
    ASSUME options \in Words, NEW c \in Clients, NEW modes \in Requests, SetModes(c, modes)
    PROVE  /\ options' \in Words
           /\ Decode(options') =
                IF c \in Agents THEN Decode(modes)
                ELSE (Decode(options) \ PublicModes) \cup (Decode(modes) \cap PublicModes)
<1> DEFINE asked == FromU64[modes]
           once  == Toggle(options, asked, "InviteOnly")
<1>1. asked \in Words /\ Decode(asked) = Decode(modes)
  BY FromU64Modes
<1>2. CASE c \in Agents
  BY <1>1, <1>2 DEF SetModes
<1>3. CASE c \notin Agents
  <2>1. options' = Toggle(once, asked, "Secret")
    BY <1>3 DEF SetModes
  <2>2. /\ once \in Words
        /\ Has(once, "InviteOnly") <=> Has(asked, "InviteOnly")
        /\ \A p \in ChannelOptions \ {"InviteOnly"} : Has(once, p) <=> Has(options, p)
    BY ToggleInviteOnly
  <2> HIDE DEF asked, once
  <2>3. /\ options' \in Words
        /\ Has(options', "Secret") <=> Has(asked, "Secret")
        /\ \A p \in ChannelOptions \ {"Secret"} : Has(options', p) <=> Has(once, p)
    BY <2>1, <2>2, ToggleSecret
  <2>4. Decode(options') = (Decode(options) \ PublicModes) \cup (Decode(asked) \cap PublicModes)
    BY <2>2, <2>3, Bits DEF Decode, PublicModes
  <2>5. QED BY <1>1, <1>3, <2>3, <2>4
<1>4. QED BY <1>2, <1>3

-----------------------------------------------------------------------------
(* The pages.                                                              *)

Tables == [Clients -> [Clients -> Nat]]

\* A page that is told of a departure loses a line of it, if it has one.
LEMMA StruckLines ==
    ASSUME entries \in Tables, NEW ds, NEW c \in Clients
    PROVE  /\ Struck(ds, c) \in Tables
           /\ \A d, x \in Clients :
                 Struck(ds, c)[d][x] =
                    IF d \in ds /\ x = c /\ entries[d][x] > 0 THEN entries[d][x] - 1
                    ELSE entries[d][x]
  BY DEF Struck, Tables

\* One that is told of a join gets one.
LEMMA ShownLines ==
    ASSUME entries \in Tables, NEW ds, NEW c \in Clients
    PROVE  /\ Shown(ds, c) \in Tables
           /\ \A d, x \in Clients :
                 Shown(ds, c)[d][x] =
                    IF d \in ds \cap tab /\ x = c THEN entries[d][x] + 1 ELSE entries[d][x]
  BY DEF Shown, Tables

\* One that closes has none left.
LEMMA ClosedLines ==
    ASSUME NEW table \in Tables, NEW c \in Clients, Close(c, table)
    PROVE  /\ entries' \in Tables
           /\ entries'[c] = Nobody
           /\ \A d \in Clients \ {c} : entries'[d] = table[d]
           /\ \A d, x \in Clients : entries'[d][x] = IF d = c THEN 0 ELSE table[d][x]
  BY DEF Close, Tables, Nobody

\* Two names for one test of the option word.
LEMMA HidesGuests == \A word : Hides(word) <=> FromGuests(word)
  BY DEF Hides, FromGuests

\* What a page shows when its client comes in.
LEMMA JoinLines ==
    ASSUME entries \in Tables, NEW c \in Clients, Comes(c)
    PROVE  /\ entries' \in Tables
           /\ \A x \in Clients :
                 entries'[c][x] = IF \/ x = c /\ Sees(c)
                                     \/ x \in members /\ GetsNames(c)
                                  THEN 1 ELSE 0
           /\ \A d \in Clients \ {c} : \A x \in Clients :
                 entries'[d][x] = IF d \in ToldOfJoin(c) \cap tab /\ x = c
                                  THEN entries[d][x] + 1 ELSE entries[d][x]
<1> DEFINE row == [x \in Clients |-> IF \/ x = c /\ Sees(c)
                                        \/ x \in members /\ GetsNames(c)
                                     THEN 1 ELSE 0]
           told == Shown(ToldOfJoin(c), c)
<1>1. entries' = [told EXCEPT ![c] = row]
  <2>1. Enter(c, GetsNames(c))
    BY DEF Comes, Join, Walk, Request, GetsNames
  <2>2. QED BY <2>1 DEF Enter
<1>2. row \in [Clients -> Nat]
  OBVIOUS
<1>3. /\ told \in Tables
      /\ \A d, x \in Clients :
            told[d][x] = IF d \in ToldOfJoin(c) \cap tab /\ x = c
                         THEN entries[d][x] + 1 ELSE entries[d][x]
  BY ShownLines
<1> HIDE DEF told
<1>4. entries' \in Tables
  BY <1>1, <1>2, <1>3 DEF Tables
<1>5. \A d \in Clients \ {c} : entries'[d] = told[d]
  BY <1>1, <1>3 DEF Tables
<1>6. entries'[c] = row
  BY <1>1, <1>3 DEF Tables
<1>7. QED BY <1>3, <1>4, <1>5, <1>6

\* And when its client makes the channel.
LEMMA CreateLines ==
    ASSUME entries \in Tables, NEW c \in Clients, Create(c)
    PROVE  /\ entries' \in Tables
           /\ \A d, x \in Clients :
                 entries'[d][x] = IF d = c /\ x = c
                                  THEN (IF Connected(c) THEN 1 ELSE 0) ELSE entries[d][x]
  BY DEF Create, Tables

-----------------------------------------------------------------------------
(* The shape of the state.                                                 *)

\* The state starts in this shape.
LEMMA ShapeInit == Init => Shape
<1> SUFFICES ASSUME Init PROVE Shape
  OBVIOUS
<1>1. Types
  <2>1. options \in 0 .. 4095
    BY Bits DEF Init, LobbyModes
  <2>2. QED BY <2>1, ConstantsAssumption DEF Init, Types, TypeOK, Nobody
<1>2. TasksShape /\ Departing /\ Closed /\ OpenForMembers
  BY ConstantsAssumption DEF Init, TasksShape, Departing, Closed, OpenForMembers, Tasks
<1>3. Past /\ Newcomers
  BY DEF Init, Past, Newcomers
<1>4. QED BY <1>1, <1>2, <1>3 DEF Shape

\* Whom a task has in its hands is a client.
LEMMA InHand ==
    ASSUME Types, TasksShape, NEW t \in Tasks, purging[t] # "off"
    PROVE  who[t] \in Clients
  BY ConstantsAssumption DEF Types, TypeOK, TasksShape, Tasks

\* A line on a page is one of a join.
LEMMA LinesVisits ==
    ASSUME Types, TasksShape, Next
    PROVE  /\ entries' \in Tables
           /\ visits' \in 0 .. MaxVisits
           /\ \A d, c \in Clients : entries'[d][c] <= visits'
<1>1. /\ entries \in Tables /\ visits \in 0 .. MaxVisits /\ MaxVisits \in Nat
      /\ \A d, c \in Clients : entries[d][c] <= visits
  BY ConstantsAssumption DEF Types, TypeOK, Tables
<1>2. ASSUME NEW ds, NEW c \in Clients
      PROVE  /\ Struck(ds, c) \in Tables
             /\ \A d, x \in Clients : Struck(ds, c)[d][x] <= visits
  <2>1. ASSUME NEW d \in Clients, NEW x \in Clients PROVE Struck(ds, c)[d][x] <= visits
    <3>1. entries[d][x] \in Nat /\ entries[d][x] <= visits
      BY <1>1 DEF Tables
    <3>2. QED BY <1>1, <3>1, StruckLines
  <2>2. QED BY <1>1, <2>1, StruckLines
<1>3. ASSUME NEW c \in Clients, NEW table \in Tables, Close(c, table),
             \A d, x \in Clients : table[d][x] <= visits
      PROVE  entries' \in Tables /\ \A d, x \in Clients : entries'[d][x] <= visits
  BY <1>1, <1>3, ClosedLines
<1>4. ASSUME NEW c \in Clients, Create(c) \/ Comes(c)
      PROVE  /\ entries' \in Tables /\ visits' \in 0 .. MaxVisits
             /\ \A d, x \in Clients : entries'[d][x] <= visits'
  <2>1. visits' = visits + 1 /\ visits < MaxVisits
    BY <1>4 DEF Create, Comes, Join, Walk, Enter, Visit
  <2>2. entries' \in Tables
    BY <1>1, <1>4, CreateLines, JoinLines
  <2>3. ASSUME NEW d \in Clients, NEW x \in Clients PROVE entries'[d][x] <= visits'
    <3>1. entries[d][x] \in Nat /\ entries[d][x] <= visits /\ visits \in Nat
      BY <1>1 DEF Tables
    <3>2. entries'[d][x] \in {0, 1, entries[d][x], entries[d][x] + 1}
      BY <1>1, <1>4, CreateLines, JoinLines
    <3>3. QED BY <2>1, <3>1, <3>2
  <2>4. QED BY <1>1, <2>1, <2>2, <2>3
<1>5. ASSUME visits' = visits, NEW c \in Clients,
             Close(c, entries) \/ \E ds \in SUBSET Clients : Close(c, Struck(ds, c))
      PROVE  /\ entries' \in Tables /\ visits' \in 0 .. MaxVisits
             /\ \A d, x \in Clients : entries'[d][x] <= visits'
  BY <1>1, <1>2, <1>3, <1>5
<1>6. ASSUME UNCHANGED <<entries, visits>>
             \/ /\ visits' = visits
                /\ \E ds \in SUBSET Clients, c \in Clients : entries' = Struck(ds, c)
      PROVE  /\ entries' \in Tables /\ visits' \in 0 .. MaxVisits
             /\ \A d, x \in Clients : entries'[d][x] <= visits'
  BY <1>1, <1>2, <1>6
<1>7. ASSUME NEW c \in Clients, PartLeave(c) \/ ReadFails(c) \/ Expire(c)
      PROVE  Close(c, entries) /\ visits' = visits
  BY <1>7 DEF PartLeave, ReadFails, Expire, comings
<1>8. ASSUME NEW c \in Clients, NEW target \in Clients, KickTell(c, target)
      PROVE  /\ Close(target, Struck(SendtoAll, target))
             /\ visits' = visits
             /\ SendtoAll \in SUBSET Clients
  BY <1>8 DEF KickTell, SendtoAll, Types, TypeOK, comings
<1>9. ASSUME NEW t \in Tasks, Deregister(t)
      PROVE  who[t] \in Clients /\ Close(who[t], entries) /\ visits' = visits
  BY <1>9, InHand DEF Deregister, comings
<1>10. ASSUME NEW t \in Tasks, Tell(t)
       PROVE  visits' = visits /\ \E ds \in SUBSET Clients, c \in Clients : entries' = Struck(ds, c)
  <2>1. who[t] \in Clients
    BY <1>10, InHand DEF Tell
  <2>2. SendtoAgents \in SUBSET Clients /\ SendtoAllButOne(who[t]) \in SUBSET Clients
    BY DEF SendtoAgents, SendtoAllButOne, Types, TypeOK
  <2>3. QED BY <1>10, <2>1, <2>2 DEF Tell, past, comings
<1>11. ASSUME PartTell
       PROVE  /\ visits' = visits
              /\ \/ entries' = entries
                 \/ \E ds \in SUBSET Clients, c \in Clients : entries' = Struck(ds, c)
  <2>1. who[Dispatcher] \in Clients
    BY <1>11 DEF PartTell, Types, TypeOK, TasksShape, Tasks
  <2>2. SendtoNonagents \cup SendtoAgents \in SUBSET Clients
    BY DEF SendtoAgents, SendtoNonagents, Types, TypeOK
  <2>3. QED BY <1>11, <2>1, <2>2 DEF PartTell, past, comings
<1>12. ASSUME NEW t \in Tasks, Tell(t) \/ Deregister(t)
       PROVE  /\ entries' \in Tables /\ visits' \in 0 .. MaxVisits
              /\ \A d, x \in Clients : entries'[d][x] <= visits'
  BY <1>5, <1>6, <1>9, <1>10, <1>12
<1>13. QED
  BY <1>4, <1>5, <1>6, <1>7, <1>8, <1>11, <1>12
     DEF Next, Comes, KickRemove, SetModes, Kill, Remove, Count, Destroy, pages, past, comings

\* Every variable keeps its type.
LEMMA TypesStep ==
    ASSUME Types, TasksShape, Next
    PROVE  Types'
<1>1. /\ entries' \in [Clients -> [Clients -> Nat]]
      /\ visits' \in 0 .. MaxVisits
      /\ \A d, c \in Clients : entries'[d][c] \in 0 .. visits'
  <2>1. ASSUME NEW d \in Clients, NEW c \in Clients PROVE entries'[d][c] \in 0 .. visits'
    <3>1. entries'[d][c] \in Nat /\ entries'[d][c] <= visits' /\ visits' \in Nat
      BY LinesVisits, ConstantsAssumption DEF Tables
    <3>2. QED BY <3>1
  <2>2. QED BY <2>1, LinesVisits DEF Tables
<1>2. options' \in Words
  <2>1. options \in Words
    BY DEF Types, TypeOK, Words
  <2>2. ASSUME NEW c \in Clients, NEW modes \in Requests, SetModes(c, modes)
        PROVE  options' \in Words
    BY <2>1, <2>2, SetModesWord
  <2>3. ASSUME NEW c \in Clients, Create(c) PROVE options' \in Words
    <3>1. options' = Bit["ClientInvites"] + Bit["SaveHistory"]
      BY <2>3 DEF Create
    <3>2. QED BY <3>1, Bits DEF Words
  <2>4. CASE options' = options
    BY <2>1, <2>4
  <2>5. QED
    BY <2>2, <2>3, <2>4
       DEF Next, Comes, Join, Walk, Enter, PartLeave, ReadFails, Expire, KickTell, Kill, PartTell, KickRemove,
           Remove, Tell, Count, Destroy, Deregister, room
<1>3. /\ stage' \in {"unborn", "listed", "removed"}
      /\ owner' \in Clients \cup {NoClient}
      /\ members' \subseteq Clients
      /\ clients' \subseteq Clients
      /\ listing' \subseteq Clients
  BY DEF Types, TypeOK, Next, Create, Comes, Join, Walk, Enter, PartLeave, ReadFails, Expire, KickTell, Kill, SetModes,
         PartTell, KickRemove, Remove, Tell, Count, Destroy, Deregister, room, tasks
<1>4. dpc' \in {"idle", "part", "kick", "kill"}
  BY DEF Types, TypeOK, Next, Create, Comes, Join, Walk, Enter, PartLeave, ReadFails, Expire, KickTell, Kill, SetModes,
         PartTell, KickRemove, Remove, Tell, Count, Destroy, Deregister, tasks
<1>5. purging' \in [Tasks -> {"off", "remove", "tell", "count", "destroy", "deregister"}]
  BY DEF Types, TypeOK, Next, Create, Comes, Join, Walk, Enter, PartLeave, ReadFails, Expire, KickTell, Kill, SetModes,
         PartTell, KickRemove, Remove, Tell, Count, Destroy, Deregister,
         Look, tasks
<1>6. who' \in [Tasks -> Clients \cup {NoClient}]
  BY DEF Types, TypeOK, Next, Create, Comes, Join, Walk, Enter, PartLeave, ReadFails, Expire, KickTell, Kill, SetModes,
         PartTell, KickRemove, Remove, Tell, Count, Destroy, Deregister,
         Look, tasks
<1>7. tab' \subseteq Clients /\ opened' \subseteq Clients /\ hid' \subseteq Clients
  BY DEF Types, TypeOK, Next, Create, Comes, Join, Walk, Enter, PartLeave, ReadFails, Expire, KickTell, Kill, SetModes,
         PartTell, KickRemove, Remove, Tell, Count, Destroy, Deregister, Close, pages, past
<1>8. early' \subseteq Clients \X Clients
  BY DEF Types, TypeOK, Next, Create, Comes, Join, Walk, Enter, PartLeave, ReadFails, Expire, KickTell, Kill, SetModes,
         PartTell, KickRemove, Remove, Tell, Count, Destroy, Deregister, Close, past
<1>9. missed' \subseteq Clients \X Clients /\ fresh' \subseteq Clients
  BY DEF Types, TypeOK, Next, Create, Comes, Join, Walk, Enter, PartLeave, ReadFails, Expire, KickTell,
         Kill, SetModes, PartTell, KickRemove, Remove, Tell, Count, Destroy, Deregister, Close,
         MissedBut, past, comings
<1>10. QED
  BY <1>1, <1>2, <1>3, <1>4, <1>5, <1>6, <1>7, <1>8, <1>9 DEF Types, TypeOK, Words

\* The tasks take turns with one client each.
LEMMA TasksShapeStep ==
    ASSUME Types, TasksShape, Next
    PROVE  TasksShape'
<1> USE ConstantsAssumption DEF Tasks
<1>1. ASSUME NEW c \in Clients, ReadFails(c) PROVE TasksShape'
  BY <1>1 DEF ReadFails, Look, Types, TypeOK, TasksShape
<1>2. ASSUME NEW c \in Clients, Expire(c) PROVE TasksShape'
  BY <1>2 DEF Expire, Look, Types, TypeOK, TasksShape
<1>3. ASSUME NEW c \in Clients, NEW target \in Clients, Kill(c, target) PROVE TasksShape'
  BY <1>3 DEF Kill, Request, Look, Types, TypeOK, TasksShape
<1>4. ASSUME NEW c \in Clients, NEW target \in Clients, KickTell(c, target) PROVE TasksShape'
  BY <1>4 DEF KickTell, Request, Types, TypeOK, TasksShape
<1>5. ASSUME NEW c \in Clients, PartLeave(c) PROVE TasksShape'
  BY <1>5 DEF PartLeave, Request, Types, TypeOK, TasksShape
<1>6. CASE PartTell \/ KickRemove
  BY <1>6 DEF PartTell, KickRemove, Types, TypeOK, TasksShape
<1>7. ASSUME NEW t \in Tasks, Remove(t) \/ Tell(t) \/ Count(t) \/ Destroy(t) PROVE TasksShape'
  BY <1>7 DEF Remove, Tell, Count, Destroy, Types, TypeOK, TasksShape
<1>8. ASSUME NEW t \in Tasks, Deregister(t) PROVE TasksShape'
  BY <1>8 DEF Deregister, Types, TypeOK, TasksShape
<1>9. CASE UNCHANGED <<purging, who, dpc>>
  BY <1>9 DEF TasksShape
<1>10. QED
  BY <1>1, <1>2, <1>3, <1>4, <1>5, <1>6, <1>7, <1>8, <1>9
     DEF Next, Create, Comes, Join, Walk, Enter, SetModes, tasks

\* The dispatcher has the page closed before it takes anybody out.
LEMMA DepartingStep ==
    ASSUME Types, TasksShape, Departing, Next
    PROVE  Departing'
<1> USE ConstantsAssumption DEF Tasks
<1>1. ASSUME NEW c \in Clients, ReadFails(c) \/ Expire(c) PROVE Departing'
  BY <1>1 DEF ReadFails, Expire, Look, Close, room, Types, TypeOK, Departing
<1>2. ASSUME NEW c \in Clients, PartLeave(c) PROVE Departing'
  BY <1>2 DEF PartLeave, Close, Types, TypeOK, Departing
<1>3. ASSUME NEW c \in Clients, NEW target \in Clients, KickTell(c, target) PROVE Departing'
  BY <1>3 DEF KickTell, Close, Types, TypeOK, Departing
<1>4. ASSUME NEW t \in Tasks, Remove(t) \/ Tell(t) \/ Count(t) \/ Destroy(t) PROVE Departing'
  BY <1>4 DEF Remove, Tell, Count, Destroy, room, pages, Types, TypeOK, Departing
<1>5. ASSUME NEW t \in Tasks, Deregister(t) PROVE Departing'
  BY <1>5 DEF Deregister, Close, room, Types, TypeOK, Departing, TasksShape
<1>6. CASE UNCHANGED <<who, dpc, tab, members>>
  BY <1>6 DEF Departing
<1>7. ASSUME NEW c \in Clients, Create(c) \/ Comes(c) PROVE Departing'
  BY <1>7 DEF Create, Comes, Join, Walk, Enter, Request, Departing
<1>8. CASE PartTell \/ KickRemove \/ \E c, target \in Clients : Kill(c, target)
  BY <1>8 DEF PartTell, KickRemove, Kill, Departing
<1>9. QED
  BY <1>1, <1>2, <1>3, <1>4, <1>5, <1>6, <1>7, <1>8 DEF Next, Comes, SetModes, room, tasks, pages

\* A page without the room gets no lines.
LEMMA ClosedStep ==
    ASSUME Types, TasksShape, Closed, Next
    PROVE  Closed'
<1>1. entries \in Tables /\ \A d \in Clients \ tab : \A x \in Clients : entries[d][x] = 0
  BY DEF Types, Tables, Closed, Nobody
<1>2. entries' \in Tables
  BY LinesVisits
<1>3. ASSUME \A d \in Clients \ tab' : \A x \in Clients : entries'[d][x] = 0
      PROVE  \A d \in Clients \ tab' : entries'[d] = Nobody
  BY <1>2, <1>3 DEF Tables, Nobody
<1>4. ASSUME NEW ds, NEW c \in Clients
      PROVE  /\ Struck(ds, c) \in Tables
             /\ \A d \in Clients \ tab : \A x \in Clients : Struck(ds, c)[d][x] = 0
  BY <1>1, StruckLines
<1>5. ASSUME NEW c \in Clients, NEW table \in Tables, Close(c, table),
             \A d \in Clients \ tab : \A x \in Clients : table[d][x] = 0
      PROVE  tab' = tab \ {c} /\ \A d \in Clients \ tab' : \A x \in Clients : entries'[d][x] = 0
  <2>1. tab' = tab \ {c}
    BY <1>5 DEF Close
  <2>2. ASSUME NEW d \in Clients \ tab', NEW x \in Clients PROVE entries'[d][x] = 0
    BY <1>5, <2>1, <2>2, ClosedLines
  <2>3. QED BY <2>1, <2>2
<1>6. ASSUME NEW c \in Clients, Create(c) PROVE Closed'
  <2>1. \A d \in Clients \ tab' : \A x \in Clients : entries'[d][x] = 0
    BY <1>1, <1>6, CreateLines DEF Create, Closed
  <2>2. QED BY <1>3, <1>6, <2>1 DEF Create, Closed
<1>7. ASSUME NEW c \in Clients, Comes(c) PROVE Closed'
  <2>1. ASSUME NEW d \in Clients \ tab', NEW x \in Clients PROVE entries'[d][x] = 0
    <3>1. CASE d = c
      <4>1. ~Sees(c)
        BY <1>7, <3>1 DEF Comes, Join, Walk, Enter
      <4>2. QED BY <1>1, <1>7, <3>1, <4>1, JoinLines DEF GetsNames, GetsList, GetsLobbyList
    <3>2. CASE d # c
      <4>1. d \notin tab
        BY <1>7 DEF Comes, Join, Walk, Enter
      <4>2. QED BY <1>1, <1>7, <3>2, <4>1, JoinLines
    <3>3. QED BY <3>1, <3>2
  <2>2. QED BY <1>3, <1>7, <2>1 DEF Comes, Join, Walk, Enter, Closed
<1>8. ASSUME stage # "unborn" => stage' # "unborn",
             stage' = "unborn" => members' \subseteq members /\ tab' \subseteq tab,
             \A d \in Clients \ tab' : \A x \in Clients : entries'[d][x] = 0
      PROVE  Closed'
  BY <1>3, <1>8 DEF Closed
<1>9. ASSUME NEW c \in Clients, PartLeave(c) \/ ReadFails(c) \/ Expire(c) PROVE Closed'
  <2>1. Close(c, entries) /\ stage' = stage /\ members' \subseteq members
    BY <1>9 DEF PartLeave, ReadFails, Expire, room
  <2>2. QED BY <1>1, <1>5, <1>8, <2>1
<1>10. ASSUME NEW c \in Clients, NEW target \in Clients, KickTell(c, target) PROVE Closed'
  <2>1. Close(target, Struck(SendtoAll, target)) /\ stage' = stage /\ members' = members
    BY <1>10 DEF KickTell, room
  <2>2. QED BY <1>4, <1>5, <1>8, <2>1
<1>11. ASSUME NEW t \in Tasks, Deregister(t) PROVE Closed'
  <2>1. who[t] \in Clients /\ Close(who[t], entries) /\ stage' = stage /\ members' = members
    BY <1>11, InHand DEF Deregister, room
  <2>2. QED BY <1>1, <1>5, <1>8, <2>1
<1>12. ASSUME NEW t \in Tasks, Tell(t) PROVE Closed'
  <2>1. who[t] \in Clients /\ stage' = stage /\ members' = members /\ tab' = tab
    BY <1>12, InHand DEF Tell, room
  <2>2. QED BY <1>4, <1>8, <1>12, <2>1 DEF Tell
<1>13. CASE PartTell
  <2>1. who[Dispatcher] \in Clients
    BY <1>13 DEF PartTell, Types, TypeOK, TasksShape, Tasks
  <2>2. tab' = tab /\ members' = members /\ stage' \in {stage, "removed"}
    BY <1>13 DEF PartTell
  <2>3. \A d \in Clients \ tab : \A x \in Clients : entries'[d][x] = 0
    BY <1>1, <1>4, <1>13, <2>1 DEF PartTell
  <2>4. QED BY <1>8, <2>2, <2>3
<1>14. CASE /\ UNCHANGED <<tab, entries>>
            /\ members' \subseteq members
            /\ stage' \in {stage, "removed"}
  BY <1>1, <1>8, <1>14
<1>15. QED
  BY <1>6, <1>7, <1>9, <1>10, <1>11, <1>12, <1>13, <1>14
     DEF Next, Comes, KickRemove, SetModes, Kill, Remove, Count, Destroy, pages, room

\* Who has the room open without being in it is being taken out.
LEMMA OpenStep ==
    ASSUME Types, TasksShape, Departing, OpenForMembers, Next
    PROVE  OpenForMembers'
<1> USE ConstantsAssumption DEF Tasks
<1>1. ASSUME NEW c \in Clients, PartLeave(c) PROVE OpenForMembers'
  BY <1>1 DEF PartLeave, Request, Close, Types, TypeOK, TasksShape, OpenForMembers
<1>2. ASSUME NEW c \in Clients, ReadFails(c) PROVE OpenForMembers'
  BY <1>2 DEF ReadFails, Look, Close, room, Types, TypeOK, TasksShape, OpenForMembers
<1>3. ASSUME NEW c \in Clients, Expire(c) PROVE OpenForMembers'
  BY <1>3 DEF Expire, Look, Close, room, Types, TypeOK, TasksShape, OpenForMembers
<1>4. ASSUME NEW c \in Clients, NEW target \in Clients, KickTell(c, target) PROVE OpenForMembers'
  BY <1>4 DEF KickTell, Request, Close, room, Types, TypeOK, TasksShape, OpenForMembers
<1>5. ASSUME NEW c \in Clients, NEW target \in Clients, Kill(c, target) PROVE OpenForMembers'
  BY <1>5 DEF Kill, Request, Look, room, pages, Types, TypeOK, TasksShape, OpenForMembers
<1>6. CASE PartTell \/ KickRemove
  BY <1>6 DEF PartTell, KickRemove, pages, Types, TypeOK, Departing, OpenForMembers
<1>7. ASSUME NEW t \in Tasks, Remove(t) PROVE OpenForMembers'
  BY <1>7 DEF Remove, pages, OpenForMembers
<1>8. ASSUME NEW t \in Tasks, Deregister(t) PROVE OpenForMembers'
  BY <1>8 DEF Deregister, Close, room, Types, TypeOK, OpenForMembers
<1>9. CASE UNCHANGED <<tab, members, who>>
  BY <1>9 DEF OpenForMembers
<1>10. ASSUME NEW c \in Clients, Create(c) \/ Comes(c) PROVE OpenForMembers'
  BY <1>10 DEF Create, Comes, Join, Walk, Enter, OpenForMembers
<1>11. QED
  BY <1>1, <1>2, <1>3, <1>4, <1>5, <1>6, <1>7, <1>8, <1>9, <1>10
     DEF Next, Comes, SetModes, Tell, Count, Destroy, room, tasks, pages

\* What a page has seen of the options is what it has seen.
LEMMA PastStep ==
    ASSUME Types, Closed, Past, Next
    PROVE  Past'
<1>1. ASSUME NEW c \in Clients, NEW table, Close(c, table), options' = options PROVE Past'
  BY <1>1 DEF Close, Past
<1>2. ASSUME NEW c \in Clients, PartLeave(c) \/ ReadFails(c) \/ Expire(c) PROVE Past'
  BY <1>1, <1>2 DEF PartLeave, ReadFails, Expire, room
<1>3. ASSUME NEW c \in Clients, NEW target \in Clients, KickTell(c, target) PROVE Past'
  BY <1>1, <1>3 DEF KickTell, room
<1>4. ASSUME NEW t \in Tasks, Deregister(t) PROVE Past'
  BY <1>4 DEF Deregister, Close, room, Past
<1>5. ASSUME NEW c \in Clients, Create(c) PROVE Past'
  <2>1. options' = 9
    BY <1>5, Bits DEF Create
  <2>2. ~Has(9, "HiddenMemberList") /\ ~Has(9, "Invisible")
    BY HasBit
  <2>3. QED BY <1>5, <2>1, <2>2 DEF Create, Hides, Past
<1>6. ASSUME NEW c \in Clients, Comes(c) PROVE Past'
  BY <1>6 DEF Comes, Join, Walk, Enter, Past
<1>7. ASSUME NEW c \in Clients, NEW modes \in Requests, SetModes(c, modes) PROVE Past'
  BY <1>7 DEF SetModes, pages, Past
<1>8. CASE UNCHANGED <<options, tab, opened, hid>>
  BY <1>8 DEF Past
<1>9. QED
  BY <1>2, <1>3, <1>4, <1>5, <1>6, <1>7, <1>8
     DEF Next, Comes, Kill, PartTell, KickRemove, Remove, Tell, Count, Destroy, room, pages, past

\* A request comes from one that is not fresh, and who walks in is so no more.
LEMMA NewcomersStep ==
    ASSUME Newcomers, Next
    PROVE  Newcomers'
<1>1. ASSUME NEW c \in Clients, Create(c) \/ Comes(c) PROVE Newcomers'
  BY <1>1 DEF Create, Comes, Join, Walk, Enter, Request, Newcomers
<1>2. ASSUME fresh' = fresh, members' \subseteq members PROVE Newcomers'
  BY <1>2 DEF Newcomers
<1>3. QED
  BY <1>1, <1>2
     DEF Next, Comes, PartLeave, ReadFails, Expire, KickTell, Kill, SetModes, PartTell, KickRemove,
         Remove, Tell, Count, Destroy, Deregister, room, comings, past

\* The state keeps its shape.
LEMMA ShapeStep == Shape /\ [Next]_vars => Shape'
<1> SUFFICES ASSUME Shape, [Next]_vars PROVE Shape'
  OBVIOUS
<1>1. CASE Next
  BY <1>1, TypesStep, TasksShapeStep, DepartingStep, ClosedStep, OpenStep, PastStep, NewcomersStep
     DEF Shape
<1>2. CASE UNCHANGED vars
  BY <1>2 DEF vars, room, tasks, pages, past, comings, Shape, Types, TypeOK, TasksShape, Departing,
              Closed, OpenForMembers, Past, Newcomers
<1>3. QED BY <1>1, <1>2

-----------------------------------------------------------------------------
(* What the pages show.                                                    *)

\* Whom a task lets go of is no member, and has closed its page, or is gone.
LEMMA SettledBefore ==
    ASSUME Shape, Next, NEW c \in Clients, Settled(c)', c \in members' \/ c \in tab'
    PROVE  Settled(c)
<1> USE ConstantsAssumption DEF Shape, Tasks
<1>1. CASE clients' \subseteq clients /\ \A t \in Tasks : who[t] = c => who'[t] = c
  BY <1>1 DEF Settled
<1>2. CASE PartTell \/ KickRemove
  <2>1. who' = [who EXCEPT ![Dispatcher] = NoClient] /\ clients' = clients
    BY <1>2 DEF PartTell, KickRemove
  <2>2. who[Dispatcher] \notin members' /\ who[Dispatcher] \notin tab'
    BY <1>2 DEF PartTell, KickRemove, Departing, pages
  <2>3. QED BY <2>1, <2>2 DEF Settled, Types, TypeOK
<1>3. ASSUME NEW t \in Tasks, Deregister(t) PROVE Settled(c)
  BY <1>3 DEF Deregister, Settled, Types, TypeOK
<1>4. ASSUME NEW x \in Clients, ReadFails(x) \/ Expire(x) PROVE Settled(c)
  BY <1>1, <1>4 DEF ReadFails, Expire, Look, Types, TypeOK, TasksShape
<1>5. ASSUME NEW x \in Clients, NEW target \in Clients, KickTell(x, target) \/ Kill(x, target)
      PROVE  Settled(c)
  BY <1>1, <1>5 DEF KickTell, Kill, Request, Look, Types, TypeOK, TasksShape
<1>6. ASSUME NEW x \in Clients, PartLeave(x) PROVE Settled(c)
  BY <1>1, <1>6 DEF PartLeave, Request, Types, TypeOK, TasksShape
<1>7. CASE UNCHANGED <<who, clients>>
  BY <1>1, <1>7
<1>8. QED
  BY <1>2, <1>3, <1>4, <1>5, <1>6, <1>7
     DEF Next, Create, Comes, Join, Walk, Enter, SetModes, Remove, Tell, Count, Destroy, tasks

\* Nor does a page forget, while it is open, that the channel was hidden.
LEMMA ReadBefore ==
    ASSUME Shape, Next, NEW d \in Clients, Reads(d)',
           \A c \in Clients : ~Create(c) /\ ~Comes(c)
    PROVE  /\ Reads(d)
           /\ d \in hid => d \in hid'
           /\ d \in opened => d \in opened'
           /\ \A c \in Clients : /\ <<d, c>> \in early => <<d, c>> \in early'
                                 /\ <<d, c>> \in missed => <<d, c>> \in missed'
<1>1. Settled(d) /\ d \in members' /\ d \in tab'
  BY SettledBefore DEF Reads
<1>2. ASSUME NEW c, NEW table, Close(c, table)
      PROVE  /\ d \in tab /\ (d \in hid => d \in hid') /\ (d \in opened => d \in opened')
             /\ \A x \in Clients : /\ <<d, x>> \in early => <<d, x>> \in early'
                                   /\ <<d, x>> \in missed => <<d, x>> \in missed'
  BY <1>1, <1>2 DEF Close
<1>3. \/ \E c, table : Close(c, table)
      \/ /\ tab' = tab /\ hid \subseteq hid' /\ opened \subseteq opened'
         /\ early' = early /\ missed' = missed
  BY DEF Next, Comes, PartLeave, ReadFails, Expire, KickTell, Kill, PartTell, KickRemove, SetModes, Remove,
         Tell, Count, Destroy, Deregister, pages, past
<1>4. members' \subseteq members
  BY DEF Next, Comes, PartLeave, ReadFails, Expire, KickTell, Kill, PartTell, KickRemove, SetModes, Remove,
         Tell, Count, Destroy, Deregister, room
<1>5. QED BY <1>1, <1>2, <1>3, <1>4 DEF Reads

\* What a step that is no join does to the page of d.
LEMMA PageBefore ==
    ASSUME Shape, Next, NEW d \in Clients, d \in tab',
           \A c \in Clients : ~Create(c) /\ ~Comes(c)
    PROVE  \/ entries'[d] = entries[d]
           \/ \E c, target \in Clients : /\ KickTell(c, target)
                                         /\ entries'[d] = Struck(SendtoAll, target)[d]
           \/ PartTell /\ entries' = Struck(SendtoNonagents \cup SendtoAgents, who[Dispatcher])
           \/ \E t \in Tasks : Tell(t)
<1> USE DEF Shape
<1>1. entries \in Tables
  BY DEF Types, Tables
<1>2. ASSUME NEW c \in Clients, NEW table \in Tables, Close(c, table) PROVE entries'[d] = table[d]
  BY <1>2, ClosedLines DEF Close
<1>3. ASSUME NEW c \in Clients, PartLeave(c) \/ ReadFails(c) \/ Expire(c)
      PROVE  entries'[d] = entries[d]
  BY <1>1, <1>2, <1>3 DEF PartLeave, ReadFails, Expire
<1>4. ASSUME NEW c \in Clients, NEW target \in Clients, KickTell(c, target)
      PROVE  entries'[d] = Struck(SendtoAll, target)[d]
  BY <1>1, <1>2, <1>4, StruckLines DEF KickTell
<1>5. ASSUME NEW t \in Tasks, Deregister(t) PROVE entries'[d] = entries[d]
  BY <1>1, <1>2, <1>5, InHand DEF Deregister
<1>6. QED
  BY <1>3, <1>4, <1>5
     DEF Next, Comes, Kill, PartTell, KickRemove, SetModes, Remove, Count, Destroy, pages

\* Whoever is told, a guest's page hears of nobody while the list is hidden.
LEMMA HiddenStep ==
    ASSUME Shape, HiddenFromGuests, Next
    PROVE  HiddenFromGuests'
<1> USE DEF Shape
<1>1. SUFFICES ASSUME NEW d \in Clients \ Agents, d \notin opened', NEW c \in Clients \ {d}
               PROVE  entries'[d][c] = 0
  BY DEF HiddenFromGuests
<1>2. entries \in Tables /\ entries' \in Tables
  BY LinesVisits DEF Types, Tables
<1>3. CASE d \notin tab'
  BY <1>3, ClosedStep DEF Closed, Nobody
<1>4. ASSUME d \in tab', NEW j \in Clients, Create(j) PROVE entries'[d][c] = 0
  BY <1>1, <1>4, CreateLines DEF Create
<1>5. ASSUME d \in tab', NEW j \in Clients, Comes(j) PROVE entries'[d][c] = 0
  <2>1. CASE d = j
    <3>1. ~GetsNames(j)
      <4>1. CASE ~Sees(j)
        BY <4>1 DEF GetsNames, GetsList, GetsLobbyList
      <4>2. CASE Sees(j)
        BY <1>1, <1>5, <2>1, <4>2
           DEF Comes, Join, Walk, Enter, GetsNames, GetsList, GetsLobbyList
      <4>3. QED BY <4>1, <4>2
    <3>2. QED BY <1>2, <1>5, <2>1, <3>1, JoinLines
  <2>2. CASE d # j
    <3>1. d \in tab /\ d \notin opened
      BY <1>1, <1>5, <2>2 DEF Comes, Join, Walk, Enter
    <3>2. entries[d][c] = 0
      BY <3>1 DEF HiddenFromGuests
    <3>3. d \notin ToldOfJoin(j)
      BY <3>1 DEF Past, ToldOfJoin, SendtoAgents, FromGuests
    <3>4. QED BY <1>2, <1>5, <2>2, <3>2, <3>3, JoinLines
  <2>3. QED BY <2>1, <2>2
<1>6. ASSUME d \in tab', \A j \in Clients : ~Create(j) /\ ~Comes(j) PROVE entries'[d][c] = 0
  <2>1. d \notin opened
    BY <1>1, <1>6
       DEF Next, Comes, PartLeave, ReadFails, Expire, KickTell, Kill, PartTell, KickRemove, SetModes,
           Remove, Tell, Count, Destroy, Deregister, Close, pages, past
  <2>2. entries[d][c] = 0
    BY <2>1 DEF HiddenFromGuests
  <2>3. ASSUME NEW ds, NEW x \in Clients PROVE Struck(ds, x)[d][c] = 0
    BY <1>2, <2>2, StruckLines
  <2>4. ASSUME NEW t \in Tasks, Tell(t) PROVE entries'[d][c] = 0
    BY <2>3, <2>4, InHand DEF Tell
  <2>5. ASSUME PartTell PROVE who[Dispatcher] \in Clients
    BY <2>5 DEF PartTell, Types, TypeOK, TasksShape, Tasks
  <2>6. QED BY <1>6, <2>2, <2>3, <2>4, <2>5, PageBefore
<1>7. QED BY <1>3, <1>4, <1>5, <1>6

\* Nobody that stays loses its line, and who comes in gets all there are.
LEMMA ShownStep ==
    ASSUME Shape, MembersShown, Next
    PROVE  MembersShown'
<1> USE DEF Shape
<1>1. SUFFICES ASSUME NEW d \in Clients, NEW c \in Clients, Reads(d)', Settled(c)',
                      c \in members' \ Unseen,
                      (d \in Agents /\ <<d, c>> \notin missed') \/ d \notin hid'
               PROVE  entries'[d][c] > 0
  BY DEF MembersShown
<1>2. entries \in Tables /\ entries' \in Tables
  BY LinesVisits DEF Types, Tables
<1>3. Settled(c) /\ Settled(d)
  BY <1>1, SettledBefore DEF Reads
<1>4. ASSUME NEW j \in Clients, Create(j) PROVE entries'[d][c] > 0
  <2>1. c = j /\ d = j /\ tab' # {}
    BY <1>1, <1>4 DEF Create, Reads
  <2>2. Connected(j)
    BY <1>4, <2>1 DEF Create
  <2>3. QED BY <1>4, <2>1, <2>2, <1>2, CreateLines
<1>5. ASSUME NEW j \in Clients, Comes(j) PROVE entries'[d][c] > 0
  <2>1. members' = members \cup {j} /\ d \in members' /\ d \in tab'
    BY <1>1, <1>5 DEF Comes, Join, Walk, Enter, Reads
  <2>2. CASE d = j
    <3>1. j \notin tab
      BY <1>3, <1>5, <2>2 DEF Comes, Join, Walk, Newcomers, OpenForMembers, Settled
    <3>2. Sees(j)
      BY <1>5, <2>1, <2>2, <3>1 DEF Comes, Join, Walk, Enter
    <3>3. ASSUME c # j PROVE c \in members /\ GetsNames(j)
      <4>1. c \in members
        BY <1>1, <2>1, <3>3
      <4>2. CASE Join(j)
        <5>1. GetsNames(j) <=> GetsList(j)
          BY <4>2 DEF Join, Request, GetsNames
        <5>2. hid' = IF Sees(j) /\ Hides(options) THEN hid \cup {j} ELSE hid
          BY <4>2 DEF Join, Enter
        <5>3. QED BY <1>1, <2>2, <3>2, <4>1, <5>1, <5>2 DEF GetsList, Hides
      <4>3. CASE Walk(j)
        <5>1. GetsNames(j) <=> GetsLobbyList(j)
          BY <4>3 DEF Walk, GetsNames
        <5>2. hid' = IF Sees(j) /\ Hides(options) THEN hid \cup {j} ELSE hid
          BY <4>3 DEF Walk, Enter
        <5>3. Has(options, "HiddenMemberList") => <<j, c>> \in missed'
          BY <4>1, <4>3 DEF Walk
        <5>4. QED BY <1>1, <2>2, <3>2, <4>1, <5>1, <5>2, <5>3 DEF GetsLobbyList, Hides
      <4>4. QED BY <1>5, <4>1, <4>2, <4>3 DEF Comes
    <3>4. QED BY <1>2, <1>5, <2>2, <3>2, <3>3, JoinLines
  <2>3. CASE d # j
    <3>1. d \in members /\ d \in tab /\ (d \in Agents \/ d \notin hid)
      BY <1>1, <1>5, <2>1, <2>3 DEF Comes, Join, Walk, Enter
    <3>2. CASE c = j
      <4>1. d \in ToldOfJoin(j)
        BY <1>1, <3>1, <3>2, HidesGuests DEF Past, ToldOfJoin, SendtoAgents, SendtoNonagents
      <4>2. entries[d][c] \in Nat /\ entries'[d][c] = entries[d][c] + 1
        BY <1>2, <1>5, <2>3, <3>1, <3>2, <4>1, JoinLines DEF Tables
      <4>3. QED BY <4>2
    <3>3. CASE c # j
      <4>1. <<d, c>> \in missed => <<d, c>> \in missed'
        BY <1>5, <2>3, <3>3 DEF Comes, Join, Walk, MissedBut
      <4>2. d \notin hid' => d \notin hid
        BY <1>5 DEF Comes, Join, Walk, Enter
      <4>3. entries[d][c] > 0
        BY <1>1, <1>3, <2>1, <3>1, <3>3, <4>1, <4>2 DEF MembersShown, Reads
      <4>4. QED BY <1>2, <1>5, <2>3, <3>3, <4>3, JoinLines
    <3>4. QED BY <3>2, <3>3
  <2>4. QED BY <2>2, <2>3
<1>6. ASSUME \A j \in Clients : ~Create(j) /\ ~Comes(j) PROVE entries'[d][c] > 0
  <2>1. /\ Reads(d) /\ d \in tab'
        /\ d \in hid => d \in hid'
        /\ <<d, c>> \in missed => <<d, c>> \in missed'
    BY <1>1, <1>6, ReadBefore DEF Reads
  <2>2. c \in members
    BY <1>1, <1>6
       DEF Next, Comes, PartLeave, ReadFails, Expire, KickTell, Kill, PartTell, KickRemove, SetModes,
           Remove, Tell, Count, Destroy, Deregister, room
  <2>3. entries[d][c] > 0
    BY <1>1, <1>3, <2>1, <2>2 DEF MembersShown
  <2>4. ASSUME NEW ds, NEW x \in Clients, x # c PROVE Struck(ds, x)[d][c] > 0
    BY <1>2, <2>3, <2>4, StruckLines
  <2>5. ASSUME NEW t \in Tasks, Tell(t) PROVE entries'[d][c] > 0
    <3>1. who[t] \in Clients /\ who[t] # c
      BY <1>3, <2>5, InHand DEF Tell, Settled
    <3>2. QED BY <2>4, <2>5, <3>1 DEF Tell
  <2>6. ASSUME PartTell PROVE who[Dispatcher] \in Clients \ {c}
    BY <1>3, <2>6 DEF PartTell, Types, TypeOK, TasksShape, Tasks, Settled
  <2>7. ASSUME NEW x \in Clients, NEW target \in Clients, KickTell(x, target) PROVE target # c
    BY <1>1, <2>7 DEF KickTell, Settled, Types, TypeOK, Tasks
  <2>8. QED BY <1>6, <2>1, <2>3, <2>4, <2>5, <2>6, <2>7, PageBefore
<1>7. QED BY <1>4, <1>5, <1>6

\* What is due of a client goes down only when somebody is told.
LEMMA DueKept ==
    ASSUME Shape, Next, NEW c \in Clients, ~PartTell,
           \A x \in Clients : ~Create(x) /\ ~Comes(x),
           \A x, target \in Clients : ~KickTell(x, target),
           \A t \in Tasks : ~Tell(t)
    PROVE  Due(c) <= Due(c)'
<1> USE ConstantsAssumption DEF Shape, Tasks
<1>1. ASSUME c \in members /\ ~Told(c) => c \in members' /\ ~Told(c)',
             purging[c] = "tell" => purging'[c] = "tell",
             (dpc = "part" /\ who[Dispatcher] = c) => (dpc' = "part" /\ who'[Dispatcher] = c)
      PROVE  Due(c) <= Due(c)'
  BY <1>1 DEF Due
<1>2. ASSUME NEW x \in Clients, PartLeave(x) PROVE Due(c) <= Due(c)'
  BY <1>1, <1>2 DEF PartLeave, Request, Due, Told, Quitting, Types, TypeOK, TasksShape
<1>3. ASSUME NEW x \in Clients, ReadFails(x) PROVE Due(c) <= Due(c)'
  BY <1>1, <1>3 DEF ReadFails, Look, room, Told, Quitting, Types, TypeOK, TasksShape
<1>4. ASSUME NEW x \in Clients, Expire(x) PROVE Due(c) <= Due(c)'
  BY <1>1, <1>4 DEF Expire, Look, room, Told, Quitting, Types, TypeOK, TasksShape
<1>5. ASSUME NEW x \in Clients, NEW target \in Clients, Kill(x, target) PROVE Due(c) <= Due(c)'
  BY <1>1, <1>5 DEF Kill, Request, Look, room, Told, Quitting, Types, TypeOK, TasksShape
<1>6. CASE KickRemove
  BY <1>1, <1>6 DEF KickRemove, Told, Quitting, Types, TypeOK, TasksShape
<1>7. ASSUME NEW t \in Tasks, Remove(t) PROVE Due(c) <= Due(c)'
  BY <1>1, <1>7 DEF Remove, Due, Told, Quitting, Types, TypeOK, TasksShape
<1>8. ASSUME NEW t \in Tasks, Count(t) \/ Destroy(t) PROVE Due(c) <= Due(c)'
  BY <1>1, <1>8 DEF Count, Destroy, room, Told, Quitting, Types, TypeOK, TasksShape
<1>9. ASSUME NEW t \in Tasks, Deregister(t) PROVE Due(c) <= Due(c)'
  BY <1>1, <1>9 DEF Deregister, room, Told, Quitting, Types, TypeOK, TasksShape
<1>10. CASE UNCHANGED <<members, who, dpc, purging>>
  BY <1>1, <1>10 DEF Told, Quitting
<1>11. QED
  BY <1>2, <1>3, <1>4, <1>5, <1>6, <1>7, <1>8, <1>9, <1>10 DEF Next, Comes, SetModes, tasks

\* Every line is of a member or of a departure that is still to be told, unless
\* it came too late for that.
LEMMA LinesDueStep ==
    ASSUME Shape, LinesDue, Next
    PROVE  LinesDue'
<1> USE DEF Shape
<1>1. SUFFICES ASSUME NEW d \in Clients, NEW c \in Clients, Reads(d)', d # c,
                      d \notin hid', <<d, c>> \notin early'
               PROVE  entries'[d][c] <= Due(c)'
  BY DEF LinesDue
<1>2. entries \in Tables /\ entries' \in Tables
  BY LinesVisits DEF Types, Tables
<1>3. entries[d][c] \in Nat /\ entries'[d][c] \in Nat
  BY <1>2 DEF Tables
<1>4. ASSUME NEW j \in Clients, Create(j) PROVE entries'[d][c] <= Due(c)'
  <2>1. stage = "unborn" /\ d = j
    BY <1>1, <1>4 DEF Create, Reads
  <2>2. entries[d][c] = 0
    BY <2>1 DEF Closed, Nobody
  <2>3. entries'[d][c] = 0
    BY <1>1, <1>2, <1>4, <2>2, CreateLines
  <2>4. QED BY <2>3 DEF Due
<1>5. ASSUME NEW j \in Clients, Comes(j) PROVE entries'[d][c] <= Due(c)'
  <2>1. /\ dpc = "idle" /\ j \notin members /\ members' = members \cup {j}
        /\ UNCHANGED <<who, purging, dpc>>
        /\ early \subseteq early' /\ hid \subseteq hid'
    BY <1>5 DEF Comes, Join, Walk, Enter, Request, Newcomers
  <2>2. d \in members' /\ d \in tab' /\ Settled(d)
    BY <1>1, SettledBefore DEF Reads
  <2>3. purging[Dispatcher] = "off" /\ who[Dispatcher] \notin Clients
    BY <2>1, ConstantsAssumption DEF TasksShape
  <2>4. Told(c)' <=> Quitting(c)
    BY <2>1, <2>3 DEF Told, Quitting
  <2>5. CASE d = j
    <3>1. entries'[d][c] \in {0, 1} /\ (entries'[d][c] = 1 => c \in members)
      BY <1>1, <1>2, <1>5, <2>5, JoinLines
    <3>2. c \in members => ~Quitting(c)
      BY <1>1, <1>5, <2>2, <2>5 DEF Comes, Join, Walk, Enter
    <3>3. QED BY <2>1, <2>4, <3>1, <3>2 DEF Due
  <2>6. CASE d # j
    <3>1. Reads(d) /\ d \notin hid /\ <<d, c>> \notin early /\ d \in members \cap tab
      BY <1>1, <1>5, <2>1, <2>2, <2>6 DEF Reads, Comes, Join, Walk, Enter
    <3>2. entries[d][c] <= Due(c)
      BY <1>1, <3>1 DEF LinesDue
    <3>3. CASE c = j
      <4>1. ~Quitting(c)
        BY <1>1, <1>5, <2>2, <3>1, <3>3 DEF Comes, Join, Walk, Enter
      <4>2. entries'[d][c] <= entries[d][c] + 1
        BY <1>2, <1>3, <1>5, <2>6, <3>3, JoinLines
      <4>3. Due(c)' = Due(c) + 1 /\ Due(c) \in Nat
        BY <2>1, <2>4, <3>3, <4>1 DEF Due
      <4>4. QED BY <1>3, <3>2, <4>2, <4>3
    <3>4. CASE c # j
      <4>1. entries'[d][c] = entries[d][c]
        BY <1>2, <1>5, <2>6, <3>4, JoinLines
      <4>2. Due(c)' = Due(c)
        BY <2>1, <3>4 DEF Due, Told, Quitting
      <4>3. QED BY <3>2, <4>1, <4>2
    <3>5. QED BY <3>3, <3>4
  <2>7. QED BY <2>5, <2>6
<1>6. ASSUME \A j \in Clients : ~Create(j) /\ ~Comes(j) PROVE entries'[d][c] <= Due(c)'
  <2>1. Reads(d) /\ d \in members' /\ d \in tab' /\ d \notin hid /\ <<d, c>> \notin early
    BY <1>1, <1>6, ReadBefore DEF Reads
  <2>2. entries[d][c] <= Due(c) /\ Due(c) \in Nat
    BY <1>1, <2>1 DEF LinesDue, Due
  <2>3. ~FromGuests(options) /\ d \in members
    <3>1. d \in tab /\ d \in members
      BY <2>1 DEF Reads
    <3>2. QED BY <2>1, <3>1, HidesGuests DEF Past
  <2>4. ASSUME NEW ds, d \in ds, Due(c) <= Due(c)' + 1, Due(c)' \in Nat
        PROVE  Struck(ds, c)[d][c] <= Due(c)'
    <3>1. Struck(ds, c)[d][c] = IF entries[d][c] > 0 THEN entries[d][c] - 1 ELSE entries[d][c]
      BY <1>2, <2>4, StruckLines
    <3>2. QED BY <1>3, <2>2, <2>4, <3>1
  <2>5. ASSUME NEW ds, NEW x \in Clients \ {c} PROVE Struck(ds, x)[d][c] = entries[d][c]
    BY <1>2, StruckLines
  <2>6. Due(c)' \in Nat
    BY DEF Due
  <2>7. ASSUME NEW x \in Clients, NEW target \in Clients, KickTell(x, target),
               entries'[d] = Struck(SendtoAll, target)[d]
        PROVE  entries'[d][c] <= Due(c)'
    <3>1. /\ dpc = "idle" /\ who[Dispatcher] = NoClient /\ purging[Dispatcher] = "off"
          /\ dpc' = "kick" /\ who' = [who EXCEPT ![Dispatcher] = target]
          /\ UNCHANGED <<members, purging>>
      BY <2>7, ConstantsAssumption DEF KickTell, Request, room, TasksShape
    <3>2. who'[Dispatcher] = target /\ who'[Health] = who[Health]
      BY <3>1, ConstantsAssumption DEF Types, TypeOK, Tasks
    <3>3. CASE c = target
      <4>1. Told(c)'
        BY <3>1, <3>2, <3>3 DEF Told
      <4>2. Due(c) <= Due(c)' + 1
        BY <3>1, <4>1 DEF Due
      <4>3. QED BY <2>3, <2>4, <2>6, <2>7, <3>3, <4>2 DEF SendtoAll
    <3>4. CASE c # target
      <4>1. Due(c)' = Due(c)
        BY <3>1, <3>2, <3>4, ConstantsAssumption DEF Due, Told, Quitting
      <4>2. QED BY <2>2, <2>5, <2>7, <3>4, <4>1
    <3>5. QED BY <3>3, <3>4
  <2>8. ASSUME PartTell, entries' = Struck(SendtoNonagents \cup SendtoAgents, who[Dispatcher])
        PROVE  entries'[d][c] <= Due(c)'
    <3>1. /\ dpc = "part" /\ dpc' = "idle" /\ who' = [who EXCEPT ![Dispatcher] = NoClient]
          /\ who[Dispatcher] \in Clients /\ UNCHANGED <<members, purging>>
          /\ purging[Dispatcher] = "off"
      BY <2>8 DEF PartTell, Types, TypeOK, TasksShape, Tasks
    <3>2. who'[Dispatcher] = NoClient /\ who'[Health] = who[Health]
      BY <3>1, ConstantsAssumption DEF Types, TypeOK, Tasks
    <3>3. Told(c)' <=> Told(c)
      BY <3>1, <3>2 DEF Told, Quitting
    <3>4. CASE c = who[Dispatcher]
      <4>1. Due(c) = Due(c)' + 1
        BY <3>1, <3>3, <3>4 DEF Due
      <4>2. d \in SendtoNonagents \cup SendtoAgents
        BY <2>3 DEF SendtoNonagents, SendtoAgents
      <4>3. QED BY <2>4, <2>6, <2>8, <3>4, <4>1, <4>2
    <3>5. CASE c # who[Dispatcher]
      <4>1. Due(c)' = Due(c)
        BY <3>1, <3>3, <3>5 DEF Due
      <4>2. QED BY <2>2, <2>5, <2>8, <3>1, <3>5, <4>1
    <3>6. QED BY <3>4, <3>5
  <2>9. ASSUME NEW t \in Tasks, Tell(t) PROVE entries'[d][c] <= Due(c)'
    <3>1. /\ purging[t] = "tell" /\ who[t] \in Clients
          /\ purging' = [purging EXCEPT ![t] = IF t \in Clients THEN "count" ELSE "remove"]
          /\ UNCHANGED <<members, who, dpc>>
      BY <2>9, InHand DEF Tell, room
    <3>2. /\ \A u \in Tasks \ {t} : purging'[u] = purging[u]
          /\ purging'[t] = IF t \in Clients THEN "count" ELSE "remove"
      BY <3>1 DEF Types, TypeOK
    <3>3. \E ds : d \in ds \cup {who[t]} /\ entries' = Struck(ds, who[t])
      BY <2>3, <2>9 DEF Tell, SendtoAllButOne
    <3>4. CASE c = who[t]
      <4>1. Due(c) <= Due(c)' + 1
        <5>1. CASE t \in Clients
          <6>1. t = c
            BY <3>4, <5>1, ConstantsAssumption DEF TasksShape
          <6>2. Told(c)' <=> Told(c)
            BY <3>1, <3>2, <5>1, ConstantsAssumption DEF Told, Quitting, Tasks
          <6>3. QED BY <3>1, <3>2, <5>1, <6>1, <6>2 DEF Due
        <5>2. CASE t \notin Clients
          <6>1. purging'[c] = purging[c]
            BY <3>2, <5>2 DEF Tasks
          <6>2. QED BY <3>1, <6>1 DEF Due
        <5>3. QED BY <5>1, <5>2
      <4>2. QED BY <1>1, <2>4, <2>6, <3>3, <3>4, <4>1
    <3>5. CASE c # who[t]
      <4>1. Due(c)' = Due(c)
        <5>1. t # c
          BY <3>1, <3>5, ConstantsAssumption DEF TasksShape
        <5>2. purging'[c] = purging[c]
          BY <3>2, <5>1 DEF Tasks
        <5>3. Told(c)' <=> Told(c)
          BY <3>1, <3>2, <3>5 DEF Told, Quitting, Tasks
        <5>4. QED BY <3>1, <5>2, <5>3 DEF Due
      <4>2. QED BY <2>2, <2>5, <3>1, <3>3, <3>5, <4>1
    <3>6. QED BY <3>4, <3>5
  <2>10. ASSUME ~PartTell, \A x, target \in Clients : ~KickTell(x, target),
                \A t \in Tasks : ~Tell(t)
         PROVE  Due(c) <= Due(c)'
    BY <1>6, <2>10, DueKept
  <2>11. ASSUME PartTell PROVE entries' = Struck(SendtoNonagents \cup SendtoAgents, who[Dispatcher])
    BY <2>3, <2>11 DEF PartTell
  <2>12. ASSUME NEW x \in Clients, NEW target \in Clients, KickTell(x, target)
         PROVE  entries'[d] = Struck(SendtoAll, target)[d]
    <3>1. target # d
      BY <2>1, <2>12 DEF KickTell, Close
    <3>2. QED BY <1>2, <2>12, <3>1, StruckLines, ClosedLines DEF KickTell
  <2>13. CASE PartTell
    BY <2>8, <2>11, <2>13
  <2>14. CASE \E x, target \in Clients : KickTell(x, target)
    BY <2>7, <2>12, <2>14
  <2>15. CASE \E t \in Tasks : Tell(t)
    BY <2>9, <2>15
  <2>16. ASSUME ~PartTell, \A x, target \in Clients : ~KickTell(x, target),
                \A t \in Tasks : ~Tell(t)
         PROVE  entries'[d][c] <= Due(c)'
    <3>1. entries'[d] = entries[d]
      BY <1>6, <2>1, <2>16, PageBefore
    <3>2. Due(c) <= Due(c)'
      BY <2>10, <2>16
    <3>3. QED BY <1>3, <2>2, <2>6, <3>1, <3>2
  <2>17. QED BY <2>13, <2>14, <2>15, <2>16
<1>7. QED BY <1>4, <1>5, <1>6

-----------------------------------------------------------------------------
(* The theorems.                                                           *)

\* The invariant holds at the start.
LEMMA InvInit == Init => Inv
<1> SUFFICES ASSUME Init PROVE Inv
  OBVIOUS
<1>1. Shape
  BY ShapeInit
<1>2. \A d, c \in Clients : entries[d][c] = 0 /\ d \notin members
  BY DEF Init, Nobody
<1>3. MembersShown /\ HiddenFromGuests /\ LinesDue
  BY <1>2 DEF MembersShown, HiddenFromGuests, LinesDue, Reads
<1>4. QED BY <1>1, <1>3 DEF Inv

\* And every step keeps it.
LEMMA InvStep == Inv /\ [Next]_vars => Inv'
<1> SUFFICES ASSUME Inv, [Next]_vars PROVE Inv'
  OBVIOUS
<1>1. CASE Next
  BY <1>1, ShapeStep, ShownStep, HiddenStep, LinesDueStep DEF Inv
<1>2. CASE UNCHANGED vars
  <2>1. Shape'
    BY <1>2, ShapeStep DEF Inv
  <2>2. UNCHANGED <<options, members, clients, who, purging, dpc, tab, entries, opened, hid, early,
                  missed>>
    BY <1>2 DEF vars, room, tasks, pages, past
  <2>3. QED
    BY <2>1, <2>2
       DEF Inv, MembersShown, HiddenFromGuests, LinesDue, Reads, Settled, Due, Told, Quitting
<1>3. QED BY <1>1, <1>2

\* The invariant holds in every state of every run.
LEMMA InvAlways == Spec => []Inv
  BY InvInit, InvStep, PTL DEF Spec

\* Every variable has its type whatever words clients send: a mode word is one
\* of options, and no page has more lines of a client than there were joins.
THEOREM TypeOKAlways == Spec => []TypeOK
<1>1. Inv => TypeOK
  BY DEF Inv, Shape, Types
<1>2. QED BY <1>1, InvAlways, PTL

\* Agents see every member that is not invisible, but for those that were in a
\* lobby when their authentication put them in while it hid its list, and guests
\* do in a channel that was not hidden since they came in: for any number of
\* clients that join, are put in, part, are kicked, killed or time out, in any
\* interleaving of the tasks that take them out, and any changes of the modes.
THEOREM MembersShownAlways == Spec => []MembersShown
<1>1. Inv => MembersShown
  BY DEF Inv
<1>2. QED BY <1>1, InvAlways, PTL

\* As long as the member list is hidden, a guest who came in since sees nobody.
THEOREM HiddenFromGuestsAlways == Spec => []HiddenFromGuests
<1>1. Inv => HiddenFromGuests
  BY DEF Inv
<1>2. QED BY <1>1, InvAlways, PTL

\* A line is of a member or of a client that is being taken out, but for those
\* that came between the health task's Quit and its removal: the lines of a
\* client are never more than the departures that are still to be told.
THEOREM NoStrangersAlways == Spec => []NoStrangers
<1>1. Inv => NoStrangers
  <2> SUFFICES ASSUME Inv, NEW d \in Clients, NEW c \in Clients, Reads(d), d \notin hid,
                      entries[d][c] > 0, <<d, c>> \notin early
               PROVE  c \in members \/ \E t \in Tasks : who[t] = c
    BY DEF NoStrangers
  <2>1. CASE c = d
    BY <2>1 DEF Reads
  <2>2. CASE c # d
    <3>1. entries[d][c] <= Due(c) /\ entries[d][c] \in Nat
      BY <2>2 DEF Inv, LinesDue, Shape, Types
    <3>2. Due(c) # 0
      BY <3>1 DEF Due
    <3>3. c \in members \/ purging[c] = "tell" \/ who[Dispatcher] = c
      BY <3>2 DEF Due
    <3>4. purging[c] = "tell" => who[c] = c
      BY ConstantsAssumption DEF Inv, Shape, TasksShape, Tasks
    <3>5. QED BY <3>3, <3>4 DEF Tasks
  <2>3. QED BY <2>1, <2>2
<1>2. QED BY <1>1, InvAlways, PTL

\* On words, requests change the modes as they should on sets of options,
\* whatever the word asked for: an agent's replaces them all, an owner's changes
\* the two public ones and leaves the others.
THEOREM ModesAgreeAlways == Spec => ModesAgree
<1> DEFINE Agrees ==
      \A c \in Clients, modes \in Requests :
          SetModes(c, modes) =>
              Decode(options') =
                  IF c \in Agents THEN Decode(modes)
                  ELSE (Decode(options) \ PublicModes) \cup (Decode(modes) \cap PublicModes)
<1>1. Inv => Agrees
  BY SetModesWord DEF Inv, Shape, Types, TypeOK, Words
<1>2. Inv /\ [Next]_vars => [Agrees]_vars
  BY <1>1
<1>3. QED BY <1>2, InvAlways, PTL DEF ModesAgree, Spec

=============================================================================
