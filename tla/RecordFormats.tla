--------------------------- MODULE RecordFormats ---------------------------
(***************************************************************************)
(* What the database writes and reads again: the formats of serialise.h,   *)
(* and the records of all parts of the program, each with the fields its   *)
(* serialise writes and the fields its deserialise reads, in their order.  *)
(* Scripts are in SavedScripts.                                            *)
(*                                                                         *)
(* A save is a sequence of items, each a tag with what stands behind it.   *)
(* Only the current version is read.  The lookups that a deserialise makes *)
(* from what it has read (groupIds, roleNames, usernameMap, nicknameMap,   *)
(* wordIndices) are left out.                                              *)
(***************************************************************************)
EXTENDS Naturals, Sequences, FiniteSets, SequencesExt

-----------------------------------------------------------------------------
(* Types of fields.  A Snowflake is written as its number. *)

U64 == [kind |-> "u64"]
Snowflake == U64
Str == [kind |-> "string"]
Bool == [kind |-> "bool"]
Relative == [kind |-> "relative"]
List(of) == [kind |-> "vector", of |-> of]
Hashmap(k, v) == [kind |-> "hashmap", key |-> k, of |-> v]
OrderedMap(k, v) == [kind |-> "map", key |-> k, of |-> v]
PairOf(a, b) == [kind |-> "pair", first |-> a, second |-> b]
A(name) == [kind |-> "record", class |-> name]

\* The types of the fields, as serialise writes them, and as deserialise reads them.
Class(types, written, read) == [types |-> types, written |-> written, read |-> read]

GenericUser == Class([id |-> Str, backend |-> U64], <<"id", "backend">>, <<"id", "backend">>)
Group == Class([id |-> U64, name |-> Str, members |-> List(A("GenericUser"))],
  <<"id", "name", "members">>, <<"id", "name", "members">>)
SharedDB == Class([groups |-> Hashmap(Str, A("Group"))], <<"groups">>, <<"groups">>)

PermissionSet ==
  Class([flags |-> U64, whitelist |-> List(U64), blacklist |-> List(U64),
         role_whitelist |-> List(Snowflake), role_blacklist |-> List(Snowflake)],
    <<"flags", "whitelist", "blacklist", "role_whitelist", "role_blacklist">>,
    <<"flags", "whitelist", "blacklist", "role_whitelist", "role_blacklist">>)

TwitchUser ==
  Class([id |-> Str, username |-> Str, displayname |-> Str, groups |-> List(U64),
         permissions |-> U64, subscribedMonths |-> U64],
    <<"id", "username", "displayname", "groups", "permissions", "subscribedMonths">>,
    <<"id", "username", "displayname", "groups", "permissions", "subscribedMonths">>)
\* The caches are read in another order than they are written in.
TwitchChannel ==
  Class([id |-> Str, name |-> Str, knownUsers |-> Hashmap(Str, A("TwitchUser")),
         ffzEmotes |-> A("EmoteCacheDB"), bttvEmotes |-> A("EmoteCacheDB")],
    <<"id", "name", "knownUsers", "ffzEmotes", "bttvEmotes">>,
    <<"id", "name", "knownUsers", "bttvEmotes", "ffzEmotes">>)
TwitchDB ==
  Class([channels |-> Hashmap(Str, A("TwitchChannel")), messageLog |-> A("TwitchMessageLog"),
         globalBttvEmotes |-> A("EmoteCacheDB")],
    <<"channels", "messageLog", "globalBttvEmotes">>,
    <<"channels", "messageLog", "globalBttvEmotes">>)
TwitchMessage ==
  Class([timestamp |-> U64, userid |-> Str, username |-> Str, displayname |-> Str, channel |-> Str,
         message |-> Relative, emotePositions |-> List(Relative), isCommand |-> Bool],
    <<"timestamp", "userid", "username", "displayname", "channel", "message", "emotePositions",
      "isCommand">>,
    <<"timestamp", "userid", "username", "displayname", "channel", "message", "emotePositions",
      "isCommand">>)
TwitchMessageLog == Class([messages |-> List(A("TwitchMessage"))], <<"messages">>, <<"messages">>)

DiscordRole == Class([id |-> Snowflake, name |-> Str, discordPerms |-> U64],
  <<"id", "name", "discordPerms">>, <<"id", "name", "discordPerms">>)
DiscordChannel == Class([id |-> Snowflake, name |-> Str], <<"id", "name">>, <<"id", "name">>)
DiscordUser ==
  Class([id |-> Snowflake, username |-> Str, nickname |-> Str, permissions |-> U64,
         groups |-> List(U64), discordRoles |-> List(Snowflake)],
    <<"id", "username", "nickname", "permissions", "groups", "discordRoles">>,
    <<"id", "username", "nickname", "permissions", "groups", "discordRoles">>)
DiscordGuild ==
  Class([id |-> Snowflake, name |-> Str, roles |-> Hashmap(Snowflake, A("DiscordRole")),
         channels |-> Hashmap(Snowflake, A("DiscordChannel")),
         knownUsers |-> Hashmap(Snowflake, A("DiscordUser")),
         emotes |-> Hashmap(Str, PairOf(Snowflake, U64))],
    <<"id", "name", "roles", "channels", "knownUsers", "emotes">>,
    <<"id", "name", "roles", "channels", "knownUsers", "emotes">>)
DiscordDB ==
  Class([guilds |-> Hashmap(Snowflake, A("DiscordGuild")), messageLog |-> A("DiscordMessageLog"),
         lastSequence |-> U64, lastSession |-> Str],
    <<"guilds", "messageLog", "lastSequence", "lastSession">>,
    <<"guilds", "messageLog", "lastSequence", "lastSession">>)
DiscordMessage ==
  Class([timestamp |-> U64, messageId |-> Snowflake, userId |-> Snowflake, username |-> Str,
         nickname |-> Str, guildId |-> Snowflake, guildName |-> Str, channelId |-> Snowflake,
         channelName |-> Str, message |-> Relative, emotePositions |-> List(Relative),
         isEdit |-> Bool, isCommand |-> Bool],
    <<"timestamp", "messageId", "userId", "username", "nickname", "guildId", "guildName",
      "channelId", "channelName", "message", "emotePositions", "isEdit", "isCommand">>,
    <<"timestamp", "messageId", "userId", "username", "nickname", "guildId", "guildName",
      "channelId", "channelName", "message", "emotePositions", "isEdit", "isCommand">>)
DiscordMessageLog == Class([messages |-> List(A("DiscordMessage"))], <<"messages">>, <<"messages">>)

IRCUser ==
  Class([nickname |-> Str, username |-> Str, groups |-> List(U64), permissions |-> U64],
    <<"nickname", "username", "groups", "permissions">>,
    <<"nickname", "username", "groups", "permissions">>)
IRCChannel ==
  Class([name |-> Str, knownUsers |-> Hashmap(Str, A("IRCUser")),
         nicknameMapping |-> Hashmap(Str, Str)],
    <<"name", "knownUsers", "nicknameMapping">>, <<"name", "knownUsers", "nicknameMapping">>)
IRCServer ==
  Class([name |-> Str, hostname |-> Str, channels |-> Hashmap(Str, A("IRCChannel"))],
    <<"name", "hostname", "channels">>, <<"name", "hostname", "channels">>)
IrcDB == Class([servers |-> Hashmap(Str, A("IRCServer")), messageLog |-> A("IRCMessageLog")],
  <<"servers", "messageLog">>, <<"servers", "messageLog">>)
IRCMessage ==
  Class([timestamp |-> U64, nickname |-> Str, username |-> Str, channel |-> Str, server |-> Str,
         message |-> Relative, isCommand |-> Bool],
    <<"timestamp", "nickname", "username", "channel", "server", "message", "isCommand">>,
    <<"timestamp", "nickname", "username", "channel", "server", "message", "isCommand">>)
IRCMessageLog == Class([messages |-> List(A("IRCMessage"))], <<"messages">>, <<"messages">>)

CachedEmote == Class([name |-> Str, url |-> Str, id |-> Str, source |-> U64],
  <<"name", "url", "id", "source">>, <<"name", "url", "id", "source">>)
EmoteCacheDB ==
  Class([emotes |-> Hashmap(Str, A("CachedEmote")), lastUpdatedTimestamp |-> U64],
    <<"emotes", "lastUpdatedTimestamp">>, <<"emotes", "lastUpdatedTimestamp">>)
MessageDB == Class([rawData |-> Str], <<"rawData">>, <<"rawData">>)

Word == Class([index |-> U64, frequency |-> U64], <<"index", "frequency">>, <<"index", "frequency">>)
WordList ==
  Class([totalFrequency |-> U64, words |-> List(A("Word")), globalIndexMap |-> Hashmap(U64, U64)],
    <<"totalFrequency", "words", "globalIndexMap">>,
    <<"totalFrequency", "words", "globalIndexMap">>)
DBWord == Class([word |-> Str, flags |-> U64], <<"word", "flags">>, <<"word", "flags">>)
MarkovDB ==
  Class([table |-> OrderedMap(U64, A("WordList")), wordList |-> List(A("DBWord"))],
    <<"table", "wordList">>, <<"table", "wordList">>)

\* The scripts' part of it is in SavedScripts.
Database ==
  Class([twitchData |-> A("TwitchDB"), markovData |-> A("MarkovDB"), sharedData |-> A("SharedDB"),
         discordData |-> A("DiscordDB"), ircData |-> A("IrcDB"), messageData |-> A("MessageDB")],
    <<"twitchData", "markovData", "sharedData", "discordData", "ircData", "messageData">>,
    <<"twitchData", "markovData", "sharedData", "discordData", "ircData", "messageData">>)

Classes ==
  [GenericUser |-> GenericUser, Group |-> Group, SharedDB |-> SharedDB,
   PermissionSet |-> PermissionSet, TwitchUser |-> TwitchUser, TwitchChannel |-> TwitchChannel,
   TwitchDB |-> TwitchDB, TwitchMessage |-> TwitchMessage, TwitchMessageLog |-> TwitchMessageLog,
   DiscordRole |-> DiscordRole, DiscordChannel |-> DiscordChannel, DiscordUser |-> DiscordUser,
   DiscordGuild |-> DiscordGuild, DiscordDB |-> DiscordDB, DiscordMessage |-> DiscordMessage,
   DiscordMessageLog |-> DiscordMessageLog, IRCUser |-> IRCUser, IRCChannel |-> IRCChannel,
   IRCServer |-> IRCServer, IrcDB |-> IrcDB, IRCMessage |-> IRCMessage,
   IRCMessageLog |-> IRCMessageLog, CachedEmote |-> CachedEmote, EmoteCacheDB |-> EmoteCacheDB,
   MessageDB |-> MessageDB, Word |-> Word, WordList |-> WordList, DBWord |-> DBWord,
   MarkovDB |-> MarkovDB, Database |-> Database]

-----------------------------------------------------------------------------
(* Writer *)

Item(tag, value) == [tag |-> tag, value |-> value]

\* Mutant: the threshold belongs to the short form.
WriteU64TooShort(n) ==
  <<IF n < 128 THEN Item("TINY_U64", n % 128)
    ELSE IF n <= 65536 THEN Item("SMALL_U64", n % 65536)
    ELSE Item("U64", n)>>

\* write(uint64_t): a small number is written short.
WriteU64(n) ==
  <<IF n < 128 THEN Item("TINY_U64", n % 128)
    ELSE IF n < 65536 THEN Item("SMALL_U64", n % 65536)
    ELSE Item("U64", n)>>

RECURSIVE Write(_, _)
WriteAll(of, values) == FlattenSeq([i \in DOMAIN values |-> Write(of, values[i])])

\* A map is written in whatever order it is walked.
WriteMap(tag, t, map) ==
  LET keys == SetToSeq(DOMAIN map)
  IN <<Item(tag, 0)>> \o WriteU64(Len(keys))
     \o FlattenSeq([i \in DOMAIN keys |-> Write(t.key, keys[i]) \o Write(t.of, map[keys[i]])])

\* A record writes its own tag, then its fields.
WriteRecord(name, record) ==
  LET c == Classes[name]
  IN <<Item(name, 0)>> \o FlattenSeq([i \in DOMAIN c.written |->
                                        Write(c.types[c.written[i]], record[c.written[i]])])

Write(t, v) ==
  CASE t.kind = "u64" -> WriteU64(v)
    [] t.kind = "bool" -> <<Item(IF v THEN "BOOL_TRUE" ELSE "BOOL_FALSE", 0)>>
    [] t.kind = "string" -> <<Item("STRING", 0)>> \o WriteU64(v.size) \o <<Item("bytes", v)>>
    [] t.kind = "relative" -> <<Item("REL_STRING", 0)>> \o WriteU64(v[1]) \o WriteU64(v[2])
    [] t.kind = "vector" -> <<Item("STL_VECTOR", 0)>> \o WriteU64(Len(v)) \o WriteAll(t.of, v)
    [] t.kind = "hashmap" -> WriteMap("TSL_HASHMAP", t, v)
    [] t.kind = "map" -> WriteMap("STL_ORD_MAP", t, v)
    [] t.kind = "pair" -> <<Item("STL_PAIR", 0)>> \o Write(t.first, v[1]) \o Write(t.second, v[2])
    [] t.kind = "record" -> WriteRecord(t.class, v)

-----------------------------------------------------------------------------
(* Reader *)

\* What is not read has taken the tag.
Got(value, rest) == [ok |-> TRUE, value |-> value, rest |-> rest]
Unread(s) == [ok |-> FALSE, value |-> "", rest |-> IF s = <<>> THEN s ELSE Tail(s)]
Failed(r) == [r EXCEPT !.ok = FALSE]
TagIs(s, tags) == s # <<>> /\ Head(s).tag \in tags

ReadU64(s) ==
  IF TagIs(s, {"TINY_U64", "SMALL_U64", "U64"}) THEN Got(Head(s).value, Tail(s)) ELSE Unread(s)

ReadBool(s) ==
  IF TagIs(s, {"BOOL_TRUE", "BOOL_FALSE"}) THEN Got(Head(s).tag = "BOOL_TRUE", Tail(s)) ELSE Unread(s)

\* So many bytes are taken as the size says.
ReadString(s) ==
  LET size == IF TagIs(s, {"STRING"}) THEN ReadU64(Tail(s)) ELSE Unread(s)
  IN IF size.ok /\ TagIs(size.rest, {"bytes"}) /\ Head(size.rest).value.size = size.value
     THEN Got(Head(size.rest).value, Tail(size.rest)) ELSE Failed(size)

RECURSIVE Read(_, _), ReadMany(_, _), ReadFields(_, _, _)

\* One value after another of these types.
ReadMany(types, s) ==
  IF types = <<>> THEN Got(<<>>, s)
  ELSE LET first == Read(Head(types), s)
           others == IF first.ok THEN ReadMany(Tail(types), first.rest) ELSE first
       IN IF others.ok THEN Got(<<first.value>> \o others.value, others.rest) ELSE others

ReadTuple(tag, types, s) == IF TagIs(s, {tag}) THEN ReadMany(types, Tail(s)) ELSE Unread(s)

ReadSize(tag, s) == IF TagIs(s, {tag}) THEN ReadU64(Tail(s)) ELSE Unread(s)

\* A container: its tag, its size, its elements.
ReadSized(tag, types, s) ==
  LET size == ReadSize(tag, s)
  IN IF size.ok THEN ReadMany([i \in 1 .. size.value * Len(types) |-> types[((i - 1) % Len(types)) + 1]],
                              size.rest)
     ELSE size

\* Of two entries with one key the first stays.
MapOf(list) ==
  LET entries == 1 .. Len(list) \div 2
      key(i) == list[2 * i - 1]
      first(k) == CHOOSE i \in entries : key(i) = k /\ \A j \in 1 .. i - 1 : key(j) # k
  IN [k \in {key(i) : i \in entries} |-> list[2 * first(k)]]
ReadMap(tag, t, s) ==
  LET r == ReadSized(tag, <<t.key, t.of>>, s)
  IN IF r.ok THEN Got(MapOf(r.value), r.rest) ELSE r

ReadFields(types, order, s) ==
  IF order = <<>> THEN Got(<<>>, s)
  ELSE LET first == Read(types[Head(order)], s)
           others == IF first.ok THEN ReadFields(types, Tail(order), first.rest) ELSE first
       IN IF others.ok THEN Got((Head(order) :> first.value) @@ others.value, others.rest) ELSE others

\* What begins with another tag is a "type tag mismatch".
ReadRecord(name, s) ==
  IF TagIs(s, {name}) THEN ReadFields(Classes[name].types, Classes[name].read, Tail(s)) ELSE Unread(s)

Read(t, s) ==
  CASE t.kind = "u64" -> ReadU64(s)
    [] t.kind = "bool" -> ReadBool(s)
    [] t.kind = "string" -> ReadString(s)
    [] t.kind = "relative" -> ReadTuple("REL_STRING", <<U64, U64>>, s)
    [] t.kind = "vector" -> ReadSized("STL_VECTOR", <<t.of>>, s)
    [] t.kind = "hashmap" -> ReadMap("TSL_HASHMAP", t, s)
    [] t.kind = "map" -> ReadMap("STL_ORD_MAP", t, s)
    [] t.kind = "pair" -> ReadTuple("STL_PAIR", <<t.first, t.second>>, s)
    [] t.kind = "record" -> ReadRecord(t.class, s)
=============================================================================
