---------------------------- MODULE SavedRecords ----------------------------
(***************************************************************************)
(* Samples of every record of the database, saved and read again.          *)
(***************************************************************************)
EXTENDS RecordFormats

CONSTANTS Numbers,     \* the numbers that samples are made of, in a sequence
          MaxElements  \* bound on the length of a list or map of a sample

VARIABLES class,  \* the class of record that is saved,
          seed    \* and which sample of it

vars == <<class, seed>>

-----------------------------------------------------------------------------
(* Samples: fields of a record differ from one another. *)

NumberFor(n) == Numbers[(n % Len(Numbers)) + 1]

RECURSIVE Sample(_, _)
Sample(t, n) ==
  CASE t.kind = "u64" -> NumberFor(n)
    [] t.kind = "bool" -> n % 2 = 0
    [] t.kind = "string" -> [text |-> n, size |-> NumberFor(n)]
    [] t.kind = "relative" -> <<NumberFor(n), NumberFor(n + 1)>>
    [] t.kind = "vector" -> [i \in 1 .. n % (MaxElements + 1) |-> Sample(t.of, n + i)]
    [] t.kind \in {"hashmap", "map"} ->
         LET keys == {Sample(t.key, n + i) : i \in 1 .. n % (MaxElements + 1)}
         IN [k \in keys |-> Sample(t.of, n + 1)]
    [] t.kind = "pair" -> <<Sample(t.first, n), Sample(t.second, n + 1)>>
    [] t.kind = "record" ->
         LET fields == Classes[t.class].written
         IN [f \in Range(fields) |->
              Sample(Classes[t.class].types[f], n + (CHOOSE i \in DOMAIN fields : fields[i] = f))]

Init == class = "" /\ seed = 0

Save == /\ seed = 0
        /\ class' \in DOMAIN Classes /\ seed' \in 1 .. Len(Numbers)

Next == Save

-----------------------------------------------------------------------------

Exchanged(channel) == [channel EXCEPT !.ffzEmotes = channel.bttvEmotes,
                                      !.bttvEmotes = channel.ffzEmotes]
ExchangedIn(twitch) == [twitch EXCEPT !.channels = [name \in DOMAIN @ |-> Exchanged(@[name])]]

IsRead(cls, n) ==
  LET saved == Sample(A(cls), n)
      again == CASE cls = "TwitchChannel" -> Exchanged(saved)
                 [] cls = "TwitchDB" -> ExchangedIn(saved)
                 [] cls = "Database" -> [saved EXCEPT !.twitchData = ExchangedIn(@)]
                 [] OTHER -> saved
  IN Read(A(cls), Write(A(cls), saved)) = Got(again, <<>>)

(* What a save holds is what the next start reads, field for field and to   *)
(* the last item, for every record of every part and sizes on both sides of *)
(* every threshold of the formats, with one exception: the two emote caches *)
(* of a twitch channel come back in each other's place                      *)
(* (backends/twitch/db.cpp, TwitchChannel).                                 *)
SavedIsRead == [][vars' # vars => IsRead(class', seed')]_vars
=============================================================================
