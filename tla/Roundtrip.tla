----------------------------- MODULE Roundtrip -----------------------------
(***************************************************************************)
(* What the host sees of an object and what it makes of it: it lists a     *)
(* folder, takes a name and a time from the listing and hands them back to *)
(* get, replace or delete the object, while edits of the profile are loaded *)
(* and other clients store under the same bucket.  A call is one step here *)
(* (GetFile, PutFile and ListObjects have their insides): this is about    *)
(* the names and the times that pass between them.                         *)
(***************************************************************************)
EXTENDS RemotePaths, TimeStamps

CONSTANTS
  Profile,     \* the name of the only profile
  Profiles,    \* what the user may make of it: [endpoint, region, access, secret, token, style, prefix]
  MaxName,     \* characters cFileName has room for, MAX_PATH - 1
  Foreign,     \* what other clients store: [key, text, modified], a text in x-amz-meta-mtime
  MaxDepth,    \* bound on the separators in a folder's path
  Now,         \* when an upload is stored
  NewNames,    \* names of local files the user uploads
  LocalTimes   \* times a local file may have

\* A file time is a 64-bit count of seconds and never the zero Time, for which
\* Upload would leave the metadata out.
FileTimes(times) == \A t \in times : t \in Times /\ -MaxInt <= t.sec /\ t.sec <= MaxInt

\* Load refuses a profile whose name is empty or holds a separator.
ASSUME NamesAssumption ==
  /\ Profile \in Seq(Characters) \ {<<>>} /\ Places(Profile, Separators) = {}
  /\ Profiles \subseteq [endpoint : STRING, region : STRING, access : STRING, secret : STRING,
                          token : STRING, style : BOOLEAN, prefix : Seq(Characters)]
  /\ \A f \in Foreign : f.key \in Seq(Characters)
  /\ \A name \in NewNames : name \in Seq(Characters)
  /\ MaxName \in Nat \ {0}

ASSUME RoundtripAssumption ==
  /\ FileTimes(LocalTimes) /\ ZeroTime \notin LocalTimes /\ Now \in Times
  /\ \A f \in Foreign : f.modified \in Times /\ IsText(f.text)

VARIABLES
  separator,   \* of the host's paths: a backslash or, on FreeBSD, a slash
  config,      \* the profile the service has loaded and validated
  clients,     \* Store.clients
  object,      \* the object in the bucket, at most one; source: the time it was uploaded with
  folder,      \* the path of the folder the host shows, empty for the root
  plain,       \* history: the names in it were plain
  entry,       \* the entry it shows there; key, prefix, modified: what it was listed from
  local        \* the modification time of the local file
vars == <<separator, config, clients, object, folder, plain, entry, local>>

NoText == [kind |-> "none"]
NoTime == [kind |-> "no time"]
NoObject == [key |-> <<>>, text |-> NoText, modified |-> ZeroTime, source |-> NoTime]
NoEntry == [name |-> <<>>, dir |-> FALSE, time |-> NoFileTime,
            key |-> <<>>, prefix |-> <<>>, modified |-> ZeroTime]

-----------------------------------------------------------------------------
(* The store. *)

DefaultRegion == "us-east-1"
Validated(profile) ==
  [profile EXCEPT !.prefix = NormalizePrefix(profile.prefix),
                  !.region = IF profile.region = "" THEN DefaultRegion ELSE profile.region]

\* What a client is made from.
Connect(profile) ==
  [endpoint |-> profile.endpoint, region |-> profile.region, access |-> profile.access,
   secret |-> profile.secret, token |-> profile.token, style |-> profile.style]

\* Mutant: the key of a client leaves the session token out.
ClientKeyWithoutToken(profile) ==
  <<profile.endpoint, profile.region, profile.access, profile.secret, profile.style>>

\* The name and the bucket are in it too; they are the same throughout.
ClientKey(profile) ==
  <<profile.endpoint, profile.region, profile.access, profile.secret, profile.token, profile.style>>

Client(profile) ==
  IF ClientKey(profile) \in DOMAIN clients THEN clients[ClientKey(profile)] ELSE Connect(profile)

\* Every request takes its client from the cache, or leaves a new one there.
Request(profile) ==
  clients' = [k \in DOMAIN clients \cup {ClientKey(profile)} |->
                IF k \in DOMAIN clients THEN clients[k] ELSE Connect(profile)]

-----------------------------------------------------------------------------
(* The host. *)

FolderPath == IF folder = <<>> THEN <<separator>> ELSE folder
PathOf(name) == folder \o <<separator>> \o name

\* A name that fills cFileName may have lost its end.
Plain(name) == Len(name) < MaxName /\ Places(name, {Backslash}) = {}

\* wfx_fill_find_data
CutName(name) == SubSeq(name, 1, Min({Len(name), MaxName}))

\* fillFindData; key and prefix are what the entry was listed from.
FillFindData(name, dir, time, key, prefix) ==
  [name |-> CutName(name), dir |-> dir, time |-> FileTime(time),
   key |-> key, prefix |-> prefix, modified |-> time]

\* resolveObject: the path must name an object of the profile.
Resolve(remote) ==
  LET parsed == ParseRemote(remote)
  IN  IF parsed.ok /\ parsed.profile = Profile THEN parsed.relative ELSE <<>>

Init ==
  /\ separator \in Separators
  /\ config \in {Validated(p) : p \in Profiles}
  /\ clients = <<>>
  /\ object = NoObject
  /\ folder = <<>>
  /\ plain = TRUE
  /\ entry = NoEntry
  /\ local \in LocalTimes

\* The root shows the profiles.
ListRoot ==
  /\ folder = <<>>
  /\ entry' = FillFindData(Profile, TRUE, ZeroTime, <<>>, <<>>)
  /\ UNCHANGED <<separator, config, clients, object, folder, plain, local>>

\* A folder shows the object if its key begins with the listing prefix, under the
\* first part of the rest; common prefixes have no time.
List ==
  LET parsed == ParseRemote(FolderPath)
      prefix == ListingPrefix(config.prefix, parsed.relative)
      name == NameUnder(prefix, object.key)
      dir == IsFolder(prefix, object.key)
  IN  /\ parsed.ok /\ parsed.profile = Profile
      /\ Request(config)
      /\ entry' = IF IsPrefix(prefix, object.key) /\ name # <<>>
                  THEN FillFindData(name, dir, IF dir THEN ZeroTime ELSE object.modified,
                                    prefix \o name, config.prefix)
                  ELSE NoEntry
      /\ UNCHANGED <<separator, config, object, folder, plain, local>>

Enter ==
  /\ entry.dir /\ Cardinality(Places(folder, {separator})) < MaxDepth
  /\ folder' = PathOf(entry.name)
  /\ plain' = (plain /\ Plain(entry.name))
  /\ entry' = NoEntry
  /\ UNCHANGED <<separator, config, clients, object, local>>

Leave ==
  /\ folder' = <<>>
  /\ plain' = TRUE
  /\ entry' = NoEntry
  /\ UNCHANGED <<separator, config, clients, object, local>>

\* FsGetFileW of the entry.  The host may pass its time along, and the best of the
\* three times becomes the file's, if it can be set.
Stamped(listed) == FirstUsable(ParseModTime(object.text), object.modified, listed)

Get(withInfo, stampFails) ==
  LET relative == Resolve(PathOf(entry.name))
      listed == IF withInfo THEN TimeFromFileTime(entry.time) ELSE ZeroTime
  IN  /\ entry # NoEntry /\ ~entry.dir
      /\ relative # <<>>
      /\ Request(config)
      /\ object # NoObject /\ ObjectKey(config.prefix, relative) = object.key
      /\ IF Stamped(listed) # ZeroTime /\ ~stampFails
         THEN local' = Stamped(listed) ELSE local' \in LocalTimes
      /\ UNCHANGED <<separator, config, object, folder, plain, entry>>

\* FsPutFileW under a new name or over the entry: PutObject replaces the object
\* and its metadata.
Put(name) ==
  LET relative == Resolve(PathOf(name))
  IN  /\ name # <<>> /\ relative # <<>>
      /\ Request(config)
      /\ object' = [key |-> ObjectKey(config.prefix, relative), text |-> FormatModTime(local),
                    modified |-> Now, source |-> local]
      /\ UNCHANGED <<separator, config, folder, plain, entry, local>>

\* FsDeleteFileW of the entry; S3 answers alike when there is no such key.
Delete ==
  LET relative == Resolve(PathOf(entry.name))
  IN  /\ entry # NoEntry /\ ~entry.dir
      /\ relative # <<>>
      /\ Request(config)
      /\ object' = IF ObjectKey(config.prefix, relative) = object.key THEN NoObject ELSE object
      /\ UNCHANGED <<separator, config, folder, plain, entry, local>>

OtherStores(stored) ==
  /\ object' = [key |-> stored.key, text |-> stored.text, modified |-> stored.modified, source |-> NoTime]
  /\ UNCHANGED <<separator, config, clients, folder, plain, entry, local>>

\* A call's snapshot finds the INI edited; ConfigCache says when it does.
Reload ==
  /\ config' \in {Validated(p) : p \in Profiles}
  /\ UNCHANGED <<separator, clients, object, folder, plain, entry, local>>

EditLocal ==
  /\ local' \in LocalTimes
  /\ UNCHANGED <<separator, config, clients, object, folder, plain, entry>>

Next ==
  \/ ListRoot \/ List \/ Enter \/ Leave
  \/ \E withInfo, stampFails \in BOOLEAN : Get(withInfo, stampFails)
  \/ \E name \in NewNames \cup {entry.name} : Put(name)
  \/ Delete
  \/ \E stored \in Foreign : OtherStores(stored)
  \/ Reload \/ EditLocal

Spec == Init /\ [][Next]_vars

-----------------------------------------------------------------------------
(* What the texts mean, told without the code's arithmetic. *)

\* The decimal number of the text, in whole nanoseconds towards zero.
Nanoseconds(text) ==
  LET fraction == IF text.point THEN (text.v * NPS) \div text.scale ELSE 0
      magnitude == text.whole * NPS + fraction
  IN  IF text.neg THEN -magnitude ELSE magnitude

Meaning(text) ==
  CASE text.kind = "unix" /\ text.whole <= MaxInt /\ ~(text.point /\ text.scale = 1) ->
         [sec |-> Nanoseconds(text) \div NPS, ns |-> Nanoseconds(text) % NPS]
    [] text.kind = "rfc3339" -> text.time
    [] OTHER -> ZeroTime

\* A FILETIME counts ticks, and nothing at or before its epoch is a time.
Ticked(t) ==
  IF t = ZeroTime \/ FileTime(t) <= 0 THEN ZeroTime
  ELSE [t EXCEPT !.ns = t.ns - (t.ns % (NPS \div TPS))]

-----------------------------------------------------------------------------
(* Properties. *)

\* What the host shows under a plain name, it gets, replaces and deletes under that
\* name, and a folder's name lists that folder, as long as the prefix is the one it
\* was listed with: ListingPrefix and ObjectKey agree through cFileName and the
\* host's paths.
ListedNameOpens ==
  LET parsed == ParseRemote(PathOf(entry.name))
  IN  (/\ entry # NoEntry /\ folder # <<>> /\ config.prefix = entry.prefix
       /\ plain /\ Plain(entry.name))
      => /\ parsed.ok /\ parsed.profile = Profile
         /\ ObjectKey(config.prefix, parsed.relative) = entry.key

\* A file that was uploaded and comes back has the time it had, to the nanosecond,
\* before the epoch too, unless the time cannot be set.
RoundTripKeepsTime ==
  [][\A withInfo \in BOOLEAN :
       Get(withInfo, FALSE) /\ object.source # NoTime /\ Usable(object.source) => local' = object.source]_vars

\* A file of another client gets the time its metadata means; when there is none
\* that a file can have, the object's own, and the listed one only after that. It is
\* told of downloads whose time can be set.
BestTimeWins ==
  [][\A withInfo \in BOOLEAN :
       Get(withInfo, FALSE) /\ object.source = NoTime =>
         CASE Usable(Meaning(object.text)) -> local' = Meaning(object.text)
           [] ~Usable(Meaning(object.text)) /\ Usable(object.modified) -> local' = object.modified
           [] OTHER -> withInfo /\ Usable(Ticked(entry.modified)) => local' = Ticked(entry.modified)]_vars

\* A request goes out with the endpoint, the path style and all of the credentials of
\* the profile as the service has it now, never with those of an earlier one.
RequestFits == Client(config) = Connect(config)
=============================================================================
