---------------------------- MODULE Configuration ----------------------------
(***************************************************************************)
(* The configuration file from --migrate-config to the daemon's settings.  *)
(* Processes migrate files, may crash in the middle of it or run out of    *)
(* disk space; the daemon starts, loads the first file of its search path, *)
(* and stops.                                                              *)
(*                                                                         *)
(* A file is a sequence of lines, a line what the code makes of its text.  *)
(* Of the keys there is one for each way a value is treated; aliases of    *)
(* keys, quotes and numbers are left out.                                  *)
(***************************************************************************)
EXTENDS Naturals, SequencesExt

CONSTANTS
  Texts,      \* what may be the name of a section or a value
  Migrators,  \* processes of lddm --migrate-config
  Requests,   \* pairs of files they are asked to migrate from and to
  Initial,    \* what the files may be at first
  Room,       \* numbers of lines that may fit on a full disk
  MaxStarts   \* bound on the starts of the daemon

SearchPath == <<"user", "primary", "fallback">>
Paths == {"override", "user", "primary", "fallback"}

-----------------------------------------------------------------------------
(* Lines.  A header is exact when it is spelled in lower case and without  *)
(* blanks: the parser does not mind, the migrator does.                    *)

Line(kind) == [kind |-> kind, of |-> "", value |-> "", version |-> 0, exact |-> TRUE]

Blank == Line("blank")
Junk == Line("junk")                                     \* no '=' in it
Note == Line("note")
VersionNote(n) == [Note EXCEPT !.kind = "versionNote", !.version = n]
Header(s) == [Line("header") EXCEPT !.of = s]
LooseHeader(s) == [Header(s) EXCEPT !.exact = FALSE]
Setting(k, v) == [Line("setting") EXCEPT !.of = k, !.value = v]
VersionKey(n) == [Line("versionKey") EXCEPT !.version = n]

Unreadable == 99   \* a version that std::stoul does not take
CURRENT_CONFIG_VERSION == 1

SectionOf ==
  [level |-> "logging", session_type |-> "session", wayland_display |-> "session",
   socket_name |-> "weston", executable |-> "ldde", autostart |-> "ldde",
   WAYLAND_DISPLAY |-> "environment"]

Kinds == {"blank", "junk", "note", "versionNote", "header", "setting", "versionKey"}
Lines ==
  {line \in [kind : Kinds, of : Texts \cup DOMAIN SectionOf, value : Texts,
             version : Nat, exact : BOOLEAN] :
     /\ line.kind = "setting" => line.of \in DOMAIN SectionOf
     /\ line.kind = "header" => line.of \in Texts}

Absent == <<Line("absent")>>   \* no file; an empty file is << >>
Contents == Seq(Lines) \cup {Absent}

ASSUME ConfigurationAssumption ==
  /\ {"", "meta"} \subseteq Texts
  /\ Initial \subseteq [Paths -> Contents] /\ Requests \subseteq Paths \X Paths /\ Room \subseteq Nat

\* The values that are no names and have to be recognised.
LogLevels == {"INFO", "DEBUG"}
Booleans == {"true", "false"}

create_default ==
  [level |-> "INFO", session_type |-> "wayland", wayland_display |-> "wayland-0",
   socket_name |-> "wayland-0", executable |-> "ldde-session", autostart |-> "true",
   WAYLAND_DISPLAY |-> "unset"]

-----------------------------------------------------------------------------
(* Plausible bugs, each a mutated form of the definition its comment names. *)

\* Keep: the section that follows [meta] is dropped with it.
KeepNothingAfterMeta(kept, line) ==
  IF line.kind = "header" /\ line.exact /\ line.of = "meta"
    THEN [kept EXCEPT !.meta = TRUE]
    ELSE [kept EXCEPT !.lines = IF kept.meta THEN @ ELSE Append(@, line)]

\* MetaHeader: the version is not written.
MetaHeaderUnversioned == <<Note, Header("meta"), Blank>>

-----------------------------------------------------------------------------
(* ConfigParser::parse_string, line by line.                               *)

Converted(k, v) == IF k = "autostart" /\ v \notin Booleans THEN "true" ELSE v

ParseLine(parse, line) ==
  CASE line.kind = "header" -> [parse EXCEPT !.section = line.of]
    [] line.kind = "junk"   -> [parse EXCEPT !.ok = FALSE]
    [] line.kind = "setting" /\ SectionOf[line.of] = parse.section ->
         IF line.of = "level" /\ line.value \notin LogLevels
           THEN [parse EXCEPT !.ok = FALSE]
           ELSE [parse EXCEPT !.settings[line.of] = Converted(line.of, line.value)]
    [] OTHER -> parse

Parse(content, base) ==
  FoldLeft(ParseLine, [ok |-> TRUE, section |-> "", settings |-> base], content)

(* ConfigValidator::validate. *)
Valid(settings) ==
  /\ settings.session_type # "" /\ settings.socket_name # ""
  /\ settings.autostart = "true" => settings.executable # ""

\* load_file takes over what was parsed and validated.
Accepted(content) ==
  LET parse == Parse(content, create_default) IN parse.ok /\ Valid(parse.settings)

Settings(content) == Parse(content, create_default).settings

-----------------------------------------------------------------------------
(* ConfigMigrator.                                                         *)

SeeVersion(seen, line) ==
  IF seen.found THEN seen
  ELSE CASE line.kind = "versionNote" /\ line.version # Unreadable ->
              [seen EXCEPT !.found = TRUE, !.version = line.version]
         [] line.kind = "header" ->
              [seen EXCEPT !.section = IF line.exact THEN line.of ELSE "unknown"]
         [] line.kind = "versionKey" /\ seen.section \in {"", "meta", "core"} ->
              [seen EXCEPT !.found = TRUE,
                           !.version = IF line.version = Unreadable THEN 0 ELSE line.version]
         [] OTHER -> seen

detect_version(content) ==
  FoldLeft(SeeVersion, [found |-> FALSE, section |-> "", version |-> 0], content).version

MetaHeader == <<Note, Header("meta"), VersionKey(CURRENT_CONFIG_VERSION), Blank>>

Keep(kept, line) ==
  IF line.kind = "header"
    THEN IF line.exact /\ line.of = "meta"
           THEN [kept EXCEPT !.meta = TRUE]
           ELSE [meta |-> FALSE, lines |-> Append(kept.lines, line)]
    ELSE IF kept.meta THEN kept ELSE [kept EXCEPT !.lines = Append(@, line)]

Upgraded(content) ==
  MetaHeader \o FoldLeft(Keep, [meta |-> FALSE, lines |-> << >>], content).lines

\* A file of a newer schema is refused.
Migratable(content) == detect_version(content) <= CURRENT_CONFIG_VERSION

migrate_content(content) ==
  IF detect_version(content) = CURRENT_CONFIG_VERSION THEN content ELSE Upgraded(content)

-----------------------------------------------------------------------------
VARIABLES
  file,     \* content of each file
  intended, \* history: the content whose settings a file is meant to have
  cut,      \* history: files that were not written whole
  job,      \* what each process that migrates is doing
  daemon,   \* "down", "up", or "failed" when its configuration was refused
  config,   \* ConfigManager::config_ of the daemon
  meant,    \* history: what the file it loaded was meant to be, Absent if unknown
  starts    \* starts of the daemon so far

disk == <<file, intended, cut>>
vars == <<disk, job, daemon, config, meant, starts>>

At(p, place) == job[p].at = place
Exists(f) == file[f] # Absent

\* What the disk may hold after a write that runs out of space: some of the
\* lines, the last of which may be cut before its '='.
Short(content) ==
  UNION {{SubSeq(content, 1, n), Append(SubSeq(content, 1, n), Junk)} :
           n \in {k \in Room : k < Len(content)}}

Done == [at |-> "done", out |-> "user", text |-> Absent, as |-> Absent, cut |-> FALSE]

Ends(p) == job' = [job EXCEPT ![p] = Done]

(* migrate_file, up to the migrated text in memory. *)
ReadInput(p, in, out) ==
  /\ At(p, "new")
  /\ IF Exists(in) /\ Migratable(file[in])
       THEN job' = [job EXCEPT ![p] = [at |-> "write", out |-> out,
                      text |-> migrate_content(file[in]), as |-> intended[in],
                      cut |-> in \in cut]]
       ELSE Ends(p)
  /\ UNCHANGED <<disk, daemon, config, meant, starts>>

\* The temporary file has a name of its own; nobody looks whether all of the
\* text went into it.
WriteTemporary(p) ==
  /\ At(p, "write")
  /\ \/ job' = [job EXCEPT ![p].at = "rename"]
     \/ \E text \in Short(job[p].text) :
          job' = [job EXCEPT ![p].at = "rename", ![p].text = text, ![p].cut = TRUE]
  /\ UNCHANGED <<disk, daemon, config, meant, starts>>

Rename(p) ==
  /\ At(p, "rename")
  /\ file' = [file EXCEPT ![job[p].out] = job[p].text]
  /\ intended' = [intended EXCEPT ![job[p].out] = job[p].as]
  /\ cut' = IF job[p].cut THEN cut \cup {job[p].out} ELSE cut \ {job[p].out}
  /\ Ends(p)
  /\ UNCHANGED <<daemon, config, meant, starts>>

\* No temporary file, no rename, or a crash: the file is not touched.
GivesUp(p) ==
  /\ At(p, "write") \/ At(p, "rename")
  /\ Ends(p)
  /\ UNCHANGED <<disk, daemon, config, meant, starts>>

-----------------------------------------------------------------------------
(* The daemon: load_standard with the defaults as base.                    *)

MeantBy(f) == IF f \in cut THEN Absent ELSE intended[f]

Found == {i \in DOMAIN SearchPath : Exists(SearchPath[i])}

Loads(content) ==
  /\ daemon' = IF Accepted(content) THEN "up" ELSE "failed"
  /\ config' = IF Accepted(content) THEN Settings(content) ELSE create_default

Start ==
  /\ daemon = "down" /\ starts < MaxStarts
  /\ IF Found = {}
       THEN daemon' = "up" /\ config' = create_default /\ meant' = Absent
       ELSE LET first == SearchPath[Min(Found)]
            IN  Loads(file[first]) /\ meant' = MeantBy(first)
  /\ starts' = starts + 1
  /\ UNCHANGED <<disk, job>>

\* --config names the file, which has to be there.
StartWith ==
  /\ daemon = "down" /\ starts < MaxStarts
  /\ IF Exists("override")
       THEN Loads(file["override"])
       ELSE daemon' = "failed" /\ config' = create_default
  /\ meant' = MeantBy("override")
  /\ starts' = starts + 1
  /\ UNCHANGED <<disk, job>>

Stop ==
  /\ daemon # "down" /\ daemon' = "down"
  /\ UNCHANGED <<disk, job, config, meant, starts>>

Init ==
  /\ file \in Initial /\ intended = file /\ cut = {}
  /\ job = [p \in Migrators |-> [Done EXCEPT !.at = "new"]]
  /\ daemon = "down" /\ config = create_default /\ meant = Absent /\ starts = 0

Next ==
  \/ \E p \in Migrators :
       \/ \E request \in Requests : ReadInput(p, request[1], request[2])
       \/ WriteTemporary(p) \/ Rename(p) \/ GivesUp(p)
  \/ Start \/ StartWith \/ Stop

Spec == Init /\ [][Next]_vars
-----------------------------------------------------------------------------
\* config_migrator.hpp: migration preserves existing user settings.  A daemon
\* started at any moment, during migrations, after some of them crashed, or
\* after a file was migrated several times or to another path, has the
\* settings it had without them; as long as the disk is not full.
MigrationIsInvisible ==
  daemon # "down" /\ meant # Absent /\ Accepted(meant) =>
    daemon = "up" /\ config = Settings(meant)

\* A migrated file is recognised as such: to migrate it again changes nothing.
MigratesOnce ==
  \A f \in Paths : Exists(f) /\ Migratable(file[f]) =>
    LET new == migrate_content(file[f])
    IN  detect_version(new) = CURRENT_CONFIG_VERSION /\ migrate_content(new) = new

\* config_migrator.hpp: "overwrites input_path atomically": the file is what it
\* was, or what it was migrated to.
OverwritesAtomically ==
  \A f \in Paths : file[f] \in {intended[f], migrate_content(intended[f])}
=============================================================================
