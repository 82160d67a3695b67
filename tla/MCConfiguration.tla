--------------------------- MODULE MCConfiguration ---------------------------
(* A user's file put together from up to two blocks, with or without a first *)
(* line, and beside it no system file or one with a setting of its own.      *)
EXTENDS Configuration

CONSTANTS m1, m2

MCTexts == {"", "meta", "logging", "session", "weston", "ldde", "environment",
            "wayland-1", "false", "x11", "junk"}

MCMigrators == {m1, m2}
Symmetry == Permutations(MCMigrators)

\* Nothing, or the header and one line.
MCRoom == {0, 5}

MCRequests == {<<"user", "user">>, <<"primary", "user">>, <<"user", "override">>}

First == {<< >>, <<Blank>>, <<VersionNote(2)>>, <<VersionKey(Unreadable)>>}

Blocks ==
  {<<Header("meta"), VersionKey(1)>>, <<Header("meta"), Junk>>,
   <<LooseHeader("meta"), VersionKey(1)>>,
   <<Header("weston"), Setting("socket_name", "wayland-1")>>,
   <<Header("weston"), Setting("socket_name", "")>>,
   <<LooseHeader("session"), Setting("wayland_display", "wayland-1")>>,
   <<Header("ldde"), Setting("executable", "")>>}

Second == {<<Header("ldde"), Setting("autostart", "false")>>,
           <<Header("session"), Setting("session_type", "x11")>>,
           <<Header("logging"), Setting("level", "junk")>>}

UserFiles == {a \o b \o c : a \in First, b \in Blocks \cup {<< >>}, c \in Second \cup {<< >>}}

SystemFile == <<Header("weston"), Setting("socket_name", "wayland-1"),
                Header("environment"), Setting("WAYLAND_DISPLAY", "wayland-1")>>

MCInitial ==
  {[override |-> Absent, user |-> u, primary |-> s, fallback |-> Absent] :
     u \in UserFiles \cup {Absent}, s \in {Absent, SystemFile}}
=============================================================================
