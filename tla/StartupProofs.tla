---------------------------- MODULE StartupProofs ----------------------------
(* One daemon, a web server of the reach asked for and a thorough stop, for any *)
(* number of commands, crashes and changes of network.                         *)
EXTENDS Startup, TLAPS

\* A daemon that can still get the socket file.
Rising(d) == daemon[d] \in {"starting", "binding"}

\* A command that has not spawned yet has nothing running in its name.
NothingYet ==
    \A s \in Starters :
        /\ start[s] \in {"idle", "webDown", "ensureDaemon"} => daemon[s] = "none"
        /\ start[s] \in {"idle", "webDown", "ensureDaemon", "waitDaemon", "ensureWeb", "probeWeb",
                        "respawnWeb"} => web[s] = "none"

\* One command at a time, and no daemon rises while another command is active: what
\* ensureDaemon saw of the socket file is true when it spawns.
Serial ==
    ~overlapped =>
        /\ \A s, t \in Starters : Active(s) /\ Active(t) => s = t
        /\ \A s, d \in Starters : Active(s) /\ Rising(d) => s = d

\* The daemon that a command has found or brought up stays while nothing ends it.
Held ==
    (~overlapped /\ crashes = 0 /\ stop = "idle") =>
        /\ \A d \in Starters : daemon[d] # "closing"
        /\ \A s \in Starters : start[s] \in {"ensureWeb", "probeWeb", "respawnWeb", "waitWeb"}
              => daemonRunning

\* What the stop command has swept stays away while no start runs.
Swept ==
    quiet =>
        /\ stop # "idle"
        /\ \A s \in Starters : ~Active(s) /\ daemon[s] \in {"none", "closing", "dead"}
        /\ stop \in {"info", "done"} => \A s \in Starters : web[s] \in {"none", "dead"}
        /\ stop = "done" => info = "none"

StartInv == TypeOK /\ NothingYet /\ Serial /\ OneDaemon /\ Held /\ Swept

--------------------------------------------------------------------------------
(* Each part of the invariant is kept by every step.                            *)

\* Types, and addresses are taken by the web servers that listen.
LEMMA TypesKept ==
    ASSUME TypeOK, NothingYet, [Next]_vars
    PROVE  TypeOK'
<1> USE StartupAssumption DEF TypeOK, NothingYet, Reaches, endpoint, servers, bounds, history
<1>1. ASSUME NEW s \in Starters, Begin(s) PROVE TypeOK'
  BY <1>1 DEF Begin, Goto, Look
<1>2. ASSUME NEW s \in Starters, CheckWeb(s) PROVE TypeOK'
  BY <1>2 DEF CheckWeb, Goto, Look
<1>3. ASSUME NEW s \in Starters, EnsureDaemon(s) PROVE TypeOK'
  BY <1>3 DEF EnsureDaemon, Goto
<1>4. ASSUME NEW s \in Starters, WaitDaemon(s) PROVE TypeOK'
  BY <1>4 DEF WaitDaemon, Goto, Look
<1>5. ASSUME NEW s \in Starters, EnsureWeb(s) PROVE TypeOK'
  BY <1>5 DEF EnsureWeb, Goto, Look
<1>6. ASSUME NEW s \in Starters, ProbeWeb(s) PROVE TypeOK'
  BY <1>6 DEF ProbeWeb, Goto, SpawnWeb
<1>7. ASSUME NEW s \in Starters, PortTaken(s) PROVE TypeOK'
  BY <1>7 DEF PortTaken, Goto, Look
<1>8. ASSUME NEW s \in Starters, RespawnWeb(s) PROVE TypeOK'
  BY <1>8 DEF RespawnWeb, Goto, SpawnWeb
<1>9. ASSUME NEW s \in Starters, WaitWeb(s) PROVE TypeOK'
  BY <1>9 DEF WaitWeb, Goto, Look
<1>10. ASSUME NEW s \in Starters, TimeOut(s) PROVE TypeOK'
  BY <1>10 DEF TimeOut, Goto, Look
<1>11. ASSUME NEW s \in Starters, Unlink(s) PROVE TypeOK'
  BY <1>11 DEF Unlink, DaemonOnly
<1>12. ASSUME NEW s \in Starters, Bind(s) PROVE TypeOK'
  BY <1>12 DEF Bind, DaemonOnly
<1>13. ASSUME NEW s \in Starters, CloseListener(s) PROVE TypeOK'
  BY <1>13 DEF CloseListener, DaemonOnly
<1>14. ASSUME NEW s \in Starters, DaemonDies(s) PROVE TypeOK'
  BY <1>14 DEF DaemonDies, DaemonOnly
<1>15. ASSUME NEW s \in Starters, WebBinds(s) PROVE TypeOK'
  BY <1>15 DEF WebBinds, WebOnly
<1>16. ASSUME NEW s \in Starters, WritesInfo(s) PROVE TypeOK'
  BY <1>16 DEF WritesInfo, WebOnly
<1>17. ASSUME NEW s \in Starters, WebDies(s) PROVE TypeOK'
  BY <1>17 DEF WebDies, WebOnly
<1>18. ASSUME NetworkMoves PROVE TypeOK'
  <2>1. crashes' \in 0 .. MaxCrashes /\ moves' \in 0 .. MaxMoves
    BY <1>18, StartupAssumption DEF TypeOK, NetworkMoves
  <2>2. /\ UNCHANGED <<mode, start, daemon, path, web, at, info, stop, overlapped, quiet>>
        /\ current' = FALSE
    BY <1>18 DEF NetworkMoves, WebOnly, servers, history
  <2> QED
    BY <2>1, <2>2 DEF TypeOK
<1>19. ASSUME StopDaemons PROVE TypeOK'
  BY <1>19 DEF StopDaemons
<1>20. ASSUME StopWebs PROVE TypeOK'
  BY <1>20 DEF StopWebs, Found
<1>21. ASSUME RemoveInfo PROVE TypeOK'
  BY <1>21 DEF RemoveInfo
<1>22. CASE UNCHANGED vars
  BY <1>22 DEF vars
<1> QED
  BY <1>1, <1>2, <1>3, <1>4, <1>5, <1>6, <1>7, <1>8, <1>9, <1>10, <1>11, <1>12, <1>13, <1>14,
     <1>15, <1>16, <1>17, <1>18, <1>19, <1>20, <1>21, <1>22 DEF Next

\* A command spawns once.
LEMMA NothingYetKept ==
    ASSUME TypeOK, NothingYet, [Next]_vars
    PROVE  NothingYet'
<1> USE DEF TypeOK, NothingYet, endpoint, servers, bounds, history
<1>1. ASSUME NEW s \in Starters, Begin(s) PROVE NothingYet'
  BY <1>1 DEF Begin, Goto, Look
<1>2. ASSUME NEW s \in Starters, CheckWeb(s) PROVE NothingYet'
  BY <1>2 DEF CheckWeb, Goto, Look
<1>3. ASSUME NEW s \in Starters, EnsureDaemon(s) PROVE NothingYet'
  BY <1>3 DEF EnsureDaemon, Goto
<1>4. ASSUME NEW s \in Starters, WaitDaemon(s) PROVE NothingYet'
  BY <1>4 DEF WaitDaemon, Goto, Look
<1>5. ASSUME NEW s \in Starters, EnsureWeb(s) PROVE NothingYet'
  BY <1>5 DEF EnsureWeb, Goto, Look
<1>6. ASSUME NEW s \in Starters, ProbeWeb(s) PROVE NothingYet'
  BY <1>6 DEF ProbeWeb, Goto, SpawnWeb
<1>7. ASSUME NEW s \in Starters, PortTaken(s) PROVE NothingYet'
  BY <1>7 DEF PortTaken, Goto, Look
<1>8. ASSUME NEW s \in Starters, RespawnWeb(s) PROVE NothingYet'
  BY <1>8 DEF RespawnWeb, Goto, SpawnWeb
<1>9. ASSUME NEW s \in Starters, WaitWeb(s) PROVE NothingYet'
  BY <1>9 DEF WaitWeb, Goto, Look
<1>10. ASSUME NEW s \in Starters, TimeOut(s) PROVE NothingYet'
  BY <1>10 DEF TimeOut, Goto, Look
<1>11. ASSUME NEW s \in Starters, Unlink(s) PROVE NothingYet'
  BY <1>11 DEF Unlink, DaemonOnly
<1>12. ASSUME NEW s \in Starters, Bind(s) PROVE NothingYet'
  BY <1>12 DEF Bind, DaemonOnly
<1>13. ASSUME NEW s \in Starters, CloseListener(s) PROVE NothingYet'
  BY <1>13 DEF CloseListener, DaemonOnly
<1>14. ASSUME NEW s \in Starters, DaemonDies(s) PROVE NothingYet'
  BY <1>14 DEF DaemonDies, DaemonOnly
<1>15. ASSUME NEW s \in Starters, WebBinds(s) PROVE NothingYet'
  BY <1>15 DEF WebBinds, WebOnly
<1>16. ASSUME NEW s \in Starters, WritesInfo(s) PROVE NothingYet'
  BY <1>16 DEF WritesInfo, WebOnly
<1>17. ASSUME NEW s \in Starters, WebDies(s) PROVE NothingYet'
  BY <1>17 DEF WebDies, WebOnly
<1>18. ASSUME NetworkMoves PROVE NothingYet'
  BY <1>18 DEF NetworkMoves, WebOnly
<1>19. ASSUME StopDaemons PROVE NothingYet'
  BY <1>19 DEF StopDaemons
<1>20. ASSUME StopWebs PROVE NothingYet'
  BY <1>20 DEF StopWebs, Found
<1>21. ASSUME RemoveInfo PROVE NothingYet'
  BY <1>21 DEF RemoveInfo
<1>22. CASE UNCHANGED vars
  BY <1>22 DEF vars
<1> QED
  BY <1>1, <1>2, <1>3, <1>4, <1>5, <1>6, <1>7, <1>8, <1>9, <1>10, <1>11, <1>12, <1>13, <1>14,
     <1>15, <1>16, <1>17, <1>18, <1>19, <1>20, <1>21, <1>22 DEF Next

\* A command that begins alone stays alone until another one begins.
LEMMA SerialKept ==
    ASSUME TypeOK, NothingYet, Serial, OneDaemon, [Next]_vars
    PROVE  Serial'
<1> USE DEF TypeOK, NothingYet, Serial, OneDaemon, Alive, Active, Rising, daemonRunning,
            ComingUp, endpoint, servers, bounds, history
<1>1. ASSUME NEW s \in Starters, Begin(s) PROVE Serial'
  BY <1>1 DEF Begin, Goto, Look
<1>2. ASSUME NEW s \in Starters, CheckWeb(s) PROVE Serial'
  BY <1>2 DEF CheckWeb, Goto, Look
<1>3. ASSUME NEW s \in Starters, EnsureDaemon(s) PROVE Serial'
  BY <1>3 DEF EnsureDaemon, Goto
<1>4. ASSUME NEW s \in Starters, WaitDaemon(s) PROVE Serial'
  BY <1>4 DEF WaitDaemon, Goto, Look
<1>5. ASSUME NEW s \in Starters, EnsureWeb(s) PROVE Serial'
  BY <1>5 DEF EnsureWeb, Goto, Look
<1>6. ASSUME NEW s \in Starters, ProbeWeb(s) PROVE Serial'
  BY <1>6 DEF ProbeWeb, Goto, SpawnWeb
<1>7. ASSUME NEW s \in Starters, PortTaken(s) PROVE Serial'
  BY <1>7 DEF PortTaken, Goto, Look
<1>8. ASSUME NEW s \in Starters, RespawnWeb(s) PROVE Serial'
  BY <1>8 DEF RespawnWeb, Goto, SpawnWeb
<1>9. ASSUME NEW s \in Starters, WaitWeb(s) PROVE Serial'
  BY <1>9 DEF WaitWeb, Goto, Look
<1>10. ASSUME NEW s \in Starters, TimeOut(s) PROVE Serial'
  BY <1>10 DEF TimeOut, Goto, Look
<1>11. ASSUME NEW s \in Starters, Unlink(s) PROVE Serial'
  BY <1>11 DEF Unlink, DaemonOnly
<1>12. ASSUME NEW s \in Starters, Bind(s) PROVE Serial'
  BY <1>12 DEF Bind, DaemonOnly
<1>13. ASSUME NEW s \in Starters, CloseListener(s) PROVE Serial'
  BY <1>13 DEF CloseListener, DaemonOnly
<1>14. ASSUME NEW s \in Starters, DaemonDies(s) PROVE Serial'
  BY <1>14 DEF DaemonDies, DaemonOnly
<1>15. ASSUME NEW s \in Starters, WebBinds(s) PROVE Serial'
  BY <1>15 DEF WebBinds, WebOnly
<1>16. ASSUME NEW s \in Starters, WritesInfo(s) PROVE Serial'
  BY <1>16 DEF WritesInfo, WebOnly
<1>17. ASSUME NEW s \in Starters, WebDies(s) PROVE Serial'
  BY <1>17 DEF WebDies, WebOnly
<1>18. ASSUME NetworkMoves PROVE Serial'
  BY <1>18 DEF NetworkMoves, WebOnly
<1>19. ASSUME StopDaemons PROVE Serial'
  BY <1>19 DEF StopDaemons
<1>20. ASSUME StopWebs PROVE Serial'
  BY <1>20 DEF StopWebs, Found
<1>21. ASSUME RemoveInfo PROVE Serial'
  BY <1>21 DEF RemoveInfo
<1>22. CASE UNCHANGED vars
  BY <1>22 DEF vars
<1> QED
  BY <1>1, <1>2, <1>3, <1>4, <1>5, <1>6, <1>7, <1>8, <1>9, <1>10, <1>11, <1>12, <1>13, <1>14,
     <1>15, <1>16, <1>17, <1>18, <1>19, <1>20, <1>21, <1>22 DEF Next

\* A daemon is spawned where none is, and only the one that lives touches the file.
LEMMA OneDaemonKept ==
    ASSUME TypeOK, NothingYet, Serial, OneDaemon, [Next]_vars
    PROVE  OneDaemon'
<1> USE DEF TypeOK, NothingYet, Serial, OneDaemon, Alive, Active, Rising, daemonRunning,
            ComingUp, endpoint, servers, bounds, history
<1>1. ASSUME NEW s \in Starters, Begin(s) PROVE OneDaemon'
  BY <1>1 DEF Begin, Goto, Look
<1>2. ASSUME NEW s \in Starters, CheckWeb(s) PROVE OneDaemon'
  BY <1>2 DEF CheckWeb, Goto, Look
<1>3. ASSUME NEW s \in Starters, EnsureDaemon(s) PROVE OneDaemon'
  <2>1. CASE daemonRunning
    BY <1>3, <2>1 DEF EnsureDaemon, Goto
  <2>2. CASE ~daemonRunning
    <3> SUFFICES ASSUME ~overlapped PROVE OneDaemon'
      BY <1>3 DEF EnsureDaemon
    <3>1. \A d \in Starters : daemon[d] \in {"none", "dead"}
      BY <1>3, <2>2, StartupAssumption DEF EnsureDaemon
    <3>2. daemon' = [daemon EXCEPT ![s] = "starting"]
      BY <1>3, <2>2 DEF EnsureDaemon
    <3> QED
      BY <3>1, <3>2
  <2> QED
    BY <2>1, <2>2
<1>4. ASSUME NEW s \in Starters, WaitDaemon(s) PROVE OneDaemon'
  BY <1>4 DEF WaitDaemon, Goto, Look
<1>5. ASSUME NEW s \in Starters, EnsureWeb(s) PROVE OneDaemon'
  BY <1>5 DEF EnsureWeb, Goto, Look
<1>6. ASSUME NEW s \in Starters, ProbeWeb(s) PROVE OneDaemon'
  BY <1>6 DEF ProbeWeb, Goto, SpawnWeb
<1>7. ASSUME NEW s \in Starters, PortTaken(s) PROVE OneDaemon'
  BY <1>7 DEF PortTaken, Goto, Look
<1>8. ASSUME NEW s \in Starters, RespawnWeb(s) PROVE OneDaemon'
  BY <1>8 DEF RespawnWeb, Goto, SpawnWeb
<1>9. ASSUME NEW s \in Starters, WaitWeb(s) PROVE OneDaemon'
  BY <1>9 DEF WaitWeb, Goto, Look
<1>10. ASSUME NEW s \in Starters, TimeOut(s) PROVE OneDaemon'
  BY <1>10 DEF TimeOut, Goto, Look
<1>11. ASSUME NEW s \in Starters, Unlink(s) PROVE OneDaemon'
  BY <1>11 DEF Unlink, DaemonOnly
<1>12. ASSUME NEW s \in Starters, Bind(s) PROVE OneDaemon'
  BY <1>12 DEF Bind, DaemonOnly
<1>13. ASSUME NEW s \in Starters, CloseListener(s) PROVE OneDaemon'
  BY <1>13 DEF CloseListener, DaemonOnly
<1>14. ASSUME NEW s \in Starters, DaemonDies(s) PROVE OneDaemon'
  BY <1>14 DEF DaemonDies, DaemonOnly
<1>15. ASSUME NEW s \in Starters, WebBinds(s) PROVE OneDaemon'
  BY <1>15 DEF WebBinds, WebOnly
<1>16. ASSUME NEW s \in Starters, WritesInfo(s) PROVE OneDaemon'
  BY <1>16 DEF WritesInfo, WebOnly
<1>17. ASSUME NEW s \in Starters, WebDies(s) PROVE OneDaemon'
  BY <1>17 DEF WebDies, WebOnly
<1>18. ASSUME NetworkMoves PROVE OneDaemon'
  BY <1>18 DEF NetworkMoves, WebOnly
<1>19. ASSUME StopDaemons PROVE OneDaemon'
  BY <1>19 DEF StopDaemons
<1>20. ASSUME StopWebs PROVE OneDaemon'
  BY <1>20 DEF StopWebs, Found
<1>21. ASSUME RemoveInfo PROVE OneDaemon'
  BY <1>21 DEF RemoveInfo
<1>22. CASE UNCHANGED vars
  BY <1>22 DEF vars
<1> QED
  BY <1>1, <1>2, <1>3, <1>4, <1>5, <1>6, <1>7, <1>8, <1>9, <1>10, <1>11, <1>12, <1>13, <1>14,
     <1>15, <1>16, <1>17, <1>18, <1>19, <1>20, <1>21, <1>22 DEF Next

\* What a command found, or waited for, is still there.
LEMMA HeldKept ==
    ASSUME TypeOK, NothingYet, Serial, OneDaemon, Held, [Next]_vars
    PROVE  Held'
<1> USE DEF TypeOK, Held, Serial, OneDaemon, Alive, Active, Rising, daemonRunning,
            ComingUp, endpoint, servers, bounds, history
<1>1. ASSUME NEW s \in Starters, Begin(s) PROVE Held'
  BY <1>1 DEF Begin, Goto, Look
<1>2. ASSUME NEW s \in Starters, CheckWeb(s) PROVE Held'
  BY <1>2 DEF CheckWeb, Goto, Look
<1>3. ASSUME NEW s \in Starters, EnsureDaemon(s) PROVE Held'
  BY <1>3 DEF EnsureDaemon, Goto
<1>4. ASSUME NEW s \in Starters, WaitDaemon(s) PROVE Held'
  BY <1>4 DEF WaitDaemon, Goto, Look
<1>5. ASSUME NEW s \in Starters, EnsureWeb(s) PROVE Held'
  BY <1>5 DEF EnsureWeb, Goto, Look
<1>6. ASSUME NEW s \in Starters, ProbeWeb(s) PROVE Held'
  BY <1>6 DEF ProbeWeb, Goto, SpawnWeb
<1>7. ASSUME NEW s \in Starters, PortTaken(s) PROVE Held'
  BY <1>7 DEF PortTaken, Goto, Look
<1>8. ASSUME NEW s \in Starters, RespawnWeb(s) PROVE Held'
  BY <1>8 DEF RespawnWeb, Goto, SpawnWeb
<1>9. ASSUME NEW s \in Starters, WaitWeb(s) PROVE Held'
  BY <1>9 DEF WaitWeb, Goto, Look
<1>10. ASSUME NEW s \in Starters, TimeOut(s) PROVE Held'
  BY <1>10 DEF TimeOut, Goto, Look
<1>11. ASSUME NEW s \in Starters, Unlink(s) PROVE Held'
  BY <1>11 DEF Unlink, DaemonOnly
<1>12. ASSUME NEW s \in Starters, Bind(s) PROVE Held'
  BY <1>12 DEF Bind, DaemonOnly
<1>13. ASSUME NEW s \in Starters, CloseListener(s) PROVE Held'
  BY <1>13 DEF CloseListener, DaemonOnly
<1>14. ASSUME NEW s \in Starters, DaemonDies(s) PROVE Held'
  BY <1>14 DEF DaemonDies, DaemonOnly
<1>15. ASSUME NEW s \in Starters, WebBinds(s) PROVE Held'
  BY <1>15 DEF WebBinds, WebOnly
<1>16. ASSUME NEW s \in Starters, WritesInfo(s) PROVE Held'
  BY <1>16 DEF WritesInfo, WebOnly
<1>17. ASSUME NEW s \in Starters, WebDies(s) PROVE Held'
  BY <1>17 DEF WebDies, WebOnly
<1>18. ASSUME NetworkMoves PROVE Held'
  BY <1>18 DEF NetworkMoves, WebOnly
<1>19. ASSUME StopDaemons PROVE Held'
  BY <1>19 DEF StopDaemons
<1>20. ASSUME StopWebs PROVE Held'
  BY <1>20 DEF StopWebs, Found
<1>21. ASSUME RemoveInfo PROVE Held'
  BY <1>21 DEF RemoveInfo
<1>22. CASE UNCHANGED vars
  BY <1>22 DEF vars
<1> QED
  BY <1>1, <1>2, <1>3, <1>4, <1>5, <1>6, <1>7, <1>8, <1>9, <1>10, <1>11, <1>12, <1>13, <1>14,
     <1>15, <1>16, <1>17, <1>18, <1>19, <1>20, <1>21, <1>22 DEF Next

\* The order of runStop: nothing that it has passed comes back by itself.
LEMMA SweptKept ==
    ASSUME TypeOK, Swept, [Next]_vars
    PROVE  Swept'
<1> USE DEF TypeOK, Swept, Active, endpoint, servers, bounds, history
<1>1. ASSUME NEW s \in Starters, Begin(s) PROVE Swept'
  BY <1>1 DEF Begin, Goto, Look
<1>2. ASSUME NEW s \in Starters, CheckWeb(s) PROVE Swept'
  BY <1>2 DEF CheckWeb, Goto, Look
<1>3. ASSUME NEW s \in Starters, EnsureDaemon(s) PROVE Swept'
  BY <1>3 DEF EnsureDaemon, Goto
<1>4. ASSUME NEW s \in Starters, WaitDaemon(s) PROVE Swept'
  BY <1>4 DEF WaitDaemon, Goto, Look
<1>5. ASSUME NEW s \in Starters, EnsureWeb(s) PROVE Swept'
  BY <1>5 DEF EnsureWeb, Goto, Look
<1>6. ASSUME NEW s \in Starters, ProbeWeb(s) PROVE Swept'
  BY <1>6 DEF ProbeWeb, Goto, SpawnWeb
<1>7. ASSUME NEW s \in Starters, PortTaken(s) PROVE Swept'
  BY <1>7 DEF PortTaken, Goto, Look
<1>8. ASSUME NEW s \in Starters, RespawnWeb(s) PROVE Swept'
  BY <1>8 DEF RespawnWeb, Goto, SpawnWeb
<1>9. ASSUME NEW s \in Starters, WaitWeb(s) PROVE Swept'
  BY <1>9 DEF WaitWeb, Goto, Look
<1>10. ASSUME NEW s \in Starters, TimeOut(s) PROVE Swept'
  BY <1>10 DEF TimeOut, Goto, Look
<1>11. ASSUME NEW s \in Starters, Unlink(s) PROVE Swept'
  BY <1>11 DEF Unlink, DaemonOnly
<1>12. ASSUME NEW s \in Starters, Bind(s) PROVE Swept'
  BY <1>12 DEF Bind, DaemonOnly
<1>13. ASSUME NEW s \in Starters, CloseListener(s) PROVE Swept'
  BY <1>13 DEF CloseListener, DaemonOnly
<1>14. ASSUME NEW s \in Starters, DaemonDies(s) PROVE Swept'
  BY <1>14 DEF DaemonDies, DaemonOnly
<1>15. ASSUME NEW s \in Starters, WebBinds(s) PROVE Swept'
  BY <1>15 DEF WebBinds, WebOnly
<1>16. ASSUME NEW s \in Starters, WritesInfo(s) PROVE Swept'
  BY <1>16 DEF WritesInfo, WebOnly
<1>17. ASSUME NEW s \in Starters, WebDies(s) PROVE Swept'
  BY <1>17 DEF WebDies, WebOnly
<1>18. ASSUME NetworkMoves PROVE Swept'
  BY <1>18 DEF NetworkMoves, WebOnly
<1>19. ASSUME StopDaemons PROVE Swept'
  BY <1>19 DEF StopDaemons
<1>20. ASSUME StopWebs PROVE Swept'
  BY <1>20 DEF StopWebs, Found
<1>21. ASSUME RemoveInfo PROVE Swept'
  BY <1>21 DEF RemoveInfo
<1>22. CASE UNCHANGED vars
  BY <1>22 DEF vars
<1> QED
  BY <1>1, <1>2, <1>3, <1>4, <1>5, <1>6, <1>7, <1>8, <1>9, <1>10, <1>11, <1>12, <1>13, <1>14,
     <1>15, <1>16, <1>17, <1>18, <1>19, <1>20, <1>21, <1>22 DEF Next

--------------------------------------------------------------------------------
(* Which web server a command can take for its own.                             *)

Coming(w) == web[w] \in {"starting", "writing"}

OpenToAll(w) == web[w] = "serving" /\ at[w] = "lan"

\* A web server listens where its command told it to, or on localhost.
Homed == \A w \in Starters : at[w] \in {mode[w], "local", "none"}

\* One web server comes up at a time, and no other command is active meanwhile.
OneComing ==
    ~overlapped => \A s, w \in Starters : (Active(s) \/ Coming(s)) /\ Coming(w) => s = w

\* A stop that no command ran into.
StopIsQuiet == ~overlapped /\ stop \in {"webs", "info"} => quiet

\* A web server that publishes the local network is on record for as long as it
\* serves, and then no command for the tailnet gets past ensureWeb's first look.
OnRecord ==
    (~overlapped /\ moves = 0) =>
        \A w \in Starters : OpenToAll(w) =>
            /\ info = "lan" /\ current
            /\ \A s \in Starters : mode[s] = "tailnet" =>
                  ~Coming(s) /\ start[s] \notin {"probeWeb", "respawnWeb", "waitWeb"}

ReachInv == Homed /\ OneComing /\ StopIsQuiet /\ OnRecord

\* Addresses are chosen once.
LEMMA HomedKept ==
    ASSUME TypeOK, Homed, [Next]_vars
    PROVE  Homed'
<1> USE DEF TypeOK, Homed, endpoint, servers, bounds, history
<1>1. ASSUME NEW s \in Starters, Begin(s) PROVE Homed'
  BY <1>1 DEF Begin, Goto, Look
<1>2. ASSUME NEW s \in Starters, CheckWeb(s) PROVE Homed'
  BY <1>2 DEF CheckWeb, Goto, Look
<1>3. ASSUME NEW s \in Starters, EnsureDaemon(s) PROVE Homed'
  BY <1>3 DEF EnsureDaemon, Goto
<1>4. ASSUME NEW s \in Starters, WaitDaemon(s) PROVE Homed'
  BY <1>4 DEF WaitDaemon, Goto, Look
<1>5. ASSUME NEW s \in Starters, EnsureWeb(s) PROVE Homed'
  BY <1>5 DEF EnsureWeb, Goto, Look
<1>6. ASSUME NEW s \in Starters, ProbeWeb(s) PROVE Homed'
  BY <1>6 DEF ProbeWeb, Goto, SpawnWeb
<1>7. ASSUME NEW s \in Starters, PortTaken(s) PROVE Homed'
  BY <1>7 DEF PortTaken, Goto, Look
<1>8. ASSUME NEW s \in Starters, RespawnWeb(s) PROVE Homed'
  BY <1>8 DEF RespawnWeb, Goto, SpawnWeb
<1>9. ASSUME NEW s \in Starters, WaitWeb(s) PROVE Homed'
  BY <1>9 DEF WaitWeb, Goto, Look
<1>10. ASSUME NEW s \in Starters, TimeOut(s) PROVE Homed'
  BY <1>10 DEF TimeOut, Goto, Look
<1>11. ASSUME NEW s \in Starters, Unlink(s) PROVE Homed'
  BY <1>11 DEF Unlink, DaemonOnly
<1>12. ASSUME NEW s \in Starters, Bind(s) PROVE Homed'
  BY <1>12 DEF Bind, DaemonOnly
<1>13. ASSUME NEW s \in Starters, CloseListener(s) PROVE Homed'
  BY <1>13 DEF CloseListener, DaemonOnly
<1>14. ASSUME NEW s \in Starters, DaemonDies(s) PROVE Homed'
  BY <1>14 DEF DaemonDies, DaemonOnly
<1>15. ASSUME NEW s \in Starters, WebBinds(s) PROVE Homed'
  BY <1>15 DEF WebBinds, WebOnly
<1>16. ASSUME NEW s \in Starters, WritesInfo(s) PROVE Homed'
  BY <1>16 DEF WritesInfo, WebOnly
<1>17. ASSUME NEW s \in Starters, WebDies(s) PROVE Homed'
  BY <1>17 DEF WebDies, WebOnly
<1>18. ASSUME NetworkMoves PROVE Homed'
  BY <1>18 DEF NetworkMoves, WebOnly
<1>19. ASSUME StopDaemons PROVE Homed'
  BY <1>19 DEF StopDaemons
<1>20. ASSUME StopWebs PROVE Homed'
  BY <1>20 DEF StopWebs, Found
<1>21. ASSUME RemoveInfo PROVE Homed'
  BY <1>21 DEF RemoveInfo
<1>22. CASE UNCHANGED vars
  BY <1>22 DEF vars
<1> QED
  BY <1>1, <1>2, <1>3, <1>4, <1>5, <1>6, <1>7, <1>8, <1>9, <1>10, <1>11, <1>12, <1>13, <1>14,
     <1>15, <1>16, <1>17, <1>18, <1>19, <1>20, <1>21, <1>22 DEF Next

\* A command begins when nothing comes up, and spawns its own web server only.
LEMMA OneComingKept ==
    ASSUME TypeOK, Serial, OneComing, [Next]_vars
    PROVE  OneComing'
<1> USE DEF TypeOK, Serial, OneComing, Coming, Active, ComingUp, endpoint, servers, bounds, history
<1>1. ASSUME NEW s \in Starters, Begin(s) PROVE OneComing'
  BY <1>1 DEF Begin, Goto, Look
<1>2. ASSUME NEW s \in Starters, CheckWeb(s) PROVE OneComing'
  BY <1>2 DEF CheckWeb, Goto, Look
<1>3. ASSUME NEW s \in Starters, EnsureDaemon(s) PROVE OneComing'
  BY <1>3 DEF EnsureDaemon, Goto
<1>4. ASSUME NEW s \in Starters, WaitDaemon(s) PROVE OneComing'
  BY <1>4 DEF WaitDaemon, Goto, Look
<1>5. ASSUME NEW s \in Starters, EnsureWeb(s) PROVE OneComing'
  BY <1>5 DEF EnsureWeb, Goto, Look
<1>6. ASSUME NEW s \in Starters, ProbeWeb(s) PROVE OneComing'
  BY <1>6 DEF ProbeWeb, Goto, SpawnWeb
<1>7. ASSUME NEW s \in Starters, PortTaken(s) PROVE OneComing'
  BY <1>7 DEF PortTaken, Goto, Look
<1>8. ASSUME NEW s \in Starters, RespawnWeb(s) PROVE OneComing'
  BY <1>8 DEF RespawnWeb, Goto, SpawnWeb
<1>9. ASSUME NEW s \in Starters, WaitWeb(s) PROVE OneComing'
  BY <1>9 DEF WaitWeb, Goto, Look
<1>10. ASSUME NEW s \in Starters, TimeOut(s) PROVE OneComing'
  BY <1>10 DEF TimeOut, Goto, Look
<1>11. ASSUME NEW s \in Starters, Unlink(s) PROVE OneComing'
  BY <1>11 DEF Unlink, DaemonOnly
<1>12. ASSUME NEW s \in Starters, Bind(s) PROVE OneComing'
  BY <1>12 DEF Bind, DaemonOnly
<1>13. ASSUME NEW s \in Starters, CloseListener(s) PROVE OneComing'
  BY <1>13 DEF CloseListener, DaemonOnly
<1>14. ASSUME NEW s \in Starters, DaemonDies(s) PROVE OneComing'
  BY <1>14 DEF DaemonDies, DaemonOnly
<1>15. ASSUME NEW s \in Starters, WebBinds(s) PROVE OneComing'
  BY <1>15 DEF WebBinds, WebOnly
<1>16. ASSUME NEW s \in Starters, WritesInfo(s) PROVE OneComing'
  BY <1>16 DEF WritesInfo, WebOnly
<1>17. ASSUME NEW s \in Starters, WebDies(s) PROVE OneComing'
  BY <1>17 DEF WebDies, WebOnly
<1>18. ASSUME NetworkMoves PROVE OneComing'
  BY <1>18 DEF NetworkMoves, WebOnly
<1>19. ASSUME StopDaemons PROVE OneComing'
  BY <1>19 DEF StopDaemons
<1>20. ASSUME StopWebs PROVE OneComing'
  BY <1>20 DEF StopWebs, Found
<1>21. ASSUME RemoveInfo PROVE OneComing'
  BY <1>21 DEF RemoveInfo
<1>22. CASE UNCHANGED vars
  BY <1>22 DEF vars
<1> QED
  BY <1>1, <1>2, <1>3, <1>4, <1>5, <1>6, <1>7, <1>8, <1>9, <1>10, <1>11, <1>12, <1>13, <1>14,
     <1>15, <1>16, <1>17, <1>18, <1>19, <1>20, <1>21, <1>22 DEF Next

\* A command that begins while the sweep goes on overlaps it.
LEMMA StopIsQuietKept ==
    ASSUME TypeOK, StopIsQuiet, [Next]_vars
    PROVE  StopIsQuiet'
<1> USE DEF TypeOK, StopIsQuiet, endpoint, servers, bounds, history
<1>1. ASSUME NEW s \in Starters, Begin(s) PROVE StopIsQuiet'
  BY <1>1 DEF Begin, Goto, Look
<1>2. ASSUME NEW s \in Starters, CheckWeb(s) PROVE StopIsQuiet'
  BY <1>2 DEF CheckWeb, Goto, Look
<1>3. ASSUME NEW s \in Starters, EnsureDaemon(s) PROVE StopIsQuiet'
  BY <1>3 DEF EnsureDaemon, Goto
<1>4. ASSUME NEW s \in Starters, WaitDaemon(s) PROVE StopIsQuiet'
  BY <1>4 DEF WaitDaemon, Goto, Look
<1>5. ASSUME NEW s \in Starters, EnsureWeb(s) PROVE StopIsQuiet'
  BY <1>5 DEF EnsureWeb, Goto, Look
<1>6. ASSUME NEW s \in Starters, ProbeWeb(s) PROVE StopIsQuiet'
  BY <1>6 DEF ProbeWeb, Goto, SpawnWeb
<1>7. ASSUME NEW s \in Starters, PortTaken(s) PROVE StopIsQuiet'
  BY <1>7 DEF PortTaken, Goto, Look
<1>8. ASSUME NEW s \in Starters, RespawnWeb(s) PROVE StopIsQuiet'
  BY <1>8 DEF RespawnWeb, Goto, SpawnWeb
<1>9. ASSUME NEW s \in Starters, WaitWeb(s) PROVE StopIsQuiet'
  BY <1>9 DEF WaitWeb, Goto, Look
<1>10. ASSUME NEW s \in Starters, TimeOut(s) PROVE StopIsQuiet'
  BY <1>10 DEF TimeOut, Goto, Look
<1>11. ASSUME NEW s \in Starters, Unlink(s) PROVE StopIsQuiet'
  BY <1>11 DEF Unlink, DaemonOnly
<1>12. ASSUME NEW s \in Starters, Bind(s) PROVE StopIsQuiet'
  BY <1>12 DEF Bind, DaemonOnly
<1>13. ASSUME NEW s \in Starters, CloseListener(s) PROVE StopIsQuiet'
  BY <1>13 DEF CloseListener, DaemonOnly
<1>14. ASSUME NEW s \in Starters, DaemonDies(s) PROVE StopIsQuiet'
  BY <1>14 DEF DaemonDies, DaemonOnly
<1>15. ASSUME NEW s \in Starters, WebBinds(s) PROVE StopIsQuiet'
  BY <1>15 DEF WebBinds, WebOnly
<1>16. ASSUME NEW s \in Starters, WritesInfo(s) PROVE StopIsQuiet'
  BY <1>16 DEF WritesInfo, WebOnly
<1>17. ASSUME NEW s \in Starters, WebDies(s) PROVE StopIsQuiet'
  BY <1>17 DEF WebDies, WebOnly
<1>18. ASSUME NetworkMoves PROVE StopIsQuiet'
  BY <1>18 DEF NetworkMoves, WebOnly
<1>19. ASSUME StopDaemons PROVE StopIsQuiet'
  BY <1>19 DEF StopDaemons
<1>20. ASSUME StopWebs PROVE StopIsQuiet'
  BY <1>20 DEF StopWebs, Found
<1>21. ASSUME RemoveInfo PROVE StopIsQuiet'
  BY <1>21 DEF RemoveInfo
<1>22. CASE UNCHANGED vars
  BY <1>22 DEF vars
<1> QED
  BY <1>1, <1>2, <1>3, <1>4, <1>5, <1>6, <1>7, <1>8, <1>9, <1>10, <1>11, <1>12, <1>13, <1>14,
     <1>15, <1>16, <1>17, <1>18, <1>19, <1>20, <1>21, <1>22 DEF Next

\* Only a command for the tailnet, a web server that comes up and the end of a stop
\* touch the record, and none of them does while a web server has it.
LEMMA OnRecordKept ==
    ASSUME TypeOK, NothingYet, Swept, ReachInv, [Next]_vars
    PROVE  OnRecord'
<1> USE DEF TypeOK, NothingYet, ReachInv, Homed, OneComing, StopIsQuiet, OnRecord, OpenToAll, Coming,
            Active, endpoint, servers, bounds, history
<1>1. ASSUME NEW s \in Starters, Begin(s) PROVE OnRecord'
  BY <1>1 DEF Begin, Goto, Look
<1>2. ASSUME NEW s \in Starters, CheckWeb(s) PROVE OnRecord'
  BY <1>2 DEF CheckWeb, Goto, Look
<1>3. ASSUME NEW s \in Starters, EnsureDaemon(s) PROVE OnRecord'
  BY <1>3 DEF EnsureDaemon, Goto
<1>4. ASSUME NEW s \in Starters, WaitDaemon(s) PROVE OnRecord'
  BY <1>4 DEF WaitDaemon, Goto, Look
<1>5. ASSUME NEW s \in Starters, EnsureWeb(s) PROVE OnRecord'
  <2>1. ASSUME ~overlapped, moves = 0, mode[s] = "tailnet", ~OtherReach(s)
        PROVE  \A w \in Starters : ~OpenToAll(w)
    BY <2>1 DEF OtherReach, EndpointAnswers, AnswersAt
  <2>2. /\ UNCHANGED <<mode, web, at, info, current, moves, overlapped>>
        /\ start' = [start EXCEPT ![s] = IF OtherReach(s) THEN "failed" ELSE "probeWeb"]
    BY <1>5 DEF EnsureWeb, Goto, Look
  <2> QED
    BY <2>1, <2>2
<1>6. ASSUME NEW s \in Starters, ProbeWeb(s) PROVE OnRecord'
  BY <1>6 DEF ProbeWeb, Goto, SpawnWeb
<1>7. ASSUME NEW s \in Starters, PortTaken(s) PROVE OnRecord'
  BY <1>7 DEF PortTaken, Goto, Look
<1>8. ASSUME NEW s \in Starters, RespawnWeb(s) PROVE OnRecord'
  BY <1>8 DEF RespawnWeb, Goto, SpawnWeb
<1>9. ASSUME NEW s \in Starters, WaitWeb(s) PROVE OnRecord'
  BY <1>9 DEF WaitWeb, Goto, Look
<1>10. ASSUME NEW s \in Starters, TimeOut(s) PROVE OnRecord'
  BY <1>10 DEF TimeOut, Goto, Look
<1>11. ASSUME NEW s \in Starters, Unlink(s) PROVE OnRecord'
  BY <1>11 DEF Unlink, DaemonOnly
<1>12. ASSUME NEW s \in Starters, Bind(s) PROVE OnRecord'
  BY <1>12 DEF Bind, DaemonOnly
<1>13. ASSUME NEW s \in Starters, CloseListener(s) PROVE OnRecord'
  BY <1>13 DEF CloseListener, DaemonOnly
<1>14. ASSUME NEW s \in Starters, DaemonDies(s) PROVE OnRecord'
  BY <1>14 DEF DaemonDies, DaemonOnly
<1>15. ASSUME NEW s \in Starters, WebBinds(s) PROVE OnRecord'
  BY <1>15 DEF WebBinds, WebOnly
<1>16. ASSUME NEW s \in Starters, WritesInfo(s) PROVE OnRecord'
  <2>1. web[s] = "writing" /\ at[s] \in Reaches /\ at[s] = mode[s]
    BY <1>16 DEF WritesInfo, Reaches
  <2>2. /\ UNCHANGED <<mode, start, at, moves, overlapped>>
        /\ web' = [web EXCEPT ![s] = "serving"] /\ info' = at[s] /\ current' = TRUE
    BY <1>16 DEF WritesInfo, WebOnly
  <2> SUFFICES ASSUME ~overlapped, moves = 0, NEW w \in Starters, OpenToAll(w)'
               PROVE  /\ at[s] = "lan"
                      /\ \A x \in Starters : mode[x] = "tailnet" =>
                            ~Coming(x)' /\ start[x] \notin {"probeWeb", "respawnWeb", "waitWeb"}
    BY <2>2
  <2>3. at[s] = "lan"
    <3>1. CASE w = s
      BY <3>1, <2>2
    <3>2. CASE w # s
      <4>1. OpenToAll(w)
        BY <3>2, <2>2
      <4> QED
        BY <4>1, <2>1 DEF Reaches
    <3> QED
      BY <3>1, <3>2
  <2>4. ASSUME NEW x \in Starters, x # s PROVE ~Coming(x) /\ ~Active(x)
    BY <2>1, <2>4
  <2> QED
    BY <2>1, <2>2, <2>3, <2>4
<1>17. ASSUME NEW s \in Starters, WebDies(s) PROVE OnRecord'
  BY <1>17 DEF WebDies, WebOnly
<1>18. ASSUME NetworkMoves PROVE OnRecord'
  BY <1>18 DEF NetworkMoves, WebOnly
<1>19. ASSUME StopDaemons PROVE OnRecord'
  BY <1>19 DEF StopDaemons
<1>20. ASSUME StopWebs PROVE OnRecord'
  BY <1>20 DEF StopWebs, Found
<1>21. ASSUME RemoveInfo PROVE OnRecord'
  BY <1>21 DEF RemoveInfo, Swept
<1>22. CASE UNCHANGED vars
  BY <1>22 DEF vars
<1> QED
  BY <1>1, <1>2, <1>3, <1>4, <1>5, <1>6, <1>7, <1>8, <1>9, <1>10, <1>11, <1>12, <1>13, <1>14,
     <1>15, <1>16, <1>17, <1>18, <1>19, <1>20, <1>21, <1>22 DEF Next

\* Only the two looks at the web server make a command ready.
LEMMA BecomesReady ==
    ASSUME TypeOK, [Next]_vars, NEW s \in Starters, start[s] # "ready", start'[s] = "ready"
    PROVE  start[s] \in {"probeWeb", "waitWeb"} /\ Ready(s)
<1>1. ASSUME NEW x \in Starters,
             Begin(x) \/ CheckWeb(x) \/ EnsureDaemon(x) \/ WaitDaemon(x) \/ EnsureWeb(x)
      PROVE  FALSE
  BY <1>1 DEF TypeOK, Goto, Begin, CheckWeb, EnsureDaemon, WaitDaemon, EnsureWeb
<1>2. ASSUME NEW x \in Starters, PortTaken(x) \/ RespawnWeb(x) \/ TimeOut(x)
      PROVE  FALSE
  BY <1>2 DEF TypeOK, Goto, PortTaken, RespawnWeb, TimeOut
<1>3. ASSUME NEW x \in Starters, ProbeWeb(x) \/ WaitWeb(x)
      PROVE  start[s] \in {"probeWeb", "waitWeb"} /\ Ready(s)
  BY <1>3 DEF TypeOK, Goto, ProbeWeb, WaitWeb
<1>4. ASSUME NEW x \in Starters,
             \/ Unlink(x) \/ Bind(x) \/ CloseListener(x) \/ DaemonDies(x)
             \/ WebBinds(x) \/ WritesInfo(x) \/ WebDies(x)
      PROVE  UNCHANGED start
  BY <1>4 DEF Unlink, Bind, CloseListener, DaemonDies, WebBinds, WritesInfo, WebDies,
              DaemonOnly, WebOnly
<1>5. ASSUME NetworkMoves \/ StopDaemons \/ StopWebs \/ RemoveInfo \/ UNCHANGED vars
      PROVE  UNCHANGED start
  BY <1>5 DEF NetworkMoves, StopDaemons, StopWebs, RemoveInfo, WebOnly, vars
<1> QED
  BY <1>1, <1>2, <1>3, <1>4, <1>5 DEF Next

--------------------------------------------------------------------------------
(* The theorems.                                                                *)

\* The invariant of starting and stopping holds of every reachable state.
THEOREM StartupCorrect == Spec => []StartInv
<1>1. Init => StartInv
  <2> SUFFICES ASSUME Init PROVE StartInv
    OBVIOUS
  <2>1. TypeOK
    <3>1. crashes \in 0 .. MaxCrashes /\ moves \in 0 .. MaxMoves
      BY StartupAssumption DEF Init
    <3>2. current \in BOOLEAN /\ overlapped \in BOOLEAN /\ quiet \in BOOLEAN
      BY DEF Init
    <3> QED
      BY <3>1, <3>2 DEF Init, TypeOK
  <2>2. NothingYet /\ Serial /\ OneDaemon
    BY DEF Init, NothingYet, Serial, OneDaemon, Alive, Active, Rising
  <2>3. Held /\ Swept
    BY DEF Init, Held, Swept
  <2> QED
    BY <2>1, <2>2, <2>3 DEF StartInv
<1>2. StartInv /\ [Next]_vars => StartInv'
  BY TypesKept, NothingYetKept, SerialKept, OneDaemonKept, HeldKept, SweptKept DEF StartInv
<1> QED
  BY <1>1, <1>2, PTL DEF Spec

\* Every reachable state is well typed.
THEOREM StartupTypes == Spec => []TypeOK
BY StartupCorrect, PTL DEF StartInv

\* For any number of commands typed one after the other, stale files, crashes and
\* stops: at most one daemon, and the socket file leads to it.
THEOREM NeverTwoDaemons == Spec => []OneDaemon
BY StartupCorrect, PTL DEF StartInv

\* After agenton stop nothing is left that runs or will.
THEOREM StopIsThorough == Spec => []StopLeavesNothing
<1>1. StartInv => StopLeavesNothing
  BY DEF StartInv, Swept, StopLeavesNothing
<1> QED
  BY <1>1, StartupCorrect, PTL

\* Ready means a daemon that listens, unless something ended it.
THEOREM ReadyIsServed == Spec => ReadyHasDaemon
<1>1. ASSUME StartInv, [Next]_vars,
             NEW s \in Starters, start[s] # "ready", start'[s] = "ready",
             ~overlapped, crashes = 0, stop = "idle"
      PROVE  daemonRunning
  BY <1>1, BecomesReady DEF StartInv, Held
<1>2. StartInv /\ [Next]_vars =>
        [\A s \in Starters :
           start[s] # "ready" /\ start'[s] = "ready" /\ ~overlapped /\ crashes = 0 /\ stop = "idle"
             => daemonRunning]_vars
  BY <1>1
<1> QED
  BY <1>2, StartupCorrect, PTL DEF Spec, ReadyHasDaemon

\* The invariant of the web servers and their record holds of every reachable state.
THEOREM WebsCorrect == Spec => [](StartInv /\ ReachInv)
<1>1. Init => ReachInv
  BY DEF Init, ReachInv, Homed, OneComing, StopIsQuiet, OnRecord, OpenToAll, Coming, Active
<1>2. StartInv /\ ReachInv /\ [Next]_vars => ReachInv'
  BY HomedKept, OneComingKept, StopIsQuietKept, OnRecordKept DEF StartInv, ReachInv
<1> QED
  BY <1>1, <1>2, StartupCorrect, PTL DEF Spec

\* Ready means a web server of the command's reach or on localhost, for commands
\* typed one after the other on a machine that keeps its addresses.
THEOREM ReadyIsOfOwnReach == Spec => OwnReach
<1>1. ASSUME StartInv, ReachInv, [Next]_vars,
             NEW s \in Starters, start[s] # "ready", start'[s] = "ready",
             ~overlapped, moves = 0
      PROVE  AnswersAt({mode[s], "local"})
  <2>1. start[s] \in {"probeWeb", "waitWeb"} /\ Ready(s)
    BY <1>1, BecomesReady DEF StartInv
  <2>2. CASE mode[s] = "lan"
    BY <2>1, <2>2 DEF Ready, webOurs, AnswersAt
  <2>3. CASE mode[s] = "tailnet"
    <3>1. \A w \in Starters : ~OpenToAll(w)
      BY <1>1, <2>1, <2>3 DEF ReachInv, OnRecord
    <3>2. info \in {"tailnet", "lan", "none"}
      BY <1>1 DEF StartInv, TypeOK, Reaches
    <3> QED
      BY <2>1, <2>3, <3>1, <3>2 DEF Ready, webOurs, EndpointAnswers, AnswersAt, OpenToAll
  <2> QED
    BY <1>1, <2>2, <2>3 DEF StartInv, TypeOK, Reaches
<1>2. StartInv /\ ReachInv /\ [Next]_vars =>
        [\A s \in Starters :
           start[s] # "ready" /\ start'[s] = "ready" /\ ~overlapped /\ moves = 0
             => AnswersAt({mode[s], "local"})]_vars
  BY <1>1
<1> QED
  BY <1>2, WebsCorrect, PTL DEF Spec, OwnReach
================================================================================
