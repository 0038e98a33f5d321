-------------------------------- MODULE Ftp --------------------------------
(***************************************************************************)
(* The FTP server of lib/FTP/src.  ftp_server accepts control connections  *)
(* and gives each one a slot of the client pool and a task; the task runs  *)
(* ftp_service, which reads and executes one command after the other.  A   *)
(* session owns connections (control, listening, data), a file and its     *)
(* working directory.  All sessions take their connections from one pool   *)
(* of lwIP; lwIP itself takes one for every client that connects to a      *)
(* listener, where it waits in a mailbox to be accepted.                   *)
(*                                                                         *)
(* A command that moves no data is one step; LIST, RETR and STOR are the   *)
(* steps up to the 150 reply, and from there to the end.  What the file    *)
(* system and the network answer is a nondeterministic choice.  Commands   *)
(* that only answer (PWD, MODE, STRU, TYPE, NOOP, FEAT, SYST, SITE, STAT,  *)
(* AUTH, an unknown or refused one) leave no trace and are no steps, and   *)
(* neither is a client refused with 421, nor RNFR: the name it keeps       *)
(* decides only what RNTO answers.                                         *)
(***************************************************************************)
EXTENDS Naturals, Sequences, FiniteSets

CONSTANTS
    Slots,        \* entries of ftp_client_pool
    Netconns,     \* connections of lwIP the FTP server can have
    MailboxSize,  \* DEFAULT_ACCEPTMBOX_SIZE
    FTP_CWD_SIZE, \* longest path, in directories
    FS_LOCK       \* entries of the table of open objects of FatFs

ASSUME FtpAssumption ==
    /\ IsFiniteSet(Slots) /\ Netconns \in Nat /\ MailboxSize \in Nat
    /\ FTP_CWD_SIZE \in Nat \ {0} /\ FS_LOCK \in Nat

VARIABLES
    ses,       \* what a slot of the pool holds
    netconns,  \* connections in use
    mbox,      \* those in the mailboxes of the listeners
    Files,     \* entries in use of the table of FatFs
    listed     \* history: directories that were opened for a listing

netVars == <<netconns, mbox>>
fsVars  == <<Files, listed>>
ftpVars == <<ses, netVars, fsVars>>

\* What parameters name: nothing or the root, the parent, an entry of the
\* working directory, an entry further down, or an absolute path.
Parameters == {"none", "root", "parent", "entry", "below", "absolute"}

\* The fields of ftp_data_t, and below them what the properties need: the
\* directory that the client was last told of, whether a command has moved it
\* since then (see Moves), whether a PASV has failed, and whether the client
\* has gone silent.
NoSession ==
    [pc |-> "free", user |-> "NONE", data_conn_mode |-> "NOT_SET",
     listdataconn |-> "NULL", dataconn |-> FALSE, file |-> FALSE,
     path |-> <<>>,
     cwd |-> <<>>, moved |-> FALSE, pasvFailed |-> FALSE, silent |-> FALSE]

FtpInit ==
    /\ ses = [s \in Slots |-> NoSession]
    /\ netconns = 0 /\ mbox = {}
    /\ Files = 0 /\ listed = 0

Go(s, r)    == ses' = [ses EXCEPT ![s] = r]
Bit(b)      == IF b THEN 1 ELSE 0
Available   == netconns < Netconns
-----------------------------------------------------------------------------
(* The server and the life of a session.                                   *)

\* ftp_server, ftp_start_task: without a task everything is given back.
FtpAccept(s) ==
    /\ ses[s].pc = "free" /\ Available
    /\ netconns' = netconns + 1
    /\ Go(s, [NoSession EXCEPT !.pc = "read"])
    /\ UNCHANGED <<mbox, fsVars>>

Mailbox(s) == {w \in mbox : w[1] = s}

\* accept_function of lwIP: somebody has connected to the listener.
ClientConnects(s) ==
    /\ ses[s].listdataconn = "listening" /\ Available
    /\ \E i \in 1..MailboxSize :
        <<s, i>> \notin mbox /\ mbox' = mbox \cup {<<s, i>>}
    /\ netconns' = netconns + 1
    /\ UNCHANGED <<ses, fsVars>>

\* A client says nothing more and does not close its connections either.
ClientFallsSilent(s) ==
    /\ ses[s].pc # "free" /\ ~ses[s].silent
    /\ Go(s, [ses[s] EXCEPT !.silent = TRUE])
    /\ UNCHANGED <<netVars, fsVars>>

\* What is left of a session that has ended: nothing else of it is read again.
Ending(r) ==
    [NoSession EXCEPT !.pc = "end", !.listdataconn = r.listdataconn, !.dataconn = r.dataconn,
                      !.file = r.file, !.pasvFailed = r.pasvFailed, !.silent = r.silent]

LeaveService_no_timeout(s) ==
    /\ ses[s].pc = "read" /\ ~ses[s].silent
    /\ Go(s, Ending(ses[s]))
    /\ UNCHANGED <<netVars, fsVars>>

\* QUIT, a connection that was closed, parameters that do not fit in their
\* buffer, or no command for FTP_TIME_OUT_S seconds.
LeaveService(s) ==
    /\ ses[s].pc = "read"
    /\ Go(s, Ending(ses[s]))
    /\ UNCHANGED <<netVars, fsVars>>

Held(r) == Bit(r.listdataconn # "NULL") + Bit(r.dataconn)

EndOfTask_listener_kept(s) ==
    /\ ses[s].pc = "end"
    /\ netconns' = netconns - 1 - Bit(ses[s].dataconn)
    /\ Go(s, NoSession)
    /\ UNCHANGED <<mbox, fsVars>>

\* pasv_con_close, which empties the mailbox of the listener, data_con_close,
\* and the end of ftp_task
EndOfTask(s) ==
    /\ ses[s].pc = "end"
    /\ netconns' = netconns - 1 - Held(ses[s]) - Cardinality(Mailbox(s))
    /\ mbox' = mbox \ Mailbox(s)
    /\ Go(s, NoSession)
    /\ UNCHANGED fsVars
-----------------------------------------------------------------------------
(* Commands.  All but USER, PASS, AUTH and an unknown one do nothing       *)
(* before the login.                                                       *)

\* A path longer than its buffer is not followed any further.
Fits(path) == Len(path) <= FTP_CWD_SIZE

Command(s)  == ses[s].pc = "read" /\ ~ses[s].silent /\ Fits(ses[s].path)
LoggedIn(s) == Command(s) /\ ses[s].user = "LOGGED_IN"

\* ftp_cmd_user, ftp_cmd_pass: a wrong name or password changes nothing.
USER(s) ==
    /\ Command(s)
    /\ Go(s, [ses[s] EXCEPT !.user = "NO_PASS"])
    /\ UNCHANGED <<netVars, fsVars>>

PASS(s) ==
    /\ Command(s) /\ ses[s].user # "NONE"
    /\ Go(s, [ses[s] EXCEPT !.user = "LOGGED_IN"])
    /\ UNCHANGED <<netVars, fsVars>>

DataConClosed(r) == [r EXCEPT !.dataconn = FALSE, !.data_conn_mode = "NOT_SET"]

PASV_bind_unchecked(s) ==
    /\ LoggedIn(s)
    /\ \E l \in IF ses[s].listdataconn # "NULL" THEN {ses[s].listdataconn}
                ELSE IF Available THEN {"unlistening", "listening"} ELSE {"NULL"} :
        LET ok == l # "NULL"
        IN  /\ Go(s, [DataConClosed(ses[s]) EXCEPT
                    !.listdataconn = l,
                    !.data_conn_mode = IF ok THEN "PASSIVE" ELSE "NOT_SET",
                    !.pasvFailed = @ \/ ~ok])
            /\ netconns' = netconns + Bit(l # "NULL") - Bit(ses[s].listdataconn # "NULL")
    /\ UNCHANGED <<mbox, fsVars>>

\* pasv_con_open and ftp_cmd_pasv.  A listener that could not be bound, or
\* could not listen, stays and passes for a good one at the next PASV.
PASV(s) ==
    /\ LoggedIn(s)
    /\ \E l \in IF ses[s].listdataconn # "NULL" THEN {ses[s].listdataconn}
                ELSE IF Available THEN {"unlistening", "listening"} ELSE {"NULL"} :
        LET ok == l = "listening" \/ ses[s].listdataconn # "NULL"
        IN  /\ Go(s, [DataConClosed(ses[s]) EXCEPT
                    !.listdataconn = l,
                    !.data_conn_mode = IF ok THEN "PASSIVE" ELSE "NOT_SET",
                    !.pasvFailed = @ \/ ~ok])
            /\ netconns' = netconns + Bit(l # "NULL") - Bit(ses[s].listdataconn # "NULL")
    /\ UNCHANGED <<mbox, fsVars>>

\* ftp_cmd_port: wrong parameters unset the mode.
PORT(s) ==
    /\ LoggedIn(s)
    /\ \E mode \in {"ACTIVE", "NOT_SET"} :
        Go(s, [DataConClosed(ses[s]) EXCEPT !.data_conn_mode = mode])
    /\ netconns' = netconns - Bit(ses[s].dataconn)
    /\ UNCHANGED <<mbox, fsVars>>
-----------------------------------------------------------------------------
(* Paths.                                                                  *)

path_up_a_level(path) == IF path = <<>> THEN <<>> ELSE SubSeq(path, 1, Len(path) - 1)

path_build(path, par) ==
    CASE par \in {"none", "root"} -> <<>>
      [] par = "parent"           -> path_up_a_level(path)
      [] par = "entry"            -> Append(path, "entry")
      [] par = "below"            -> path \o <<"dir", "entry">>
      [] par = "absolute"         -> <<"dir", "entry">>

\* path_up_a_level takes back one component, which undoes path_build for the
\* plain name of an entry that fits.  Every other parameter, and the exits with
\* "500 Command line too long", may leave the session in another directory.
Moves(r, par) == par # "entry" \/ ~Fits(path_build(r.path, par))

\* After such a command nothing is claimed until the next 250.
Told(r, cwd) == [r EXCEPT !.cwd = cwd, !.moved = FALSE]
Moved(r)     == [r EXCEPT !.cwd = <<>>, !.moved = TRUE]
Looked(r, par) == IF Moves(r, par) THEN Moved(r) ELSE r

\* ftp_cmd_cwd, answered with 250 or, when there is no such directory or the
\* path is too long, with 550 or 500: the path stays.
CWD(s) ==
    /\ LoggedIn(s)
    /\ \E par \in Parameters \ {"none"} :
        LET new == path_build(ses[s].path, par)
        IN  \/ Fits(new) /\ Go(s, [Told(ses[s], new) EXCEPT !.path = new])
            \/ Go(s, [Moved(ses[s]) EXCEPT !.path = new])
    /\ UNCHANGED <<netVars, fsVars>>

\* ftp_cmd_cdup goes to the root.
CDUP(s) ==
    /\ LoggedIn(s)
    /\ Go(s, [Told(ses[s], <<>>) EXCEPT !.path = <<>>])
    /\ UNCHANGED <<netVars, fsVars>>

LookUp_path_kept(s, par) ==
    LET new == path_build(ses[s].path, par)
    IN  Go(s, [Looked(ses[s], par) EXCEPT !.path = new])

\* The entry is looked up in place of the working directory, and the command
\* ends.  A path that is too long is left as it is.
LookUp(s, par) ==
    LET new == path_build(ses[s].path, par)
    IN  Go(s, [Looked(ses[s], par) EXCEPT
               !.path = IF Fits(new) THEN path_up_a_level(new) ELSE new])

\* ftp_cmd_dele, ftp_cmd_rmd, ftp_cmd_size, ftp_cmd_rnto once there was a
\* RNFR, and ftp_cmd_mkd when it fails.
OnEntry(s) ==
    /\ LoggedIn(s)
    /\ \E par \in Parameters \ {"none"} : LookUp(s, par)
    /\ UNCHANGED <<netVars, fsVars>>

\* ftp_cmd_mdtm goes on after the 501 for missing parameters.
MDTM(s) ==
    /\ LoggedIn(s)
    /\ \E par \in Parameters : LookUp(s, par)
    /\ UNCHANGED <<netVars, fsVars>>

\* ftp_cmd_mkd when it succeeds: the new directory becomes the working one.
MKD(s) ==
    /\ LoggedIn(s)
    /\ \E par \in Parameters \ {"none"} :
        LET new == path_build(ses[s].path, par)
        IN  Fits(new) /\ Go(s, [Moved(ses[s]) EXCEPT !.path = new])
    /\ UNCHANGED <<netVars, fsVars>>
-----------------------------------------------------------------------------
(* Transfers.                                                              *)

\* data_con_open: in active mode the server connects, in passive mode it takes
\* a connection out of the mailbox.
DataConOpens(s) ==
    \/ /\ ses[s].data_conn_mode = "ACTIVE" /\ Available
       /\ netconns' = netconns + 1
       /\ UNCHANGED mbox
    \/ /\ ses[s].data_conn_mode = "PASSIVE"
       /\ \E w \in Mailbox(s) : mbox' = mbox \ {w}
       /\ UNCHANGED netconns

\* f_opendir takes an entry for a directory that is not the root and has
\* none yet.  Nobody closes the directory, and the entry stays.
f_opendir(s) ==
    \/ ses[s].path = <<>> /\ UNCHANGED fsVars
    \/ ses[s].path # <<>> /\ listed > 0 /\ UNCHANGED fsVars
    \/ ses[s].path # <<>> /\ Files < FS_LOCK /\ Files' = Files + 1 /\ listed' = listed + 1

\* ftp_cmd_list, ftp_cmd_mlsd without a data connection, and up to 150
ListFails(s) ==
    /\ LoggedIn(s)
    /\ f_opendir(s)
    /\ UNCHANGED <<ses, netVars>>

LIST(s) ==
    /\ LoggedIn(s)
    /\ f_opendir(s)
    /\ DataConOpens(s)
    /\ Go(s, [ses[s] EXCEPT !.pc = "list", !.dataconn = TRUE])

ListEnds(s) ==
    /\ ses[s].pc = "list"
    /\ Go(s, [DataConClosed(ses[s]) EXCEPT !.pc = "read"])
    /\ netconns' = netconns - 1
    /\ UNCHANGED <<mbox, fsVars>>

\* ftp_cmd_retr, ftp_cmd_stor when there is no such file, it cannot be
\* opened, or there is no data connection: the file is closed again.
TransferFails(s) ==
    /\ LoggedIn(s)
    /\ \E par \in Parameters \ {"none"} : LookUp(s, par)
    /\ UNCHANGED <<netVars, fsVars>>

\* ftp_cmd_retr, ftp_cmd_stor up to 150; every session has a file of its own.
TransferStarts(s) ==
    /\ LoggedIn(s) /\ DataConOpens(s)
    /\ Files < FS_LOCK
    /\ \E par \in {"entry", "below", "absolute"}, transfer \in {"retr", "stor"} :
        LET new == path_build(ses[s].path, par)
        IN  /\ Fits(new)
            /\ Go(s, [Looked(ses[s], par) EXCEPT
                  !.pc = transfer, !.dataconn = TRUE, !.file = TRUE, !.path = new])
    /\ Files' = Files + 1
    /\ UNCHANGED listed

\* The end of both commands, which a 451 and a 426 do not cut short.
TransferEnds(s) ==
    /\ Go(s, [DataConClosed(ses[s]) EXCEPT
          !.pc = "read", !.file = FALSE, !.path = path_up_a_level(@)])
    /\ netconns' = netconns - 1
    /\ Files' = Files - 1
    /\ UNCHANGED <<mbox, listed>>

\* lwIP gives up a connection that acknowledges nothing.
RetrEnds(s) == ses[s].pc = "retr" /\ TransferEnds(s)

\* The data connection has no receive timeout: without data nothing happens.
StorEnds(s) == ses[s].pc = "stor" /\ ~ses[s].silent /\ TransferEnds(s)
-----------------------------------------------------------------------------
Session(s) ==
    \/ LeaveService(s) \/ EndOfTask(s)
    \/ ListEnds(s) \/ RetrEnds(s) \/ StorEnds(s)

Client(s) ==
    \/ FtpAccept(s) \/ ClientConnects(s) \/ ClientFallsSilent(s)
    \/ USER(s) \/ PASS(s)
    \/ PASV(s) \/ PORT(s)
    \/ CWD(s) \/ CDUP(s) \/ OnEntry(s) \/ MDTM(s) \/ MKD(s)
    \/ ListFails(s) \/ LIST(s) \/ TransferFails(s) \/ TransferStarts(s)

FtpNext == \E s \in Slots : Session(s) \/ Client(s)

\* The tasks run, and lwIP reports what its timers find out.
FtpFairness == \A s \in Slots : WF_ftpVars(Session(s))

FtpSpec == FtpInit /\ [][FtpNext]_ftpVars /\ FtpFairness
-----------------------------------------------------------------------------
(* Properties.                                                             *)

\* Whatever commands a client sends, in whatever order they fail, and
\* whenever it leaves: every connection taken from lwIP is one that a running
\* session still refers to, or waits in the mailbox of its listener, and between
\* two commands a session holds neither a data connection nor an open file.  The entries of FatFs in use belong to
\* open files, or to directories that were listed, which are never closed.
NothingLeaked ==
    /\ netconns = Cardinality({s \in Slots : ses[s].pc # "free"})
                  + Cardinality({s \in Slots : ses[s].listdataconn # "NULL"})
                  + Cardinality({s \in Slots : ses[s].dataconn})
                  + Cardinality({w \in mbox : ses[w[1]].listdataconn = "listening"})
    /\ Files = listed + Cardinality({s \in Slots : ses[s].file})
    /\ \A s \in Slots : ses[s].pc \in {"free", "read", "end"} =>
            ~ses[s].dataconn /\ ~ses[s].file

\* A session in passive mode, whose client was told so by a 227, has a
\* listener that listens, unless an earlier PASV of it has failed: the
\* listener that failed is taken for a good one.
PassiveListens ==
    \A s \in Slots :
        ses[s].data_conn_mode = "PASSIVE" =>
            ses[s].listdataconn = "listening" \/ ses[s].pasvFailed

\* The server looks up an entry by building its path in the buffer of the
\* working directory.  Commands that name an entry of the working directory, in
\* any number and whether they fail or not, leave the session in the directory
\* of the last CWD or CDUP that was answered with 250.  What does move it is a
\* CWD that fails, a MKD that succeeds, and a parameter that is not the plain
\* name of an entry or makes the path too long.
WorkingDirectoryKept ==
    \A s \in Slots : ses[s].pc = "read" => ses[s].path = ses[s].cwd \/ ses[s].moved

\* "When the client disconnects the task is stopped": even a client that
\* vanishes without closing loses its session, unless it vanishes while the
\* server receives a file, which it does without a timeout.
VanishedClientDropped ==
    \A s \in Slots :
        ses[s].silent /\ ses[s].pc # "stor" ~> ses[s].pc = "free"
=============================================================================
