-------------------------- MODULE MCPostgresImport --------------------------
(* PostgresImport with two old users, one local account, and requests for   *)
(* one artist, of which the first has a note.  The name of the second old   *)
(* user is the e-mail address of both the first and the local account.      *)
EXTENDS PostgresImport
CONSTANTS amy, bob, cat, lidarr, plex, radiohead
MCOldUsers    == <<[name |-> amy, mail |-> bob], [name |-> bob, mail |-> NoMail]>>
MCOldServers  == <<[url |-> lidarr, supported |-> TRUE], [url |-> plex, supported |-> FALSE]>>
MCOldRequests == <<[user |-> amy, artist |-> radiohead, noted |-> TRUE],
                   [user |-> bob, artist |-> radiohead, noted |-> FALSE]>>
MCLocals      == {[name |-> cat, mail |-> bob]}
=============================================================================
