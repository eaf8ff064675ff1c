------------------------------ MODULE MCWebsite ------------------------------
\* The website's parts in one instance: the users with their sessions, a socket
\* of one session, a note, the preferences, the announcement and the live
\* camera. Every behaviour exercises one of them, which focus names, and leaves
\* the others as they began.
EXTENDS Sessions, LiveSocket, Notes, Profile, Announcements, LiveCam

VARIABLE focus

websiteVars == <<focus, sessionVars, socketVars, noteVars, profileVars, newsVars, camVars>>

Parts == {"sessions", "socket", "note", "profile", "news", "camera"}

\* Of an idle part one initial state is enough.
WebsiteInit ==
  /\ focus \in Parts
  /\ SessionsInit /\ SocketInit /\ NoteInit /\ ProfileInit /\ NewsInit /\ CamInit
  /\ focus # "socket" => admin /\ assigned
  /\ focus # "sessions" => users[CHOOSE u \in Users : TRUE].there

WebsiteNext ==
  /\ focus' = focus
  /\ \/ /\ focus = "sessions" /\ SessionsNext
        /\ UNCHANGED <<socketVars, noteVars, profileVars, newsVars, camVars>>
     \/ /\ focus = "socket" /\ SocketNext
        /\ UNCHANGED <<sessionVars, noteVars, profileVars, newsVars, camVars>>
     \/ /\ focus = "note" /\ NoteNext
        /\ UNCHANGED <<sessionVars, socketVars, profileVars, newsVars, camVars>>
     \/ /\ focus = "profile" /\ ProfileNext
        /\ UNCHANGED <<sessionVars, socketVars, noteVars, newsVars, camVars>>
     \/ /\ focus = "news" /\ NewsNext
        /\ UNCHANGED <<sessionVars, socketVars, noteVars, profileVars, camVars>>
     \/ /\ focus = "camera" /\ CamNext
        /\ UNCHANGED <<sessionVars, socketVars, noteVars, profileVars, newsVars>>

\* The database answers the jobs of a socket, and timers fire.
WebsiteSpec ==
  /\ WebsiteInit /\ [][WebsiteNext]_websiteVars
  /\ WF_socketVars(focus = "socket" /\ RunsJob)
  /\ WF_socketVars(focus = "socket" /\ BatchTimer)

\* The variables have the types the modules give them; those of an idle part
\* are as they began.
WebsiteTypeOK ==
  /\ focus = "sessions" => SessionsTypeOK
  /\ focus = "socket" => SocketTypeOK
  /\ focus = "note" => NoteTypeOK
  /\ focus = "profile" => ProfileTypeOK
  /\ focus = "news" => NewsTypeOK
  /\ focus = "camera" => CamTypeOK
=============================================================================
