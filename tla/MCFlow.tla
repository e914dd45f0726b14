------------------------------- MODULE MCFlow -------------------------------
(* The scenarios the runs of ResumableFlow explore.                         *)
EXTENDS ResumableFlow

Sends(s, c) == [e \in Ends |-> IF e = "server" THEN s ELSE c]

\* A flow without replay is moved once while both apps send and close, between any
\* two of three bytes; the hold on the old tunnel may run out.
Swap == [len |-> Sends(3, 1), closers |-> Ends, replay |-> FALSE,
         tunnels |-> 2, moves |-> 1, cuts |-> 0, faults |-> {"linger"}]

\* A flow with replay is moved while its ring is full.
Full == [len |-> Sends(2, 0), closers |-> {"server"}, replay |-> TRUE,
         tunnels |-> 3, moves |-> 1, cuts |-> 0, faults |-> {}]

\* One session dies under a flow with replay, and there are two to resume on.
Resume == [len |-> Sends(2, 0), closers |-> Ends, replay |-> TRUE,
           tunnels |-> 3, moves |-> 0, cuts |-> 1, faults |-> {}]

\* A flow with replay is moved twice, off sessions that are retired.
Retired == [len |-> Sends(1, 0), closers |-> {}, replay |-> TRUE,
            tunnels |-> 3, moves |-> 2, cuts |-> 0, faults |-> {"retire"}]

\* Moves and resumes that time out, a session that dies, a resume window that
\* runs out.
Faulty == [len |-> Sends(1, 0), closers |-> {}, replay |-> TRUE,
           tunnels |-> 2, moves |-> 1, cuts |-> 1, faults |-> {"timeout", "window"}]

\* A move of a flow without replay times out at either end while two bytes and an
\* end are on their way.
Half == [len |-> Sends(2, 0), closers |-> {"server"}, replay |-> FALSE,
         tunnels |-> 2, moves |-> 1, cuts |-> 0, faults |-> {"timeout"}]

\* An app's socket fails while the flow is moved; the linger for ACKs runs out.
AppFailing == [len |-> Sends(1, 0), closers |-> {"server"}, replay |-> TRUE,
               tunnels |-> 2, moves |-> 1, cuts |-> 0, faults |-> {"app", "window"}]

\* A flow that could not be moved is suspended by the server and resumed, while
\* the client's app closes.
GivenUp == [len |-> Sends(0, 0), closers |-> {"client"}, replay |-> TRUE,
            tunnels |-> 3, moves |-> 1, cuts |-> 0, faults |-> {"giveup"}]

\* A session dies while the flow is moved off it, and the resumed flow is moved
\* again.
MovedAgain == [len |-> Sends(0, 0), closers |-> {}, replay |-> TRUE,
               tunnels |-> 4, moves |-> 2, cuts |-> 1, faults |-> {}]

Orderlies   == {Swap, Full, Resume, Half}
Disrupted   == {Retired, Faulty, AppFailing, GivenUp}
Interrupted == {MovedAgain}
=============================================================================
