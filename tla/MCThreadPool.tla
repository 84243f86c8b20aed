---------------------------- MODULE MCThreadPool ----------------------------
(***************************************************************************)
(* Small instances of ThreadPool.  main is the controller of main.cpp,     *)
(* other a second thread that uses the pool's public methods.              *)
(***************************************************************************)
EXTENDS ThreadPool, TLC

CONSTANTS main, other

\* main.cpp with and without the argument "graceful".
MainPrograms ==
  {main :> MainProgram(shutdown) @@ other :> <<>> :
     shutdown \in {ShutdownGraceful, ShutdownNow}}

\* One thread shuts the pool down while another one pauses it.
PauseDuringShutdown == main :> ShutdownGraceful @@ other :> PauseCall

\* main.cpp, or one thread shuts the pool down while another one pauses it,
\* with and without resuming it.
AllPrograms ==
  MainPrograms
    \cup {PauseDuringShutdown,
          main :> ShutdownGraceful @@ other :> PauseCall \o ResumeCall}

\* Workers are interchangeable, and so are producers.
Symmetry == Permutations(Worker) \cup Permutations(Producer)
=============================================================================
