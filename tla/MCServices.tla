------------------------------ MODULE MCServices ------------------------------
(***************************************************************************)
(* Small instances, for TLC, of the parts of the daemon and its clients    *)
(* that do not depend on the state machine: they share no state, so each   *)
(* behaviour is one of one part, and the others wait in their first state. *)
(***************************************************************************)
EXTENDS SpotifyWeb, Spawn, Wire, Capture, Fourier

VARIABLE part

Parts == {"web", "spawn", "wire", "capture", "fourier"}
servicesVars == <<part, spotifyVars, spawnVars, wireVars, captureVars, fourierVars>>

ServicesInit ==
  /\ part \in Parts
  /\ SpotifyInit /\ SpawnInit /\ WireInit /\ CaptureInit /\ FourierInit
  /\ part # "web" => tokens = NoTokens

ServicesNext ==
  /\ UNCHANGED part
  /\ \/ part = "web" /\ SpotifyNext
        /\ UNCHANGED <<spawnVars, wireVars, captureVars, fourierVars>>
     \/ part = "spawn" /\ SpawnNext
        /\ UNCHANGED <<spotifyVars, wireVars, captureVars, fourierVars>>
     \/ part = "wire" /\ WireNext
        /\ UNCHANGED <<spotifyVars, spawnVars, captureVars, fourierVars>>
     \/ part = "capture" /\ CaptureNext
        /\ UNCHANGED <<spotifyVars, spawnVars, wireVars, fourierVars>>
     \/ part = "fourier" /\ FourierNext
        /\ UNCHANGED <<spotifyVars, spawnVars, wireVars, captureVars>>

ServicesSpec ==
  /\ ServicesInit /\ [][ServicesNext]_servicesVars
  /\ SpotifyFairness /\ SpawnFairness /\ WireFairness

\* The types of each part, with what its comment says of them.
ServicesTypeOK == SpotifyTypeOK /\ SpawnTypeOK /\ WireTypeOK /\ CaptureTypeOK
=============================================================================
