--------------------------- MODULE MCSegotepPacket ---------------------------
(***************************************************************************)
(* Boundary values for SegotepPacket: both ends of a byte, and the words   *)
(* around the byte boundary and at the top, in every combination.          *)
(***************************************************************************)
EXTENDS SegotepPacket

MCBytes == {0, 15, 255}
MCWords == {0, 255, 256, 65535}

\* 3 stands for the model ids; 15 and 255 collide with the override and the top.
MCArguments ==
  [model_id : {3, 15, 255}, screen_off : BOOLEAN, fahrenheit : BOOLEAN, service : BOOLEAN]

\* The CPU fields vary with the GPU ones fixed and the other way round.
MCSamples ==
  [cpu_temp : MCBytes, cpu_load : {100}, cpu_power_watts : MCWords, cpu_clock_mhz : MCWords,
   gpu_temp : {65}, gpu_load : {99}, gpu_power_watts : {250}, gpu_clock_mhz : {2100}]
  \cup
  [cpu_temp : {55}, cpu_load : {80}, cpu_power_watts : {125}, cpu_clock_mhz : {4800},
   gpu_temp : MCBytes, gpu_load : {0, 255}, gpu_power_watts : MCWords, gpu_clock_mhz : MCWords]
=============================================================================
