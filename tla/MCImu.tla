-------------------------------- MODULE MCImu --------------------------------
(* Imu for TLC: samples of two registers and a FIFO of one byte, so that a  *)
(* burst waits for the driver and a sample can arrive at each of its steps. *)
EXTENDS Imu
=============================================================================
