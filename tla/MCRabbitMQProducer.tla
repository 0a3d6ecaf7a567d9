------------------------- MODULE MCRabbitMQProducer -------------------------
(* The RabbitMQ producer with a few callers and connections, for TLC.      *)
EXTENDS RabbitMQProducer
=============================================================================
