---------------------------- MODULE MCKmsPlugin ----------------------------
EXTENDS KmsPlugin

=============================================================================
