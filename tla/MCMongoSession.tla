---------------------------- MODULE MCMongoSession ----------------------------
EXTENDS MongoSession, TLC

Symmetry == Permutations(Workers)

=============================================================================
