------------------------------ MODULE MCBytes ------------------------------
\* Two-bit bytes, a key of two bytes, and the payloads of the runs.
EXTENDS Integers, Sequences

MCKey == <<2, 3>>
BitOf(b, n) == (b \div 2^n) % 2
MCCipher(i, b) ==
  LET k == MCKey[((i - 1) % Len(MCKey)) + 1]
  IN  (((BitOf(b, 1) + BitOf(k, 1)) % 2) * 2) + ((BitOf(b, 0) + BitOf(k, 0)) % 2)

\* Without a '\r' (byte 1) among the encrypted bytes, and not of full length.
MCPlain == {<<0>>, <<2>>, <<3, 0>>, <<0, 3, 2>>}

\* The second byte of the payload encrypts to '\r'.
MCSplit == {<<0, 1, 2>>}
=============================================================================
