------------------------------- MODULE ThumbHash ------------------------------
(***************************************************************************)
(* The layout of a ThumbHash: crates/imgx/src/transform/thumbhash.rs.  The *)
(* coefficients are left out; how many there are, and so how long a hash   *)
(* is, depends on the size of the raster and on its transparency only.     *)
(***************************************************************************)
EXTENDS Integers, FiniteSets

MAX_SIDE == 100

\* What the functions return: the error, or "none" and a length.
Ok(length) == [error |-> "none", length |-> length]
Err(error) == [error |-> error, length |-> 0]

\* 8-bit samples of 1 to 4 bands become RGBA.
rgba_from_bands(length, width, height, bands_of) ==
  IF bands_of \notin 1..4 THEN Err("UnsupportedBands")
  ELSE IF length # width * height * bands_of THEN Err("BufferLengthMismatch")
  ELSE Ok(4 * width * height)

\* How many AC terms a channel of nx by ny has: one for each pair below the
\* diagonal but the first, which is the DC term.
encode_channel(nx, ny) ==
  Cardinality({c \in (0..nx) \X (0..(ny - 1)) : c[1] * ny < nx * (ny - c[2])}) - 1

round_to_u32(n, d) == (2 * n + d) \div (2 * d)

\* The luminance terms along a side.
Terms(side, longest, has_alpha) ==
  LET limit == IF has_alpha THEN 5 ELSE 7
      n == round_to_u32(limit * side, longest)
  IN IF n < 1 THEN 1 ELSE n

AtLeast3(n) == IF n < 3 THEN 3 ELSE n

\* Mutant of Bytes: thin images get as few luminance terms as they have.
BytesOfThin(lx, ly, has_alpha) ==
  LET alpha == IF has_alpha THEN encode_channel(5, 5) ELSE 0
      terms == encode_channel(lx, ly) + 2 * encode_channel(3, 3) + alpha
  IN 5 + (IF has_alpha THEN 1 ELSE 0) + (terms + 1) \div 2

\* Five bytes of header, one more with alpha, and four bits for each AC term.
Bytes(lx, ly, has_alpha) ==
  LET alpha == IF has_alpha THEN encode_channel(5, 5) ELSE 0
      terms == encode_channel(AtLeast3(lx), AtLeast3(ly)) + 2 * encode_channel(3, 3) + alpha
  IN 5 + (IF has_alpha THEN 1 ELSE 0) + (terms + 1) \div 2

encode(width, height, length, has_alpha) ==
  IF width \notin 1..MAX_SIDE \/ height \notin 1..MAX_SIDE THEN Err("InvalidDimensions")
  ELSE IF length # 4 * width * height THEN Err("BufferLengthMismatch")
  ELSE LET longest == IF width > height THEN width ELSE height
       IN Ok(Bytes(Terms(width, longest, has_alpha), Terms(height, longest, has_alpha),
                   has_alpha))

\* Four characters for every three bytes, the last ones padded.
to_base64(length) == 4 * ((length + 2) \div 3)
=============================================================================
