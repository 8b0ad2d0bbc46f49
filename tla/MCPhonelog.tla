----------------------------- MODULE MCPhonelog ------------------------------
\* A dialer and a messenger over two contacts, a subscriber's number written in
\* two ways, one number that ends inside its country code and one address.
EXTENDS CtsPhonelogProps

Abroad == <<Plus, 8, 2, 7, 1>>
Home == <<0, 7, Dash, 1>>
Half == <<Plus, 8>>
Address == <<Dash, 3>>
MCSubscribers == {{Abroad, Home}}

Entry(number, related, type, time, data) ==
  [number |-> number, related_id |-> related, log_type |-> type, log_time |-> time, data1 |-> data]
MCEntries == {
  Entry(Home, 0, 2, 1, 1), Entry(Abroad, 1, 4, 3, 1), Entry(Home, 2, 2, 2, 1),
  Entry(Half, 0, 7, 1, 0), Entry(Null, 0, 5, 1, 0),
  Entry(Abroad, 2, 101, 2, 1), Entry(Address, 1, 201, 1, 0)}

Number(n) == [datatype |-> "number", data2 |-> n]
MCWritings ==
  {{Number(Abroad), [datatype |-> "email", data2 |-> Address]}, {Number(Home), Number(Half)}}
MCLeftovers == {<<7>>}
==============================================================================
